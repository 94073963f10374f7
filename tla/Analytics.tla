----------------------------- MODULE Analytics -----------------------------
(***************************************************************************)
(* What the dashboard shows as operators on what was read: the temperature *)
(* of a file, the statistics of metadata-service over its tables, and the  *)
(* recommendations ai-analytics-service makes of them.                     *)
(*                                                                         *)
(* Time since the last access is counted in whole half-lives, where the    *)
(* decay 0.5 ^ (days / recencyHalfLifeDays) is exact; texts are named by   *)
(* what they advise.                                                       *)
(***************************************************************************)
EXTENDS Integers, FiniteSetsExt, Sequences, TLC

Never == -1                     \* lastAccessedAt is null

\* Math.round of n / d.
Round(n, d) == (2 * n + d) \div (2 * d)

\* scoreFileTemperature: 0.7 * recency + 0.3 * frequency, both out of 100.
Score(count, idle, options) ==
    LET cap == options.frequencyCap
        often == IF count < cap THEN count ELSE cap
    IN  IF idle = Never
        THEN Round(30 * often, cap)
        ELSE Round(70 * cap + 30 * often * 2^idle, cap * 2^idle)

Tier(score, options) == IF score >= options.hotThreshold THEN "hot" ELSE "cold"

\* buildRecommendation.
Advice(tier, ageDays, idle, count, options) ==
    CASE tier = "hot" -> "keep"
      [] tier # "hot" /\ count = 0 /\ ageDays < options.coldAgeThresholdDays -> "too new"
      [] tier # "hot" /\ ~(count = 0 /\ ageDays < options.coldAgeThresholdDays) ->
            IF idle = Never THEN "archive" ELSE "move"

\* latestVersion: one version, or none.
Latest(versions, id) ==
    {v \in versions : v.file = id /\ \A w \in versions : w.file = id => w.number <= v.number}

SizeInAll(versions) == MapThenSumSet(LAMBDA v : v.size, versions)

\* findByFileIds: a file without stats was never accessed.
StatOf(stats, id) ==
    IF id \in DOMAIN stats THEN stats[id] ELSE [count |-> 0, idle |-> Never]

\* A row of getFileRecommendations; a file still without a version has size 0.
Row(file, versions, stats, options) ==
    LET stat == StatOf(stats, file.id)
        score == Score(stat.count, stat.idle, options)
        tier == Tier(score, options)
    IN  [id |-> file.id, sizeBytes |-> SizeInAll(Latest(versions, file.id)),
         score |-> score, tier |-> tier,
         advice |-> Advice(tier, file.ageDays, stat.idle, stat.count, options)]

\* Coldest first, otherwise in the order of the list.
Rows(files, versions, stats, options) ==
    SortSeq([i \in DOMAIN files |-> Row(files[i], versions, stats, options)],
            LAMBDA a, b : a.score < b.score)

\* getSystemStats: deleted files leave the totals, their versions and chunks do not.
SystemStats(files, versions, chunks) ==
    LET live == {f \in files : ~ f.isDeleted}
        logical == MapThenSumSet(LAMBDA c : c.size, chunks)
        physical == MapThenSumSet(LAMBDA k : k.size, {[key |-> c.key, size |-> c.size] : c \in chunks})
    IN  [totalFiles |-> Cardinality(live), totalVersions |-> Cardinality(versions),
         totalChunks |-> Cardinality(chunks),
         totalBytes |-> SizeInAll(UNION {Latest(versions, f.id) : f \in live}),
         dedupedBytes |-> logical - physical]

\* getDiagnostics.
Diagnostics(nodes, underReplicated) ==
    [totalNodes |-> Cardinality(nodes),
     unhealthyNodes |-> Cardinality({n \in nodes : ~ n.isHealthy}),
     underReplicated |-> underReplicated]

\* usedBytes / capacityBytes > 0.8.
NearlyFull(node) == node.capacity > 0 /\ 10 * node.used > 8 * node.capacity

DiagnosticsAdvice(diagnostics) ==
    {a \in {"replicas", "nodes"} :
        \/ a = "replicas" /\ diagnostics.underReplicated > 0
        \/ a = "nodes" /\ diagnostics.unhealthyNodes > 0}

\* getOverview: what each recommendation is about.
Recommendations(nodes, diagnostics, storage, rows) ==
    {<<"full", n.name>> : n \in {m \in nodes : NearlyFull(m)}}
    \union {<<a>> : a \in DiagnosticsAdvice(diagnostics)}
    \union {<<"deduplication">> : x \in {y \in {storage} : y.dedupedBytes > 0}}
    \union {<<"cold">> : i \in {j \in DOMAIN rows : rows[j].tier = "cold"}}
=============================================================================
