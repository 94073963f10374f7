---------------------------- MODULE MCAnalytics ----------------------------
(***************************************************************************)
(* What Analytics computes, over bounded inputs: TLC evaluates the         *)
(* assumptions.  The options are the defaults of ai-analytics-service.     *)
(***************************************************************************)
EXTENDS Analytics

LOCAL Options == [frequencyCap |-> 20, hotThreshold |-> 50, coldAgeThresholdDays |-> 30]
LOCAL Counts == 1..25
LOCAL HalfLives == 0..8
LOCAL Versions == {[file |-> 1, number |-> 1, size |-> 2], [file |-> 1, number |-> 2, size |-> 3],
                   [file |-> 2, number |-> 1, size |-> 5]}
LOCAL S(count, idle) == Score(count, idle, Options)
LOCAL Hot(count, idle) == Tier(S(count, idle), Options) = "hot"

\* More accesses never make a file colder, idleness never makes it warmer, and the
\* score stays out of 100.
ASSUME ScoreIsMonotonic ==
    \A c \in Counts, k \in HalfLives :
        /\ S(c, k) \in 0..100
        /\ S(c + 1, k) >= S(c, k)
        /\ S(c, k + 1) <= S(c, k)

\* The comment on scoreFileTemperature: a file hammered a half-life ago or earlier is
\* colder than one accessed a handful of times today.
ASSUME RecencyOutweighsFrequency ==
    \A c, d \in Counts, k \in HalfLives \ {0} : S(c, k) < S(d, 0)

\* Nothing keeps a file hot for ever: two idle half-lives make any file cold, and a file
\* never accessed is cold from the start; a single access makes it hot.
ASSUME HotnessIsEarned ==
    /\ \A c \in Counts : Hot(c, 0)
    /\ \A c \in Counts, k \in HalfLives \ {0, 1} : ~ Hot(c, k)
    /\ ~ Hot(0, Never)

\* The advice by case, stated apart from the code: what was accessed is kept or moved,
\* what never was is archived once it is old enough.
ASSUME AdviceFits ==
    \A c \in Counts, k \in HalfLives, age \in {0, 29, 30, 120} :
        /\ Row([id |-> 1, ageDays |-> age], Versions, 1 :> [count |-> c, idle |-> k], Options).advice
             = IF Hot(c, k) THEN "keep" ELSE "move"
        /\ Row([id |-> 1, ageDays |-> age], Versions, 2 :> [count |-> c, idle |-> k], Options).advice
             = IF age < 30 THEN "too new" ELSE "archive"

\* The rows are the files of the list, coldest first, each with its latest size.
ASSUME RowsAreSorted ==
    \A stats \in [1..3 -> [count : {1, 20}, idle : {0, 3}]] :
        LET files == [i \in 1..3 |-> [id |-> i, ageDays |-> 60]]
            rows == Rows(files, Versions, stats, Options)
        IN  /\ {<<rows[i].id, rows[i].sizeBytes>> : i \in DOMAIN rows}
                 = {<<1, 3>>, <<2, 5>>, <<3, 0>>}
            /\ \A i \in 1..2 :
                \/ rows[i].score < rows[i + 1].score
                \/ rows[i].score = rows[i + 1].score /\ rows[i].id < rows[i + 1].id

LOCAL SizeOf == "k" :> 2 @@ "l" :> 3
LOCAL ChunksWith(keys) == {[id |-> i, key |-> keys[i], size |-> SizeOf[keys[i]]] : i \in 1..3}
LOCAL Uses(keys, k) == Cardinality({i \in 1..3 : keys[i] = k})

\* Deduplication saves every use of a key but the first: nothing when all chunks differ,
\* never a negative amount.  A deletion changes the files and their bytes, not that.
ASSUME StatsAddUp ==
    \A keys \in [1..3 -> {"k", "l"}], gone \in BOOLEAN :
        LET files == {[id |-> 1, isDeleted |-> FALSE], [id |-> 2, isDeleted |-> gone]}
            stats == SystemStats(files, Versions, ChunksWith(keys))
        IN  /\ stats.dedupedBytes
                 = MapThenSumSet(LAMBDA k : (Uses(keys, k) - 1) * SizeOf[k],
                                 {keys[i] : i \in 1..3})
            /\ stats.totalFiles = IF gone THEN 1 ELSE 2
            /\ stats.totalBytes = IF gone THEN 3 ELSE 8
            /\ stats.totalVersions = 3

\* The overview is quiet exactly when there is nothing to do.
ASSUME AdviceIsDue ==
    \A healthy \in BOOLEAN, used \in {8, 9}, missing, saved \in 0..1 :
        LET nodes == {[name |-> "n", isHealthy |-> healthy, used |-> used, capacity |-> 10],
                      [name |-> "new", isHealthy |-> TRUE, used |-> 0, capacity |-> 0]}
        IN  Recommendations(nodes, Diagnostics(nodes, missing), [dedupedBytes |-> saved], <<>>) = {}
              <=> healthy /\ used = 8 /\ missing = 0 /\ saved = 0
=============================================================================
