-------------------------- MODULE EventBus_proofs --------------------------
(***************************************************************************)
(* Proofs about EventBus, for any events, subscriptions and processes.     *)
(* That messages are settled is a liveness property and stays with TLC.    *)
(***************************************************************************)
EXTENDS EventBus, FiniteSetTheorems, TLAPS

\* No event is published twice.
LogFits == \A i, j \in DOMAIN log : log[i] = log[j] => i = j

\* A queue holds unsettled messages for its subscription, in the order of publication.
QueuesFit ==
    \A s \in Subscriptions :
        /\ boundAt[s] <= Len(log)
        /\ \A e \in Range(queue[s]) :
            e \in Range(log) /\ outcome[s][e] = "none" /\ Key[e] = Binding[s]
        /\ \A i, j \in DOMAIN queue[s] : \A a, b \in DOMAIN log :
            i < j /\ log[a] = queue[s][i] /\ log[b] = queue[s][j] => a < b
        /\ head[s] # "idle" => queue[s] # <<>>
        /\ \A e \in Events : outcome[s][e] # "none" => e \in Range(log) /\ Key[e] = Binding[s]

\* The message whose handler has ended without an error, not yet acknowledged.
Handled(s) == IF head[s] = "handled" THEN {Head(queue[s])} ELSE {}
SettledBy(s) == {e \in Events : outcome[s][e] # "none"}

EffectsFit ==
    /\ \A f \in Files :
        stats[f].count
            >= Cardinality({e \in AckedBy(Analytics) \union Handled(Analytics) : File[e] = f})
    /\ \A s \in Subscriptions \ {Analytics} : \A e \in AckedBy(s) \union Handled(s) :
        rows[e] > 0

\* A closed connection has still to lose the acknowledgement it was a fault for.
Owed == IF sub[Analytics] = "deaf" THEN 1 ELSE 0

CountsFit ==
    \A f \in Files :
        stats[f].count + Owed <=
            faults
            + Cardinality({e \in SettledBy(Analytics) \union Handled(Analytics) : File[e] = f})

\* What is still to be counted was accessed no earlier than what was.
TimesFit ==
    \A i \in DOMAIN log :
        log[i] \in Range(queue[Analytics]) => stats[File[log[i]]].last <= i

IInv ==
    /\ TypeOK /\ LogFits /\ QueuesFit /\ EffectsFit /\ CountsFit /\ TimesFit
    /\ MissedOnlyIfUnbound

----------------------------------------------------------------------------
(***************************************************************************)
(* Sequences and their ranges.                                             *)
(***************************************************************************)

LEMMA SeqRange ==
    ASSUME NEW S, NEW s \in Seq(S)
    PROVE  /\ Len(s) \in Nat /\ DOMAIN s = 1..Len(s)
           /\ Range(s) \subseteq S /\ IsFiniteSet(Range(s))
           /\ \A i \in DOMAIN s : s[i] \in Range(s)
           /\ \A e \in Range(s) : \E i \in DOMAIN s : s[i] = e
<1>1. /\ Len(s) \in Nat /\ DOMAIN s = 1..Len(s)
      /\ \A i \in DOMAIN s : s[i] \in S
    OBVIOUS
<1>2. /\ \A i \in DOMAIN s : s[i] \in Range(s)
      /\ \A e \in Range(s) : \E i \in DOMAIN s : s[i] = e
    BY DEF Range
<1>3. Range(s) \subseteq S
    BY <1>1, <1>2
<1>4. s \in [1..Len(s) -> Range(s)]
    BY <1>1, <1>2
<1>5. s \in Surjection(1..Len(s), Range(s))
    BY <1>1, <1>2, <1>4 DEF Surjection
<1>6. IsFiniteSet(1..Len(s))
    BY <1>1, FS_Interval
<1> QED
    BY <1>1, <1>2, <1>3, <1>5, <1>6, FS_Surjection

LEMMA AppendAddsToRange ==
    ASSUME NEW S, NEW s \in Seq(S), NEW e \in S
    PROVE  /\ Append(s, e) \in Seq(S) /\ Len(Append(s, e)) = Len(s) + 1
           /\ Append(s, e)[Len(s) + 1] = e
           /\ \A i \in 1..Len(s) : Append(s, e)[i] = s[i]
           /\ Range(Append(s, e)) = Range(s) \union {e}
<1>1. /\ Append(s, e) \in Seq(S) /\ Len(s) \in Nat /\ Len(Append(s, e)) = Len(s) + 1
      /\ DOMAIN s = 1..Len(s) /\ DOMAIN Append(s, e) = 1..(Len(s) + 1)
      /\ Append(s, e)[Len(s) + 1] = e
      /\ \A i \in 1..Len(s) : Append(s, e)[i] = s[i]
    OBVIOUS
<1>2. \A i \in 1..(Len(s) + 1) : i \in 1..Len(s) \/ i = Len(s) + 1
    BY <1>1
<1>3. 1..Len(s) \subseteq 1..(Len(s) + 1) /\ Len(s) + 1 \in 1..(Len(s) + 1)
    BY <1>1
<1> QED
    BY <1>1, <1>2, <1>3 DEF Range

LEMMA TailLeavesRange ==
    ASSUME NEW S, NEW s \in Seq(S), s # <<>>
    PROVE  /\ Head(s) \in Range(s) /\ Head(s) = s[1] /\ 1 \in DOMAIN s
           /\ Tail(s) \in Seq(S)
           /\ \A i \in DOMAIN Tail(s) : i + 1 \in DOMAIN s /\ Tail(s)[i] = s[i + 1]
           /\ Range(s) = Range(Tail(s)) \union {Head(s)}
<1>1. /\ Len(s) \in Nat \ {0} /\ DOMAIN s = 1..Len(s) /\ Head(s) = s[1]
      /\ Tail(s) \in Seq(S) /\ Len(Tail(s)) = Len(s) - 1
      /\ DOMAIN Tail(s) = 1..(Len(s) - 1)
      /\ \A i \in 1..(Len(s) - 1) : Tail(s)[i] = s[i + 1]
    OBVIOUS
<1>2. 1 \in DOMAIN s /\ \A i \in DOMAIN Tail(s) : i + 1 \in DOMAIN s
    BY <1>1
<1>3. \A i \in DOMAIN s : i = 1 \/ (i - 1 \in DOMAIN Tail(s) /\ Tail(s)[i - 1] = s[i])
    BY <1>1
<1>4. Range(Tail(s)) \union {Head(s)} \subseteq Range(s)
    BY <1>1, <1>2 DEF Range
<1>5. Range(s) \subseteq Range(Tail(s)) \union {Head(s)}
    BY <1>1, <1>3 DEF Range
<1> QED
    BY <1>1, <1>2, <1>4, <1>5

----------------------------------------------------------------------------
(***************************************************************************)
(* The model's data, and what keeps the parts of IInv about counts.        *)
(***************************************************************************)

LEMMA EventType ==
    ASSUME NEW e \in Events
    PROVE  File[e] \in Files
BY DEF Files

LEMMA FaultIsCounted ==
    ASSUME TypeOK, Fault
    PROVE  faults' \in 0..MaxFaults /\ faults' = faults + 1 /\ faults \in Nat
BY EventAssumption DEF TypeOK, Fault

\* A published event has one place in log.
LEMMA PlaceInLog ==
    ASSUME TypeOK, LogFits, NEW i \in DOMAIN log
    PROVE  AccessedAt(log[i]) = i
BY DEF LogFits, AccessedAt

LEMMA PlaceType ==
    ASSUME TypeOK, LogFits, NEW e \in Range(log)
    PROVE  AccessedAt(e) \in 1..Len(log) /\ log[AccessedAt(e)] = e
<1>1. PICK i \in DOMAIN log : log[i] = e
    BY SeqRange DEF TypeOK
<1>2. AccessedAt(e) = i
    BY <1>1, PlaceInLog
<1> QED
    BY <1>1, <1>2, SeqRange DEF TypeOK

\* Acknowledged and settled messages are published events, hence finitely many.
LEMMA CountedAreFinite ==
    ASSUME TypeOK, QueuesFit, NEW s \in Subscriptions, NEW f
    PROVE  /\ IsFiniteSet({e \in AckedBy(s) \union Handled(s) : File[e] = f})
           /\ IsFiniteSet({e \in SettledBy(s) \union Handled(s) : File[e] = f})
           /\ Cardinality({e \in AckedBy(s) \union Handled(s) : File[e] = f}) \in Nat
           /\ Cardinality({e \in SettledBy(s) \union Handled(s) : File[e] = f}) \in Nat
<1>1. IsFiniteSet(Range(log))
    BY SeqRange DEF TypeOK
<1>2. AckedBy(s) \subseteq SettledBy(s) /\ SettledBy(s) \subseteq Range(log)
    BY DEF AckedBy, SettledBy, QueuesFit
<1>3. Handled(s) \subseteq Range(log)
    <2> SUFFICES ASSUME head[s] = "handled" PROVE Head(queue[s]) \in Range(log)
        BY DEF Handled
    <2>1. queue[s] \in Seq(Events) /\ queue[s] # <<>>
        BY DEF TypeOK, QueuesFit
    <2>2. Head(queue[s]) \in Range(queue[s])
        BY <2>1, TailLeavesRange
    <2> QED
        BY <2>2 DEF QueuesFit
<1>4. /\ {e \in AckedBy(s) \union Handled(s) : File[e] = f} \subseteq Range(log)
      /\ {e \in SettledBy(s) \union Handled(s) : File[e] = f} \subseteq Range(log)
    BY <1>2, <1>3
<1> QED
    BY <1>1, <1>4, FS_Subset, FS_CardinalityType

\* No effect, and nothing newly handled or acknowledged.
LEMMA EffectsStay ==
    ASSUME TypeOK, QueuesFit, EffectsFit, UNCHANGED <<stats, rows>>,
           \A s \in Subscriptions :
               AckedBy(s)' \union Handled(s)' \subseteq AckedBy(s) \union Handled(s)
    PROVE  EffectsFit'
<1>1. ASSUME NEW f \in Files
      PROVE  stats[f].count >=
                Cardinality({e \in AckedBy(Analytics)' \union Handled(Analytics)' : File[e] = f})
    <2> DEFINE S == {e \in AckedBy(Analytics) \union Handled(Analytics) : File[e] = f}
               T == {e \in AckedBy(Analytics)' \union Handled(Analytics)' : File[e] = f}
    <2>1. IsFiniteSet(S) /\ Cardinality(S) \in Nat
        BY EventAssumption, CountedAreFinite
    <2>2. T \subseteq S
        BY EventAssumption
    <2>3. stats[f].count >= Cardinality(S) /\ stats[f].count \in Nat
        BY DEF EffectsFit, TypeOK, Stats
    <2> HIDE DEF S, T
    <2>4. Cardinality(T) <= Cardinality(S) /\ Cardinality(T) \in Nat
        BY <2>1, <2>2, FS_Subset, FS_CardinalityType
    <2>5. stats[f].count >= Cardinality(T)
        BY <2>1, <2>3, <2>4
    <2> QED
        BY <2>5 DEF T
<1> QED
    BY <1>1 DEF EffectsFit


\* Counted messages are published events, in the next state as well.
LEMMA CountedStayFinite ==
    ASSUME TypeOK', QueuesFit', NEW f
    PROVE  IsFiniteSet({e \in SettledBy(Analytics)' \union Handled(Analytics)' : File[e] = f})
<1>1. IsFiniteSet(Range(log'))
    BY SeqRange DEF TypeOK
<1>2. SettledBy(Analytics)' \subseteq Range(log') /\ Handled(Analytics)' \subseteq Range(log')
    <2>1. SettledBy(Analytics)' \subseteq Range(log')
        BY EventAssumption DEF SettledBy, QueuesFit
    <2>2. ASSUME head'[Analytics] = "handled"
          PROVE  Head(queue'[Analytics]) \in Range(log')
        <3>1. queue'[Analytics] \in Seq(Events) /\ queue'[Analytics] # <<>>
            BY <2>2, EventAssumption DEF TypeOK, QueuesFit
        <3>2. Head(queue'[Analytics]) \in Range(queue'[Analytics])
            BY <3>1, TailLeavesRange
        <3> QED
            BY <3>2, EventAssumption DEF QueuesFit
    <2> QED
        BY <2>1, <2>2 DEF Handled
<1>3. {e \in SettledBy(Analytics)' \union Handled(Analytics)' : File[e] = f}
        \subseteq Range(log')
    BY <1>2
<1> QED
    BY <1>1, <1>3, FS_Subset

LEMMA CountsAddUp ==
    ASSUME NEW count \in Nat, NEW o1 \in Nat, NEW o2 \in Nat, NEW f1 \in Nat, NEW f2 \in Nat,
           NEW n \in Nat, NEW c1 \in Nat, NEW c2 \in Nat,
           count + o1 <= f1 + c1, c1 <= c2 + n, o2 + f1 + n <= o1 + f2
    PROVE  count + o2 <= f2 + c2
OBVIOUS

\* Nothing newly counted; a message that is to be counted once more was paid for with a
\* fault, or with what a closed connection owed.
LEMMA CountsStay ==
    ASSUME TypeOK, TypeOK', QueuesFit, QueuesFit', CountsFit, UNCHANGED stats,
           NEW Again \in SUBSET Handled(Analytics),
           SettledBy(Analytics) \union Handled(Analytics)
               \subseteq SettledBy(Analytics)' \union Handled(Analytics)' \union Again,
           Owed' + faults <= Owed + faults',
           Again # {} => Owed' + faults + 1 <= Owed + faults'
    PROVE  CountsFit'
<1>1. ASSUME NEW f \in Files
      PROVE  stats[f].count + Owed' <= faults'
                + Cardinality({e \in SettledBy(Analytics)' \union Handled(Analytics)' :
                               File[e] = f})
    <2> DEFINE S == {e \in SettledBy(Analytics) \union Handled(Analytics) : File[e] = f}
               T == {e \in SettledBy(Analytics)' \union Handled(Analytics)' : File[e] = f}
               h == Head(queue[Analytics])
               n == IF Again = {} THEN 0 ELSE 1
    <2>1. IsFiniteSet(T) /\ IsFiniteSet(S) /\ Cardinality(S) \in Nat /\ Cardinality(T) \in Nat
        BY EventAssumption, CountedAreFinite, CountedStayFinite, FS_CardinalityType
    <2>2. stats[f].count + Owed <= faults + Cardinality(S) /\ stats[f].count \in Nat
        BY DEF CountsFit, TypeOK, Stats
    <2>3. faults \in Nat /\ faults' \in Nat /\ Owed \in Nat /\ Owed' \in Nat
        BY EventAssumption DEF TypeOK, Owed
    <2>4. Cardinality(S) <= Cardinality(T) + n
        <3>1. CASE Again = {}
            <4>1. S \subseteq T
                BY <3>1
            <4> HIDE DEF S, T
            <4> QED
                BY <4>1, <3>1, <2>1, FS_Subset
        <3>2. CASE Again # {}
            <4>1. S \subseteq T \union {h}
                BY DEF Handled
            <4> HIDE DEF S, T, h
            <4>2. /\ IsFiniteSet(T \union {h})
                  /\ Cardinality(T \union {h}) \in {Cardinality(T), Cardinality(T) + 1}
                BY <2>1, FS_AddElement
            <4>3. Cardinality(S) <= Cardinality(T \union {h})
                BY <4>1, <4>2, FS_Subset
            <4>4. Cardinality(T \union {h}) \in Nat
                BY <4>2, FS_CardinalityType
            <4> QED
                BY <3>2, <4>2, <4>3, <4>4, <2>1
        <3> QED
            BY <3>1, <3>2
    <2>5. n \in Nat /\ Owed' + faults + n <= Owed + faults'
        <3>1. Owed' + faults + 0 = Owed' + faults
            BY <2>3
        <3> QED
            BY <3>1
    <2> HIDE DEF S, T, n
    <2>6. stats[f].count + Owed' <= faults' + Cardinality(T)
        BY <2>1, <2>2, <2>3, <2>4, <2>5, CountsAddUp
    <2> QED
        BY <2>6 DEF T
<1>2. UNCHANGED stats
    OBVIOUS
<1> QED
    BY <1>1, <1>2 DEF CountsFit

LEMMA CountsUntouched ==
    ASSUME TypeOK, TypeOK', QueuesFit, QueuesFit', CountsFit, UNCHANGED stats,
           SettledBy(Analytics) \union Handled(Analytics)
               \subseteq SettledBy(Analytics)' \union Handled(Analytics)',
           Owed' + faults <= Owed + faults'
    PROVE  CountsFit'
<1> DEFINE none == {}
<1>1. /\ none \in SUBSET Handled(Analytics)
      /\ SettledBy(Analytics) \union Handled(Analytics)
            \subseteq SettledBy(Analytics)' \union Handled(Analytics)' \union none
    OBVIOUS
<1>2. none # {} => Owed' + faults + 1 <= Owed + faults'
    OBVIOUS
<1> HIDE DEF none
<1> QED
    BY <1>1, <1>2, CountsStay

----------------------------------------------------------------------------
(***************************************************************************)
(* Every step preserves IInv.                                              *)
(***************************************************************************)

\* The handled messages of a subscription are as before if its queue keeps its head.
LEMMA HandledStays ==
    ASSUME TypeOK, QueuesFit, UNCHANGED head, NEW s \in Subscriptions,
           queue[s] # <<>> => Head(queue'[s]) = Head(queue[s])
    PROVE  Handled(s)' = Handled(s)
BY DEF QueuesFit, Handled

LEMMA PublishStep ==
    ASSUME IInv, NEW e \in Events, Publish(e)
    PROVE  IInv'
<1> DEFINE n == Len(log)
<1>1. /\ log' = Append(log, e) /\ e \notin Range(log)
      /\ UNCHANGED <<boundAt, outcome, sub, head, stats, rows, faults>>
      /\ log \in Seq(Events) /\ n \in Nat
    <2>1. log \in Seq(Events)
        BY DEF IInv, TypeOK
    <2> QED
        BY <2>1 DEF Publish
<1>2. /\ log' \in Seq(Events) /\ Len(log') = n + 1 /\ log'[n + 1] = e
      /\ \A i \in 1..n : log'[i] = log[i]
      /\ Range(log') = Range(log) \union {e}
      /\ DOMAIN log = 1..n /\ DOMAIN log' = 1..(n + 1)
      /\ \A i \in 1..n : log[i] \in Range(log) /\ log[i] # e
    BY <1>1, AppendAddsToRange, SeqRange
<1> HIDE DEF n
<1>3. \A i \in 1..(n + 1) : i \in 1..n \/ i = n + 1
    BY <1>1
<1>4. queue \in [Subscriptions -> Seq(Events)]
    BY DEF IInv, TypeOK
<1>5. ASSUME NEW s \in Subscriptions
      PROVE  \/ queue'[s] = queue[s] /\ ~ Matches(s, e)
             \/ /\ Matches(s, e) /\ queue'[s] = Append(queue[s], e)
                /\ Len(queue'[s]) = Len(queue[s]) + 1 /\ queue'[s][Len(queue[s]) + 1] = e
                /\ \A i \in 1..Len(queue[s]) : queue'[s][i] = queue[s][i]
                /\ Range(queue'[s]) = Range(queue[s]) \union {e}
    BY <1>4, AppendAddsToRange DEF Publish
<1>6. queue' \in [Subscriptions -> Seq(Events)]
    BY <1>4 DEF Publish
<1>7. ASSUME NEW s \in Subscriptions
      PROVE  /\ Len(queue[s]) \in Nat /\ DOMAIN queue[s] = 1..Len(queue[s])
             /\ DOMAIN queue'[s] = 1..Len(queue'[s])
             /\ \A i \in 1..Len(queue[s]) : queue[s][i] \in Range(queue[s])
             /\ Range(queue[s]) \subseteq Range(log)
    BY <1>4, <1>6, SeqRange DEF IInv, QueuesFit
<1>8. TypeOK'
    <2>1. 0..n \subseteq 0..(n + 1)
        BY <1>1
    <2>2. Stats \subseteq Stats'
        BY <2>1, <1>2 DEF Stats, n
    <2> QED
        BY <1>1, <1>2, <1>6, <2>2 DEF IInv, TypeOK
<1>9. LogFits'
    BY <1>2, <1>3 DEF IInv, LogFits
<1>10. QueuesFit'
    <2>1. ASSUME NEW s \in Subscriptions
          PROVE  boundAt[s] <= n + 1
        <3>1. boundAt[s] <= n /\ boundAt[s] \in Int
            BY DEF IInv, TypeOK, QueuesFit, n, Unbound
        <3> QED
            BY <3>1, <1>1
    <2>2. ASSUME NEW s \in Subscriptions, NEW x \in Range(queue'[s])
          PROVE  x \in Range(log') /\ outcome[s][x] = "none" /\ Key[x] = Binding[s]
        <3>1. outcome[s][e] = "none"
            BY <1>1 DEF IInv, QueuesFit
        <3>2. CASE x \in Range(queue[s])
            BY <1>2, <3>2 DEF IInv, QueuesFit
        <3>3. CASE x \notin Range(queue[s])
            <4>1. x = e /\ Matches(s, e)
                BY <1>5, <2>2, <3>3
            <4> QED
                BY <1>2, <3>1, <4>1 DEF Matches
        <3> QED
            BY <3>2, <3>3
    <2>3. ASSUME NEW s \in Subscriptions, NEW i \in DOMAIN queue'[s],
                 NEW j \in DOMAIN queue'[s], NEW a \in DOMAIN log', NEW b \in DOMAIN log',
                 i < j, log'[a] = queue'[s][i], log'[b] = queue'[s][j]
          PROVE  a < b
        <3>1. ASSUME i \in 1..Len(queue[s]), queue'[s][i] = queue[s][i]
              PROVE  a \in 1..n /\ log[a] = queue[s][i]
            BY <1>1, <1>2, <1>3, <1>7, <2>3, <3>1
        <3>2. ASSUME j \in 1..Len(queue[s]), queue'[s][j] = queue[s][j]
              PROVE  b \in 1..n /\ log[b] = queue[s][j]
            BY <1>1, <1>2, <1>3, <1>7, <2>3, <3>2
        <3>3. CASE j \in 1..Len(queue[s])
            <4>1. i \in 1..Len(queue[s])
                BY <1>7, <2>3, <3>3
            <4>2. queue'[s][i] = queue[s][i] /\ queue'[s][j] = queue[s][j]
                BY <1>5, <3>3, <4>1
            <4> QED
                BY <1>2, <1>7, <2>3, <3>1, <3>2, <3>3, <4>1, <4>2 DEF IInv, QueuesFit
        <3>4. CASE j \notin 1..Len(queue[s])
            <4>1. /\ queue'[s][Len(queue[s]) + 1] = e /\ Len(queue'[s]) = Len(queue[s]) + 1
                  /\ \A k \in 1..Len(queue[s]) : queue'[s][k] = queue[s][k]
                BY <1>5, <1>7, <3>4
            <4>2. j = Len(queue[s]) + 1 /\ i \in 1..Len(queue[s])
                BY <1>7, <2>3, <3>4, <4>1
            <4>3. b = n + 1
                BY <1>2, <1>3, <2>3, <4>1, <4>2
            <4>4. a \in 1..n
                BY <3>1, <4>1, <4>2
            <4> QED
                BY <1>1, <4>3, <4>4
        <3> QED
            BY <3>3, <3>4
    <2>4. ASSUME NEW s \in Subscriptions, head[s] # "idle"
          PROVE  queue'[s] # <<>>
        <3>1. queue[s] # <<>>
            BY <2>4 DEF IInv, QueuesFit
        <3>2. Len(queue[s]) # 0
            BY <3>1, <1>4
        <3>3. Len(queue'[s]) # 0
            BY <3>2, <1>5, <1>7
        <3>4. Len(<<>>) = 0
            OBVIOUS
        <3> QED
            BY <3>3, <3>4, Zenon
    <2>5. \A s \in Subscriptions : \A x \in Events : outcome[s][x] # "none" =>
            x \in Range(log') /\ Key[x] = Binding[s]
        BY <1>2 DEF IInv, QueuesFit
    <2> QED
        BY <1>1, <1>2, <2>1, <2>2, <2>3, <2>4, <2>5 DEF QueuesFit
<1>11. ASSUME NEW s \in Subscriptions
       PROVE  /\ AckedBy(s)' = AckedBy(s) /\ SettledBy(s)' = SettledBy(s)
              /\ Handled(s)' = Handled(s)
    <2>1. queue[s] # <<>> => Head(queue'[s]) = Head(queue[s])
        <3> SUFFICES ASSUME queue[s] # <<>> PROVE Head(queue'[s]) = Head(queue[s])
            OBVIOUS
        <3>1. queue[s] \in Seq(Events) /\ queue'[s] \in Seq(Events)
            BY <1>4, <1>6
        <3> QED
            BY <3>1, <1>5
    <2> QED
        BY <1>1, <2>1, HandledStays DEF IInv, AckedBy, SettledBy
<1>12. EffectsFit'
    BY <1>1, <1>11, EffectsStay DEF IInv
<1>13. CountsFit'
    <2>1. Owed' = Owed /\ faults \in Nat /\ Owed \in Nat
        BY <1>1, EventAssumption DEF Owed, IInv, TypeOK
    <2>2. Owed' + faults <= Owed + faults'
        BY <1>1, <2>1
    <2>3. SettledBy(Analytics) \union Handled(Analytics)
            \subseteq SettledBy(Analytics)' \union Handled(Analytics)'
        BY <1>11, EventAssumption
    <2> QED
        BY <1>1, <1>8, <1>10, <2>2, <2>3, CountsUntouched DEF IInv
<1>14. TimesFit'
    <2> SUFFICES ASSUME NEW i \in DOMAIN log', log'[i] \in Range(queue'[Analytics])
                 PROVE  stats[File[log'[i]]].last <= i
        BY <1>1 DEF TimesFit
    <2>1. CASE i \in 1..n
        <3>1. log'[i] = log[i] /\ log[i] # e
            BY <1>2, <2>1
        <3>2. log[i] \in Range(queue[Analytics])
            BY <1>5, <3>1, EventAssumption
        <3> QED
            BY <1>2, <2>1, <3>1, <3>2 DEF IInv, TimesFit
    <2>2. CASE i = n + 1
        <3>1. log'[i] \in Events
            BY <1>2, <2>2
        <3>2. stats[File[log'[i]]].last \in 0..n
            BY <3>1, EventType DEF IInv, TypeOK, Stats, n
        <3> QED
            BY <2>2, <3>2, <1>1
    <2> QED
        BY <1>2, <1>3, <2>1, <2>2
<1>15. MissedOnlyIfUnbound'
    <2> SUFFICES ASSUME NEW s \in Subscriptions, NEW i \in DOMAIN log',
                        Binding[s] = Key[log'[i]], boundAt[s] # Unbound, ~ (i <= boundAt[s]),
                        log'[i] \notin Range(queue'[s])
                 PROVE  outcome[s][log'[i]] # "none"
        BY <1>1 DEF MissedOnlyIfUnbound
    <2>1. CASE i \in 1..n
        <3>1. log'[i] = log[i] /\ log[i] \notin Range(queue[s])
            BY <1>2, <1>5, <2>1
        <3> QED
            BY <1>2, <2>1, <3>1 DEF IInv, MissedOnlyIfUnbound
    <2>2. CASE i = n + 1
        <3>1. Matches(s, e)
            BY <1>2, <2>2 DEF Matches
        <3> QED
            BY <1>2, <1>5, <2>2, <3>1
    <2> QED
        BY <1>2, <1>3, <2>1, <2>2
<1> QED
    BY <1>8, <1>9, <1>10, <1>12, <1>13, <1>14, <1>15 DEF IInv

\* The steps that leave the messages and their effects alone: a process subscribes, gets
\* a message, fails to handle it, ends or loses its connection.
LEMMA QuietStep ==
    ASSUME IInv, UNCHANGED <<log, queue, outcome, stats, rows>>,
           sub' \in [Subscriptions -> {"off", "on", "deaf"}],
           head' \in [Subscriptions -> {"idle", "handling", "handled", "failed"}],
           boundAt' \in [Subscriptions -> Nat \union {Unbound}],
           faults' \in 0..MaxFaults,
           \A s \in Subscriptions :
               \/ boundAt'[s] = boundAt[s]
               \/ boundAt[s] = Unbound /\ boundAt'[s] = Len(log),
           \A s \in Subscriptions : head'[s] # "idle" => queue[s] # <<>>,
           \A s \in Subscriptions : head'[s] = "handled" => head[s] = "handled",
           Owed' + faults <= Owed + faults',
           head[Analytics] = "handled" /\ head'[Analytics] # "handled" =>
               Owed' + faults + 1 <= Owed + faults'
    PROVE  IInv'
<1>1. log \in Seq(Events) /\ Len(log) \in Nat
    BY SeqRange DEF IInv, TypeOK
<1>2. TypeOK'
    BY DEF IInv, TypeOK, Stats
<1>3. LogFits'
    BY DEF IInv, LogFits
<1>4. QueuesFit'
    <2>1. \A s \in Subscriptions : boundAt'[s] <= Len(log)
        BY <1>1 DEF IInv, QueuesFit
    <2> QED
        BY <2>1 DEF IInv, QueuesFit
<1>5. \A s : AckedBy(s)' = AckedBy(s) /\ SettledBy(s)' = SettledBy(s)
    BY DEF AckedBy, SettledBy
<1>6. \A s \in Subscriptions : Handled(s)' \subseteq Handled(s)
    BY DEF Handled
<1>7. EffectsFit'
    BY <1>5, <1>6, EffectsStay DEF IInv
<1>8. CountsFit'
    <2> DEFINE lost == Handled(Analytics) \ Handled(Analytics)'
    <2>1. /\ lost \in SUBSET Handled(Analytics)
          /\ SettledBy(Analytics) \union Handled(Analytics)
                \subseteq SettledBy(Analytics)' \union Handled(Analytics)' \union lost
        BY <1>5
    <2>2. lost # {} => Owed' + faults + 1 <= Owed + faults'
        BY DEF Handled
    <2> HIDE DEF lost
    <2> QED
        BY <1>2, <1>4, <2>1, <2>2, CountsStay DEF IInv
<1>9. TimesFit'
    BY DEF IInv, TimesFit
<1>10. MissedOnlyIfUnbound'
    <2> SUFFICES ASSUME NEW s \in Subscriptions, NEW i \in DOMAIN log,
                        Binding[s] = Key[log[i]], boundAt'[s] # Unbound,
                        ~ (i <= boundAt'[s]), log[i] \notin Range(queue[s])
                 PROVE  outcome[s][log[i]] # "none"
        BY DEF MissedOnlyIfUnbound
    <2>1. i <= Len(log)
        BY <1>1, SeqRange
    <2>2. boundAt'[s] = boundAt[s]
        BY <2>1
    <2> QED
        BY <2>2 DEF IInv, MissedOnlyIfUnbound
<1> QED
    BY <1>2, <1>3, <1>4, <1>7, <1>8, <1>9, <1>10 DEF IInv

LEMMA OwedType ==
    ASSUME IInv
    PROVE  faults \in Nat /\ Owed \in Nat
BY EventAssumption DEF IInv, TypeOK, Owed

LEMMA SubscribeStep ==
    ASSUME IInv, NEW s \in Subscriptions, Subscribe(s)
    PROVE  IInv'
<1>1. /\ sub[s] = "off" /\ sub' = [sub EXCEPT ![s] = "on"]
      /\ boundAt' = [boundAt EXCEPT ![s] = IF @ = Unbound THEN Len(log) ELSE @]
      /\ UNCHANGED <<log, queue, outcome, head, stats, rows, faults>>
    BY DEF Subscribe
<1>2. Len(log) \in Nat
    BY SeqRange DEF IInv, TypeOK
<1>3. sub' \in [Subscriptions -> {"off", "on", "deaf"}]
    BY <1>1 DEF IInv, TypeOK
<1>4. boundAt' \in [Subscriptions -> Nat \union {Unbound}]
    BY <1>1, <1>2 DEF IInv, TypeOK
<1>5. \A q \in Subscriptions : \/ boundAt'[q] = boundAt[q]
                               \/ boundAt[q] = Unbound /\ boundAt'[q] = Len(log)
    BY <1>1 DEF IInv, TypeOK
<1>6. Owed' = Owed
    BY <1>1, EventAssumption DEF IInv, TypeOK, Owed
<1>7. Owed' + faults <= Owed + faults'
    BY <1>1, <1>6, OwedType
<1>8. /\ head' \in [Subscriptions -> {"idle", "handling", "handled", "failed"}]
      /\ faults' \in 0..MaxFaults
      /\ \A q \in Subscriptions : head'[q] # "idle" => queue[q] # <<>>
    BY <1>1 DEF IInv, TypeOK, QueuesFit
<1> QED
    BY <1>1, <1>3, <1>4, <1>5, <1>7, <1>8, QuietStep

LEMMA DeliverStep ==
    ASSUME IInv, NEW s \in Subscriptions, Deliver(s)
    PROVE  IInv'
<1>1. /\ head[s] = "idle" /\ queue[s] # <<>> /\ head' = [head EXCEPT ![s] = "handling"]
      /\ UNCHANGED <<log, boundAt, queue, outcome, sub, stats, rows, faults>>
    BY DEF Deliver, broker
<1>2. Owed' + faults <= Owed + faults'
    BY <1>1, OwedType DEF Owed
<1>3. /\ head' \in [Subscriptions -> {"idle", "handling", "handled", "failed"}]
      /\ \A q \in Subscriptions : head'[q] # "idle" => queue[q] # <<>>
      /\ \A q \in Subscriptions : head'[q] = "handled" <=> head[q] = "handled"
    BY <1>1 DEF IInv, TypeOK, QueuesFit
<1>4. /\ sub' \in [Subscriptions -> {"off", "on", "deaf"}]
      /\ boundAt' \in [Subscriptions -> Nat \union {Unbound}]
      /\ faults' \in 0..MaxFaults
    BY <1>1 DEF IInv, TypeOK
<1> QED
    BY <1>1, <1>2, <1>3, <1>4, EventAssumption, QuietStep

\* A statement that fails without an effect.
LEMMA NoEffectStep ==
    ASSUME IInv, NEW s \in Subscriptions, HandleFails(s), UNCHANGED <<stats, rows>>
    PROVE  IInv'
<1>1. /\ head[s] = "handling" /\ head' = [head EXCEPT ![s] = "failed"]
      /\ UNCHANGED <<log, boundAt, queue, outcome, sub>>
      /\ faults' \in 0..MaxFaults /\ faults' = faults + 1
    BY FaultIsCounted DEF HandleFails, broker, IInv
<1>2. Owed' + faults <= Owed + faults'
    BY <1>1, OwedType DEF Owed
<1>3. /\ head' \in [Subscriptions -> {"idle", "handling", "handled", "failed"}]
      /\ \A q \in Subscriptions : head'[q] # "idle" => queue[q] # <<>>
      /\ \A q \in Subscriptions : head'[q] = "handled" <=> head[q] = "handled"
    BY <1>1 DEF IInv, TypeOK, QueuesFit
<1>4. /\ sub' \in [Subscriptions -> {"off", "on", "deaf"}]
      /\ boundAt' \in [Subscriptions -> Nat \union {Unbound}]
    BY <1>1 DEF IInv, TypeOK
<1> QED
    BY <1>1, <1>2, <1>3, <1>4, EventAssumption, QuietStep

\* A process ends: with a fault, or because its connection had closed, which was one.
LEMMA EndStep ==
    ASSUME IInv, NEW p \in Processes, EndProcess(p), UNCHANGED <<log, broker, stats, rows>>,
           \/ Fault
           \/ UNCHANGED faults /\ \E s \in SubsOf(p) : sub[s] = "deaf"
    PROVE  IInv'
<1>1. /\ sub' = [s \in Subscriptions |-> IF Process[s] = p THEN "off" ELSE sub[s]]
      /\ head' = [s \in Subscriptions |-> IF Process[s] = p THEN "idle" ELSE head[s]]
    BY DEF EndProcess, SubsOf
<1>2. UNCHANGED <<log, boundAt, queue, outcome, stats, rows>>
    BY DEF broker
<1>3. /\ sub \in [Subscriptions -> {"off", "on", "deaf"}]
      /\ head \in [Subscriptions -> {"idle", "handling", "handled", "failed"}]
    BY DEF IInv, TypeOK
<1>4. /\ sub' \in [Subscriptions -> {"off", "on", "deaf"}]
      /\ head' \in [Subscriptions -> {"idle", "handling", "handled", "failed"}]
      /\ boundAt' \in [Subscriptions -> Nat \union {Unbound}]
      /\ faults' \in 0..MaxFaults
    BY <1>1, <1>2, <1>3, FaultIsCounted DEF IInv, TypeOK
<1>5. /\ \A s \in Subscriptions : head'[s] # "idle" => queue[s] # <<>>
      /\ \A s \in Subscriptions : head'[s] = "handled" => head[s] = "handled"
    BY <1>1, <1>3 DEF IInv, QueuesFit
<1>6. CASE p = Process[Analytics]
    <2>1. Owed' = 0
        BY <1>1, <1>6, EventAssumption DEF Owed
    <2>2. faults' = faults + 1 \/ (faults' = faults /\ Owed = 1)
        BY <1>6, EventAssumption, FaultIsCounted DEF IInv, SubsOf, Owed
    <2>3. Owed' + faults + 1 <= Owed + faults' /\ Owed' + faults <= Owed + faults'
        BY <2>1, <2>2, OwedType
    <2> QED
        BY <1>2, <1>4, <1>5, <2>3, QuietStep
<1>7. CASE p # Process[Analytics]
    <2>1. Owed' = Owed /\ head'[Analytics] = head[Analytics]
        BY <1>1, <1>7, EventAssumption DEF Owed
    <2>2. faults' = faults + 1 \/ faults' = faults
        BY FaultIsCounted DEF IInv
    <2>3. Owed' + faults <= Owed + faults'
        BY <2>1, <2>2, OwedType
    <2> QED
        BY <1>2, <1>4, <1>5, <2>1, <2>3, QuietStep
<1> QED
    BY <1>6, <1>7

LEMMA ConnectionClosesStep ==
    ASSUME IInv, NEW p \in Processes, ConnectionCloses(p)
    PROVE  IInv'
<1>1. /\ \A s \in SubsOf(p) : sub[s] = "on"
      /\ sub' = [s \in Subscriptions |-> IF s \in SubsOf(p) THEN "deaf" ELSE sub[s]]
      /\ UNCHANGED <<log, boundAt, queue, outcome, head, stats, rows>>
      /\ faults' \in 0..MaxFaults /\ faults' = faults + 1
    BY FaultIsCounted DEF ConnectionCloses, broker, IInv
<1>2. Owed' + faults <= Owed + faults'
    <2>1. Owed' \in Nat /\ Owed' <= 1 /\ Owed \in Nat /\ (Owed = 0 \/ Owed = Owed')
        BY <1>1, EventAssumption DEF Owed, SubsOf
    <2> QED
        BY <1>1, <2>1, OwedType
<1>3. /\ sub' \in [Subscriptions -> {"off", "on", "deaf"}]
      /\ head' \in [Subscriptions -> {"idle", "handling", "handled", "failed"}]
      /\ boundAt' \in [Subscriptions -> Nat \union {Unbound}]
      /\ \A s \in Subscriptions : head'[s] # "idle" => queue[s] # <<>>
    BY <1>1 DEF IInv, TypeOK, QueuesFit
<1> QED
    BY <1>1, <1>2, <1>3, QuietStep

\* The message at the head of a queue that is not empty.
LEMMA HeadMessage ==
    ASSUME TypeOK, LogFits, QueuesFit, NEW s \in Subscriptions, queue[s] # <<>>
    PROVE  /\ Head(queue[s]) \in Events /\ Head(queue[s]) \in Range(queue[s])
           /\ Head(queue[s]) \in Range(log) /\ outcome[s][Head(queue[s])] = "none"
           /\ AccessedAt(Head(queue[s])) \in 1..Len(log)
           /\ \A i \in DOMAIN log :
                log[i] \in Range(queue[s]) => AccessedAt(Head(queue[s])) <= i
<1> DEFINE q == queue[s]
           e == Head(queue[s])
           a == AccessedAt(Head(queue[s]))
<1>1. q \in Seq(Events) /\ log \in Seq(Events)
    BY DEF TypeOK
<1>2. /\ e \in Range(q) /\ e = q[1] /\ 1 \in DOMAIN q /\ DOMAIN q = 1..Len(q)
      /\ Len(q) \in Nat /\ Range(q) \subseteq Events
    BY <1>1, TailLeavesRange, SeqRange
<1>3. e \in Range(log) /\ outcome[s][e] = "none"
    BY <1>2 DEF QueuesFit
<1>4. a \in 1..Len(log) /\ log[a] = e /\ DOMAIN log = 1..Len(log) /\ Len(log) \in Nat
    BY <1>1, <1>3, PlaceType, SeqRange
<1>5. ASSUME NEW i \in DOMAIN log, log[i] \in Range(q)
      PROVE  a <= i
    <2>1. PICK j \in DOMAIN q : q[j] = log[i]
        BY <1>1, <1>5, SeqRange
    <2>2. CASE j = 1
        <3>1. a = i
            BY <1>2, <2>1, <2>2, PlaceInLog
        <3> QED
            BY <3>1, <1>4
    <2>3. CASE j # 1
        <3>1. 1 < j
            BY <1>2, <2>1, <2>3
        <3>2. a < i
            BY <1>2, <1>4, <2>1, <3>1 DEF QueuesFit
        <3> QED
            BY <3>2, <1>4
    <2> QED
        BY <2>2, <2>3
<1> QED
    BY <1>2, <1>3, <1>4, <1>5

\* ai-analytics-service counts the access: with an answer, or without.
LEMMA RecordStep ==
    ASSUME IInv, head[Analytics] = "handling", RecordAccess(Head(queue[Analytics])),
           NEW h \in {"handled", "failed"}, head' = [head EXCEPT ![Analytics] = h],
           UNCHANGED <<log, boundAt, queue, outcome, sub, rows>>,
           (h = "handled" /\ UNCHANGED faults) \/ (h = "failed" /\ Fault)
    PROVE  IInv'
<1> DEFINE e == Head(queue[Analytics])
           g == File[e]
<1>1. /\ Analytics \in Subscriptions /\ queue[Analytics] # <<>>
      /\ queue[Analytics] \in Seq(Events)
    BY EventAssumption DEF IInv, TypeOK, QueuesFit
<1>2. /\ e \in Events /\ e \in Range(queue[Analytics]) /\ outcome[Analytics][e] = "none"
      /\ AccessedAt(e) \in 1..Len(log) /\ g \in Files
      /\ \A i \in DOMAIN log : log[i] \in Range(queue[Analytics]) => AccessedAt(e) <= i
    BY <1>1, HeadMessage, EventType DEF IInv
<1>3. Len(log) \in Nat
    BY SeqRange DEF IInv, TypeOK
<1>4. stats' = [stats EXCEPT ![g] =
                  [count |-> stats[g].count + 1,
                   first |-> IF stats[g].count = 0 THEN AccessedAt(e) ELSE stats[g].first,
                   last |-> AccessedAt(e)]]
    BY DEF RecordAccess
<1>5. /\ e = Head(queue'[Analytics]) /\ head'[Analytics] = h
      /\ \A s \in Subscriptions : s # Analytics => head'[s] = head[s]
    BY <1>1 DEF IInv, TypeOK
<1> HIDE DEF e
<1>6. stats[g].count \in Nat /\ stats[g].first \in 0..Len(log)
    BY <1>2 DEF IInv, TypeOK, Stats
<1>7. /\ stats' \in [Files -> Stats]
      /\ stats'[g].count = stats[g].count + 1 /\ stats'[g].last = AccessedAt(e)
      /\ \A f \in Files : f # g => stats'[f] = stats[f]
    <2>1. AccessedAt(e) \in 0..Len(log)
        BY <1>2, <1>3
    <2> QED
        BY <1>2, <1>4, <1>6, <2>1, SMTT(30) DEF IInv, TypeOK, Stats
<1>8. /\ faults' \in 0..MaxFaults /\ faults \in Nat /\ Owed \in Nat /\ Owed' = Owed
      /\ (h = "handled" /\ faults' = faults) \/ (h = "failed" /\ faults' = faults + 1)
    BY FaultIsCounted, OwedType DEF IInv, TypeOK, Owed
<1>9. TypeOK'
    BY <1>7, <1>8 DEF IInv, TypeOK, Stats
<1>10. LogFits'
    BY DEF IInv, LogFits
<1>11. QueuesFit'
    BY <1>1, <1>5 DEF IInv, QueuesFit
<1>12. /\ \A s : AckedBy(s)' = AckedBy(s) /\ SettledBy(s)' = SettledBy(s)
       /\ Handled(Analytics) = {} /\ e \notin SettledBy(Analytics)
       /\ Handled(Analytics)' = IF h = "handled" THEN {e} ELSE {}
       /\ \A s \in Subscriptions : s # Analytics => Handled(s)' = Handled(s)
    BY <1>2, <1>5 DEF AckedBy, SettledBy, Handled
<1>13. EffectsFit'
    <2>1. ASSUME NEW f \in Files
          PROVE  stats'[f].count >=
                    Cardinality({x \in AckedBy(Analytics)' \union Handled(Analytics)' :
                                 File[x] = f})
        <3> DEFINE S == {x \in AckedBy(Analytics) \union Handled(Analytics) : File[x] = f}
                   T == {x \in AckedBy(Analytics)' \union Handled(Analytics)' : File[x] = f}
        <3>1. IsFiniteSet(S) /\ Cardinality(S) \in Nat
            BY <1>1, CountedAreFinite DEF IInv
        <3>2. stats[f].count >= Cardinality(S) /\ stats[f].count \in Nat
            BY DEF IInv, EffectsFit, TypeOK, Stats
        <3>3. T \subseteq S \union {e} /\ (f # g => T \subseteq S)
            BY <1>12
        <3> HIDE DEF S, T
        <3>4. CASE f = g
            <4>1. /\ IsFiniteSet(S \union {e})
                  /\ Cardinality(S \union {e}) \in {Cardinality(S), Cardinality(S) + 1}
                BY <3>1, FS_AddElement
            <4>2. Cardinality(T) <= Cardinality(S \union {e}) /\ Cardinality(T) \in Nat
                BY <3>3, <4>1, FS_Subset, FS_CardinalityType
            <4>3. stats'[f].count >= Cardinality(T)
                BY <1>7, <3>1, <3>2, <3>4, <4>1, <4>2
            <4> QED
                BY <4>3 DEF T
        <3>5. CASE f # g
            <4>1. Cardinality(T) <= Cardinality(S) /\ Cardinality(T) \in Nat
                BY <3>1, <3>3, <3>5, FS_Subset, FS_CardinalityType
            <4>2. stats'[f].count >= Cardinality(T)
                BY <1>7, <3>1, <3>2, <3>5, <4>1
            <4> QED
                BY <4>2 DEF T
        <3> QED
            BY <3>4, <3>5
    <2>2. \A s \in Subscriptions \ {Analytics} : \A x \in AckedBy(s)' \union Handled(s)' :
            rows'[x] > 0
        BY <1>12 DEF IInv, EffectsFit
    <2> QED
        BY <2>1, <2>2 DEF EffectsFit
<1>14. CountsFit'
    <2>1. ASSUME NEW f \in Files
          PROVE  stats'[f].count + Owed' <= faults' +
                    Cardinality({x \in SettledBy(Analytics)' \union Handled(Analytics)' :
                                 File[x] = f})
        <3> DEFINE S == {x \in SettledBy(Analytics) \union Handled(Analytics) : File[x] = f}
                   T == {x \in SettledBy(Analytics)' \union Handled(Analytics)' : File[x] = f}
        <3>1. IsFiniteSet(S) /\ Cardinality(S) \in Nat
            BY <1>1, CountedAreFinite DEF IInv
        <3>2. stats[f].count + Owed <= faults + Cardinality(S) /\ stats[f].count \in Nat
            BY DEF IInv, CountsFit, TypeOK, Stats
        <3>3. /\ f = g /\ h = "handled" => T = S \union {e} /\ e \notin S
              /\ f # g \/ h = "failed" => T = S
            BY <1>2, <1>12
        <3> HIDE DEF S, T
        <3>4. CASE f = g /\ h = "handled"
            <4>1. Cardinality(T) = Cardinality(S) + 1
                BY <3>1, <3>3, <3>4, FS_AddElement
            <4>2. stats'[f].count + Owed' <= faults' + Cardinality(T)
                BY <1>7, <1>8, <3>1, <3>2, <3>4, <4>1
            <4> QED
                BY <4>2 DEF T
        <3>5. CASE f = g /\ h = "failed"
            <4>1. stats'[f].count + Owed' <= faults' + Cardinality(T)
                BY <1>7, <1>8, <3>1, <3>2, <3>3, <3>5
            <4> QED
                BY <4>1 DEF T
        <3>6. CASE f # g
            <4>1. stats'[f].count + Owed' <= faults' + Cardinality(T)
                BY <1>7, <1>8, <3>1, <3>2, <3>3, <3>6
            <4> QED
                BY <4>1 DEF T
        <3> QED
            BY <3>4, <3>5, <3>6
    <2> QED
        BY <2>1 DEF CountsFit
<1>15. TimesFit'
    <2> SUFFICES ASSUME NEW i \in DOMAIN log, log[i] \in Range(queue[Analytics])
                 PROVE  stats'[File[log[i]]].last <= i
        BY DEF TimesFit
    <2>1. File[log[i]] \in Files
        <3>1. log[i] \in Events
            BY SeqRange DEF IInv, TypeOK
        <3> QED
            BY <3>1, EventType
    <2>2. CASE File[log[i]] = g
        BY <1>2, <1>7, <2>2
    <2>3. CASE File[log[i]] # g
        BY <1>7, <2>1, <2>3 DEF IInv, TimesFit
    <2> QED
        BY <2>2, <2>3
<1>16. MissedOnlyIfUnbound'
    BY DEF IInv, MissedOnlyIfUnbound
<1> QED
    BY <1>9, <1>10, <1>11, <1>13, <1>14, <1>15, <1>16 DEF IInv

\* notification-service creates a notification.
LEMMA NotifyStep ==
    ASSUME IInv, NEW s \in Subscriptions \ {Analytics}, head[s] = "handling",
           rows' = [rows EXCEPT ![Head(queue[s])] = @ + 1],
           NEW h \in {"handled", "failed"}, head' = [head EXCEPT ![s] = h],
           UNCHANGED <<log, boundAt, queue, outcome, sub, stats>>,
           (h = "handled" /\ UNCHANGED faults) \/ (h = "failed" /\ Fault)
    PROVE  IInv'
<1> DEFINE e == Head(queue[s])
<1>1. queue[s] # <<>> /\ e \in Events
    BY HeadMessage DEF IInv, QueuesFit
<1>2. /\ e = Head(queue'[s]) /\ head'[s] = h
      /\ \A q \in Subscriptions : q # s => head'[q] = head[q]
      /\ head'[Analytics] = head[Analytics]
    BY EventAssumption DEF IInv, TypeOK
<1>3. rows' = [rows EXCEPT ![e] = rows[e] + 1] /\ rows \in [Events -> Nat]
    BY DEF IInv, TypeOK
<1> HIDE DEF e
<1>4. /\ rows' \in [Events -> Nat] /\ rows'[e] > 0
      /\ \A x \in Events : rows[x] > 0 => rows'[x] > 0
    BY <1>1, <1>3
<1>5. /\ faults' \in 0..MaxFaults /\ Owed' + faults <= Owed + faults'
    <2>1. /\ faults' \in 0..MaxFaults /\ (faults' = faults \/ faults' = faults + 1)
          /\ Owed' = Owed /\ faults \in Nat /\ Owed \in Nat
        BY FaultIsCounted, OwedType DEF IInv, TypeOK, Owed
    <2>2. \A n, o \in Nat : o + n <= o + n /\ o + n <= o + (n + 1)
        OBVIOUS
    <2>3. CASE faults' = faults
        BY <2>1, <2>2, <2>3, Zenon
    <2>4. CASE faults' = faults + 1
        BY <2>1, <2>2, <2>4, Zenon
    <2> QED
        BY <2>1, <2>3, <2>4
<1>6. TypeOK'
    BY <1>4, <1>5 DEF IInv, TypeOK, Stats
<1>7. LogFits' /\ TimesFit' /\ MissedOnlyIfUnbound'
    BY DEF IInv, LogFits, TimesFit, MissedOnlyIfUnbound
<1>8. QueuesFit'
    BY <1>1, <1>2 DEF IInv, QueuesFit
<1>9. /\ \A q : AckedBy(q)' = AckedBy(q) /\ SettledBy(q)' = SettledBy(q)
      /\ Handled(Analytics)' = Handled(Analytics) /\ Handled(s)' \subseteq {e}
      /\ \A q \in Subscriptions : q # s => Handled(q)' = Handled(q)
    BY <1>2 DEF AckedBy, SettledBy, Handled
<1>10. EffectsFit'
    <2>1. ASSUME NEW q \in Subscriptions \ {Analytics},
                 NEW x \in AckedBy(q)' \union Handled(q)'
          PROVE  rows'[x] > 0
        <3>1. x \in AckedBy(q) \union Handled(q) => x \in Events /\ rows[x] > 0
            <4>1. head[q] = "handled" => Head(queue[q]) \in Events
                BY HeadMessage DEF IInv, QueuesFit
            <4> QED
                BY <4>1 DEF AckedBy, Handled, IInv, EffectsFit
        <3> QED
            BY <1>4, <1>9, <2>1, <3>1
    <2>2. \A f \in Files : stats'[f].count >=
            Cardinality({x \in AckedBy(Analytics)' \union Handled(Analytics)' : File[x] = f})
        BY <1>9 DEF IInv, EffectsFit
    <2> QED
        BY <2>1, <2>2 DEF EffectsFit
<1>11. CountsFit'
    BY <1>5, <1>6, <1>8, <1>9, CountsUntouched DEF IInv
<1> QED
    BY <1>6, <1>7, <1>8, <1>10, <1>11 DEF IInv

LEMMA HandleStep ==
    ASSUME IInv, NEW s \in Subscriptions, Handle(s) \/ HandleFails(s)
    PROVE  IInv'
<1>1. CASE HandleFails(s) /\ UNCHANGED <<stats, rows>>
    BY <1>1, NoEffectStep
<1>2. CASE Handle(s) \/ (HandleFails(s) /\ Effect(s))
    <2>1. PICK h \in {"handled", "failed"} :
            /\ head' = [head EXCEPT ![s] = h]
            /\ (h = "handled" /\ UNCHANGED faults) \/ (h = "failed" /\ Fault)
        BY <1>2 DEF Handle, HandleFails
    <2>2. /\ head[s] = "handling" /\ Effect(s)
          /\ UNCHANGED <<log, boundAt, queue, outcome, sub>>
        BY <1>2 DEF Handle, HandleFails, broker
    <2>3. CASE s = Analytics
        BY <2>1, <2>2, <2>3, RecordStep DEF Effect
    <2>4. CASE s # Analytics
        BY <2>1, <2>2, <2>4, NotifyStep DEF Effect
    <2> QED
        BY <2>3, <2>4
<1> QED
    BY <1>1, <1>2 DEF HandleFails

\* A message is acknowledged after its handler has ended, or rejected after it failed.
LEMMA SettleStep ==
    ASSUME IInv, NEW s \in Subscriptions, Ack(s) \/ Nack(s)
    PROVE  IInv'
<1> DEFINE q == queue[s]
           e == Head(q)
<1>1. PICK how \in {"acked", "dropped"} :
        /\ Settle(s, how)
        /\ how = "acked" <=> head[s] = "handled"
        /\ head[s] \in {"handled", "failed"}
    BY DEF Ack, Nack
<1>2. UNCHANGED <<log, boundAt, sub, stats, rows, faults>>
    BY DEF Ack, Nack
<1>3. q \in Seq(Events) /\ q # <<>>
    BY <1>1 DEF IInv, TypeOK, QueuesFit
<1>4. /\ e \in Events /\ e \in Range(q) /\ e \in Range(log) /\ Key[e] = Binding[s]
      /\ outcome[s][e] = "none"
    BY <1>3, HeadMessage DEF IInv, QueuesFit
<1>5. /\ Tail(q) \in Seq(Events) /\ Range(q) = Range(Tail(q)) \union {e}
      /\ e = q[1] /\ 1 \in DOMAIN q
      /\ \A i \in DOMAIN Tail(q) : i + 1 \in DOMAIN q /\ Tail(q)[i] = q[i + 1]
      /\ DOMAIN Tail(q) \subseteq Nat /\ DOMAIN q \subseteq Nat
      /\ \A i \in DOMAIN Tail(q) : i > 0
    <2>1. Tail(q) \in Seq(Events)
        BY <1>3, TailLeavesRange
    <2>2. DOMAIN Tail(q) = 1..Len(Tail(q)) /\ DOMAIN q = 1..Len(q)
        BY <1>3, <2>1, SeqRange
    <2> QED
        BY <1>3, <2>1, <2>2, TailLeavesRange
<1>6. \A x \in Range(Tail(q)) : x # e
    <2> SUFFICES ASSUME NEW x \in Range(Tail(q)) PROVE x # e
        OBVIOUS
    <2>1. PICK i \in DOMAIN Tail(q) : Tail(q)[i] = x
        BY <1>5, SeqRange
    <2>2. PICK a \in DOMAIN log : log[a] = e
        BY <1>4, SeqRange DEF IInv, TypeOK
    <2>3. i + 1 \in DOMAIN q /\ 1 \in DOMAIN q /\ 1 < i + 1 /\ q[i + 1] = x
        BY <1>5, <2>1
    <2>4. ASSUME x = e PROVE FALSE
        <3>1. log[a] = q[1] /\ log[a] = q[i + 1]
            BY <1>5, <2>2, <2>3, <2>4
        <3>2. \A j, k \in DOMAIN q : \A b, c \in DOMAIN log :
                j < k /\ log[b] = q[j] /\ log[c] = q[k] => b < c
            BY DEF IInv, QueuesFit
        <3>3. a < a
            BY <2>3, <3>1, <3>2
        <3>4. a \in Int
            BY SeqRange DEF IInv, TypeOK
        <3> QED
            BY <3>3, <3>4
    <2> QED
        BY <2>4
<1>7. /\ queue' = [queue EXCEPT ![s] = Tail(q)]
      /\ outcome' = [outcome EXCEPT ![s][e] = how]
      /\ head' = [head EXCEPT ![s] = "idle"]
    BY <1>1 DEF Settle
<1>8. /\ queue' \in [Subscriptions -> Seq(Events)] /\ queue'[s] = Tail(q)
      /\ \A t \in Subscriptions : t # s => queue'[t] = queue[t]
    BY <1>5, <1>7 DEF IInv, TypeOK
<1>9. /\ outcome' \in [Subscriptions -> [Events -> {"none", "acked", "dropped"}]]
      /\ outcome'[s][e] = how
      /\ \A x \in Events : x # e => outcome'[s][x] = outcome[s][x]
      /\ \A t \in Subscriptions : t # s => outcome'[t] = outcome[t]
    BY <1>4, <1>7 DEF IInv, TypeOK
<1>10. /\ head' \in [Subscriptions -> {"idle", "handling", "handled", "failed"}]
       /\ head'[s] = "idle"
       /\ \A t \in Subscriptions : t # s => head'[t] = head[t]
    BY <1>7 DEF IInv, TypeOK
<1> HIDE DEF e
<1>11. TypeOK'
    BY <1>2, <1>8, <1>9, <1>10 DEF IInv, TypeOK, Stats
<1>12. LogFits'
    BY <1>2 DEF IInv, LogFits
<1>13. QueuesFit'
    <2>1. ASSUME NEW t \in Subscriptions, NEW x \in Range(queue'[t])
          PROVE  x \in Range(log) /\ outcome'[t][x] = "none" /\ Key[x] = Binding[t]
        <3>1. CASE t # s
            <4>1. x \in Range(queue[t]) /\ outcome'[t] = outcome[t]
                BY <1>8, <1>9, <2>1, <3>1
            <4> QED
                BY <4>1 DEF IInv, QueuesFit
        <3>2. CASE t = s
            <4>1. x \in Range(q) /\ x # e
                BY <1>5, <1>6, <1>8, <2>1, <3>2
            <4>2. x \in Events
                BY <1>3, <4>1, SeqRange
            <4> QED
                BY <1>9, <3>2, <4>1, <4>2 DEF IInv, QueuesFit
        <3> QED
            BY <3>1, <3>2
    <2>2. ASSUME NEW i \in DOMAIN Tail(q), NEW j \in DOMAIN Tail(q),
                 NEW a \in DOMAIN log, NEW b \in DOMAIN log,
                 i < j, log[a] = Tail(q)[i], log[b] = Tail(q)[j]
          PROVE  a < b
        <3>1. i + 1 \in DOMAIN q /\ j + 1 \in DOMAIN q /\ i + 1 < j + 1
            BY <1>5, <2>2
        <3>2. log[a] = q[i + 1] /\ log[b] = q[j + 1]
            BY <1>5, <2>2
        <3> QED
            BY <3>1, <3>2 DEF IInv, QueuesFit
    <2>3. \A t \in Subscriptions : \A x \in Events : outcome'[t][x] # "none" =>
            x \in Range(log) /\ Key[x] = Binding[t]
        BY <1>4, <1>9 DEF IInv, QueuesFit
    <2>4. \A t \in Subscriptions : boundAt[t] <= Len(log)
        BY DEF IInv, QueuesFit
    <2>5. ASSUME NEW t \in Subscriptions, NEW i \in DOMAIN queue'[t],
                 NEW j \in DOMAIN queue'[t], NEW a \in DOMAIN log, NEW b \in DOMAIN log,
                 i < j, log[a] = queue'[t][i], log[b] = queue'[t][j]
          PROVE  a < b
        <3>1. CASE t = s
            BY <1>8, <2>2, <2>5, <3>1
        <3>2. CASE t # s
            <4>1. queue'[t] = queue[t]
                BY <1>8, <3>2
            <4> QED
                BY <2>5, <4>1 DEF IInv, QueuesFit
        <3> QED
            BY <3>1, <3>2
    <2>6. \A t \in Subscriptions : head'[t] # "idle" => queue'[t] # <<>>
        BY <1>8, <1>10 DEF IInv, QueuesFit
    <2> QED
        BY <1>2, <2>1, <2>3, <2>4, <2>5, <2>6 DEF QueuesFit
<1>14. /\ Handled(s)' = {} /\ Handled(s) = IF how = "acked" THEN {e} ELSE {}
       /\ AckedBy(s)' = AckedBy(s) \union (IF how = "acked" THEN {e} ELSE {})
       /\ SettledBy(s)' = SettledBy(s) \union {e}
       /\ \A t \in Subscriptions : t # s =>
            /\ Handled(t)' = Handled(t) /\ AckedBy(t)' = AckedBy(t)
            /\ SettledBy(t)' = SettledBy(t)
    <2>1. Handled(s)' = {} /\ Handled(s) = IF how = "acked" THEN {e} ELSE {}
        BY <1>1, <1>10 DEF Handled, e
    <2>2. /\ AckedBy(s)' = AckedBy(s) \union (IF how = "acked" THEN {e} ELSE {})
          /\ SettledBy(s)' = SettledBy(s) \union {e}
        BY <1>4, <1>9 DEF AckedBy, SettledBy
    <2>3. \A t \in Subscriptions : t # s =>
            /\ Handled(t)' = Handled(t) /\ AckedBy(t)' = AckedBy(t)
            /\ SettledBy(t)' = SettledBy(t)
        <3> SUFFICES ASSUME NEW t \in Subscriptions, t # s
            PROVE  /\ Handled(t)' = Handled(t) /\ AckedBy(t)' = AckedBy(t)
                   /\ SettledBy(t)' = SettledBy(t)
            OBVIOUS
        <3>1. queue'[t] = queue[t] /\ outcome'[t] = outcome[t] /\ head'[t] = head[t]
            BY <1>8, <1>9, <1>10
        <3> QED
            BY <3>1 DEF Handled, AckedBy, SettledBy
    <2> QED
        BY <2>1, <2>2, <2>3
<1>15. EffectsFit'
    <2>1. \A t \in Subscriptions :
            AckedBy(t)' \union Handled(t)' \subseteq AckedBy(t) \union Handled(t)
        BY <1>14
    <2> QED
        BY <1>2, <2>1, EffectsStay DEF IInv
<1>16. CountsFit'
    <2>1. SettledBy(Analytics) \union Handled(Analytics)
            \subseteq SettledBy(Analytics)' \union Handled(Analytics)'
        BY <1>14, EventAssumption
    <2>2. Owed' + faults <= Owed + faults'
        BY <1>2, OwedType DEF Owed
    <2> QED
        BY <1>2, <1>11, <1>13, <2>1, <2>2, CountsUntouched DEF IInv
<1>17. TimesFit'
    <2>1. Range(queue'[Analytics]) \subseteq Range(queue[Analytics])
        BY <1>5, <1>8, EventAssumption
    <2> QED
        BY <1>2, <2>1 DEF IInv, TimesFit
<1>18. MissedOnlyIfUnbound'
    <2> SUFFICES ASSUME NEW t \in Subscriptions, NEW i \in DOMAIN log,
                        Binding[t] = Key[log[i]], boundAt[t] # Unbound, ~ (i <= boundAt[t]),
                        log[i] \notin Range(queue'[t])
                 PROVE  outcome'[t][log[i]] # "none"
        BY <1>2 DEF MissedOnlyIfUnbound
    <2>1. log[i] \in Events
        BY SeqRange DEF IInv, TypeOK
    <2>2. log[i] \in Range(queue[t]) \/ outcome[t][log[i]] # "none"
        BY DEF IInv, MissedOnlyIfUnbound
    <2>3. CASE t = s /\ log[i] = e
        BY <1>9, <2>3
    <2>4. CASE t = s /\ log[i] # e
        BY <1>5, <1>8, <1>9, <2>1, <2>2, <2>4
    <2>5. CASE t # s
        BY <1>8, <1>9, <2>2, <2>5
    <2> QED
        BY <2>3, <2>4, <2>5
<1> QED
    BY <1>11, <1>12, <1>13, <1>15, <1>16, <1>17, <1>18 DEF IInv

LEMMA InitHolds == Init => IInv
<1> SUFFICES ASSUME Init PROVE IInv
    OBVIOUS
<1>1. /\ Len(log) = 0 /\ log \in Seq(Events) /\ DOMAIN log = {}
      /\ \A s \in Subscriptions : Range(queue[s]) = {} /\ DOMAIN queue[s] = {}
    BY DEF Init, Range
<1>2. TypeOK
    <2>1. NoStats \in Stats
        BY <1>1 DEF NoStats, Stats
    <2> QED
        BY <1>1, <2>1, EventAssumption DEF Init, TypeOK
<1>3. \A s \in Subscriptions : AckedBy(s) = {} /\ SettledBy(s) = {} /\ Handled(s) = {}
    BY DEF Init, AckedBy, SettledBy, Handled
<1>4. LogFits /\ TimesFit /\ MissedOnlyIfUnbound
    BY <1>1 DEF LogFits, TimesFit, MissedOnlyIfUnbound
<1>5. QueuesFit
    BY <1>1 DEF Init, QueuesFit, Unbound
<1>6. \A f \in Files : /\ stats[f].count = 0
                       /\ {e \in AckedBy(Analytics) \union Handled(Analytics) : File[e] = f} = {}
                       /\ {e \in SettledBy(Analytics) \union Handled(Analytics) : File[e] = f} = {}
    BY <1>3, EventAssumption DEF Init, NoStats
<1>7. EffectsFit
    BY <1>3, <1>6, FS_EmptySet DEF EffectsFit
<1>8. CountsFit
    <2>1. Owed = 0 /\ faults = 0
        BY EventAssumption DEF Init, Owed
    <2> QED
        BY <1>6, <2>1, FS_EmptySet DEF CountsFit
<1> QED
    BY <1>2, <1>4, <1>5, <1>7, <1>8 DEF IInv

\* Whatever is published, delivered or settled, and whatever ends, IInv goes on holding.
LEMMA StepKeepsInv == IInv /\ [Next]_vars => IInv'
<1> SUFFICES ASSUME IInv, [Next]_vars PROVE IInv'
    OBVIOUS
<1>1. ASSUME NEW s \in Subscriptions, SettleOnClosed(s)
      PROVE  IInv'
    <2>1. Process[s] \in Processes /\ s \in SubsOf(Process[s])
        BY DEF Processes, SubsOf
    <2> QED
        BY <1>1, <2>1, EndStep DEF SettleOnClosed
<1>2. ASSUME NEW p \in Processes, Crash(p)
      PROVE  IInv'
    BY <1>2, EndStep DEF Crash
<1>3. CASE UNCHANGED vars
    <2>1. UNCHANGED <<log, boundAt, queue, outcome, sub, head, stats, rows, faults>>
        BY <1>3 DEF vars, broker
    <2>2. /\ \A s : AckedBy(s)' = AckedBy(s) /\ SettledBy(s)' = SettledBy(s)
          /\ \A s : Handled(s)' = Handled(s)
          /\ Owed' = Owed
        BY <2>1 DEF AckedBy, SettledBy, Handled, Owed
    <2>3. TypeOK' /\ LogFits' /\ QueuesFit' /\ TimesFit' /\ MissedOnlyIfUnbound'
        BY <2>1 DEF IInv, TypeOK, Stats, LogFits, QueuesFit, TimesFit, MissedOnlyIfUnbound
    <2>4. EffectsFit' /\ CountsFit'
        BY <2>1, <2>2 DEF IInv, EffectsFit, CountsFit
    <2> QED
        BY <2>3, <2>4 DEF IInv
<1> QED
    BY <1>1, <1>2, <1>3, PublishStep, SubscribeStep, DeliverStep, HandleStep, SettleStep,
       ConnectionClosesStep
    DEF Next

----------------------------------------------------------------------------
(***************************************************************************)
(* What the runs check on small instances, for every instance.             *)
(***************************************************************************)

\* The inductive invariant holds in every state of every execution.
THEOREM Inductive == Spec => []IInv
BY InitHolds, StepKeepsInv, PTL DEF Spec

\* The variables keep their types: no access time lies after the last event.
THEOREM TypeCorrect == Spec => []TypeOK
<1>1. IInv => TypeOK
    BY DEF IInv
<1> QED
    BY <1>1, Inductive, PTL

\* An event misses a subscription only if it was published before the queue was first
\* bound: queues are durable, and no crash or closed connection takes a message out.
THEOREM NothingBoundIsMissed == Spec => []MissedOnlyIfUnbound
<1>1. IInv => MissedOnlyIfUnbound
    BY DEF IInv
<1> QED
    BY <1>1, Inductive, PTL

\* consumeMessage acknowledges after the handler has ended: what is acknowledged has
\* been counted, or has its notification.
THEOREM AckedHadEffect == Spec => []AckedTookEffect
<1>1. IInv => AckedTookEffect
    <2> SUFFICES ASSUME IInv PROVE AckedTookEffect
        OBVIOUS
    <2>1. ASSUME NEW f \in Files
          PROVE  stats[f].count >= Cardinality({e \in AckedBy(Analytics) : File[e] = f})
        <3> DEFINE S == {e \in AckedBy(Analytics) \union Handled(Analytics) : File[e] = f}
                   T == {e \in AckedBy(Analytics) : File[e] = f}
        <3>1. IsFiniteSet(S) /\ Cardinality(S) \in Nat
            BY EventAssumption, CountedAreFinite DEF IInv
        <3>2. stats[f].count >= Cardinality(S) /\ stats[f].count \in Nat
            BY DEF IInv, EffectsFit, TypeOK, Stats
        <3>3. T \subseteq S
            OBVIOUS
        <3> HIDE DEF S, T
        <3>4. Cardinality(T) <= Cardinality(S) /\ Cardinality(T) \in Nat
            BY <3>1, <3>3, FS_Subset, FS_CardinalityType
        <3>5. stats[f].count >= Cardinality(T)
            BY <3>1, <3>2, <3>4
        <3> QED
            BY <3>5 DEF T
    <2> QED
        BY <2>1 DEF AckedTookEffect, IInv, EffectsFit
<1> QED
    BY <1>1, Inductive, PTL

\* Redeliveries count an access again at most once for each crash, closed connection or
\* failed call, although recordAccess does not recognise what it has counted.
THEOREM CountsStayBounded == Spec => []CountsAreBounded
<1>1. IInv => CountsAreBounded
    <2> SUFFICES ASSUME IInv, NEW f \in Files
        PROVE  stats[f].count <= faults
                + Cardinality({e \in Range(log) : Key[e] = Accessed /\ File[e] = f})
        BY DEF CountsAreBounded
    <2> DEFINE S == {e \in SettledBy(Analytics) \union Handled(Analytics) : File[e] = f}
               T == {e \in Range(log) : Key[e] = Accessed /\ File[e] = f}
    <2>1. IsFiniteSet(Range(log))
        BY SeqRange DEF IInv, TypeOK
    <2>2. IsFiniteSet(T) /\ Cardinality(T) \in Nat
        BY <2>1, FS_Subset, FS_CardinalityType
    <2>3. ASSUME NEW e \in SettledBy(Analytics) \union Handled(Analytics)
          PROVE  e \in Range(log) /\ Key[e] = Accessed
        <3>1. CASE e \in SettledBy(Analytics)
            BY <3>1, EventAssumption DEF IInv, QueuesFit, SettledBy
        <3>2. CASE e \in Handled(Analytics)
            <4>1. queue[Analytics] # <<>> /\ e = Head(queue[Analytics])
                BY <3>2, EventAssumption DEF IInv, QueuesFit, Handled
            <4>2. e \in Range(queue[Analytics])
                BY <4>1, EventAssumption, HeadMessage DEF IInv
            <4> QED
                BY <4>2, EventAssumption DEF IInv, QueuesFit
        <3> QED
            BY <2>3, <3>1, <3>2
    <2>4. S \subseteq T
        BY <2>3
    <2>5. stats[f].count + Owed <= faults + Cardinality(S) /\ stats[f].count \in Nat
        BY DEF IInv, CountsFit, TypeOK, Stats
    <2> HIDE DEF S, T
    <2>6. Cardinality(S) <= Cardinality(T) /\ Cardinality(S) \in Nat
        BY <2>2, <2>4, FS_Subset, FS_CardinalityType
    <2>7. stats[f].count <= faults + Cardinality(T)
        BY <2>2, <2>5, <2>6, OwedType
    <2> QED
        BY <2>7 DEF T
<1> QED
    BY <1>1, Inductive, PTL

\* last_accessed_at never goes back, although messages are delivered again, and
\* first_accessed_at stays: redeliveries come before anything later is handled.
THEOREM AccessTimesOnlyAdvance == Spec => AccessTimesAdvance
<1> DEFINE Advance == \A f \in Files :
        /\ stats'[f].last >= stats[f].last
        /\ stats[f].count > 0 => stats'[f].first = stats[f].first
<1>1. ASSUME IInv, [Next]_vars
      PROVE  Advance
    <2>1. \A f \in Files : stats[f].last \in Nat
        <3>1. Len(log) \in Nat
            BY <1>1, SeqRange DEF IInv, TypeOK
        <3>2. 0..Len(log) \subseteq Nat
            BY <3>1
        <3> QED
            BY <1>1, <3>2 DEF IInv, TypeOK, Stats
    <2>2. CASE UNCHANGED stats
        BY <2>1, <2>2
    <2>3. CASE RecordAccess(Head(queue[Analytics])) /\ head[Analytics] = "handling"
        <3> DEFINE e == Head(queue[Analytics])
        <3>1. queue[Analytics] # <<>> /\ Analytics \in Subscriptions
            BY <1>1, <2>3, EventAssumption DEF IInv, QueuesFit
        <3>2. /\ e \in Events /\ e \in Range(queue[Analytics])
              /\ AccessedAt(e) \in 1..Len(log) /\ e \in Range(log)
            BY <1>1, <3>1, HeadMessage DEF IInv
        <3>3. log[AccessedAt(e)] = e /\ AccessedAt(e) \in DOMAIN log /\ AccessedAt(e) \in Nat
            BY <1>1, <3>2, PlaceType, SeqRange DEF IInv, TypeOK
        <3> HIDE DEF e
        <3>4. stats[File[e]].last <= AccessedAt(e)
            BY <1>1, <3>2, <3>3 DEF IInv, TimesFit
        <3>5. stats' = [stats EXCEPT ![File[e]] =
                  [count |-> stats[File[e]].count + 1,
                   first |-> IF stats[File[e]].count = 0 THEN AccessedAt(e)
                             ELSE stats[File[e]].first,
                   last |-> AccessedAt(e)]]
            BY <2>3 DEF RecordAccess, e
        <3>6. stats \in [Files -> Stats] /\ File[e] \in Files
            BY <1>1, <3>2, EventType DEF IInv, TypeOK
        <3>7. \A f \in Files : f # File[e] => stats'[f] = stats[f]
            BY <3>5, <3>6
        <3>8. /\ stats'[File[e]].last >= stats[File[e]].last
              /\ stats[File[e]].count > 0 => stats'[File[e]].first = stats[File[e]].first
            BY <2>1, <3>3, <3>4, <3>5, <3>6 DEF Stats
        <3> QED
            BY <2>1, <3>7, <3>8
    <2>4. \/ UNCHANGED stats
          \/ RecordAccess(Head(queue[Analytics])) /\ head[Analytics] = "handling"
        BY <1>1 DEF Next, vars, Publish, Subscribe, Deliver, Handle, HandleFails, Effect,
                    Ack, Nack, SettleOnClosed, Crash, ConnectionCloses
    <2> QED
        BY <2>2, <2>3, <2>4
<1>2. IInv /\ [Next]_vars => [Advance]_vars
    BY <1>1
<1> QED
    BY <1>2, Inductive, PTL DEF Spec, AccessTimesAdvance
=============================================================================
