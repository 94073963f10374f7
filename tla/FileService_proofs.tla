------------------------- MODULE FileService_proofs -------------------------
(***************************************************************************)
(* Proofs about FileService, for any files, users and requests.  That      *)
(* every request is answered is a liveness property and stays with TLC.    *)
(***************************************************************************)
EXTENDS FileService, Sequences, FiniteSetTheorems, TLAPS

\* A committed row was made by one call, which has it no longer in its transaction and
\* never starts another; (file_id, version_number) is unique.
RowsFit ==
    /\ \A v \in rows :
        /\ v.file = FileOf[v.by] /\ v.number = number[v.by]
        /\ pc[v.by] \in {"created", "rollback", "error"}
        /\ v.by \notin held
    /\ \A u, v \in rows : u.file = v.file /\ u.number = v.number => u = v

\* An uncommitted row has a number no other row has, committed or not.
HeldFit ==
    /\ \A r \in held :
        /\ pc[r] \in {"commit", "rollback"}
        /\ number[r] \notin Numbers(FileOf[r])
        /\ \A q \in held : ~ SameNumber(r, q)
    /\ \A r \in Calls : pc[r] = "commit" => r \in held

\* The numbers of a file have no gap, and what a transaction has read leaves none.
NumbersFit ==
    /\ \A f \in Files : \A m \in Numbers(f) : \A k \in 1..m : k \in Numbers(f)
    /\ \A r \in Calls :
        /\ pc[r] \in {"insert", "commit"} => number[r] > 0
        /\ number[r] > 1 => number[r] - 1 \in Numbers(FileOf[r])

\* Where the requests of each kind can be, and what they know of their file.
RequestsFit ==
    /\ \A r \in Registrations :
        /\ pc[r] \notin {"lookup", "delete", "deleted", "not found"}
        /\ pc[r] \in {"unsent", "create"} => file[FileOf[r]] = "absent"
    /\ \A r \in Additions : pc[r] \notin {"create", "delete", "deleted"}
    /\ \A r \in Deletions :
        pc[r] \in {"unsent", "lookup", "delete", "deleted", "not found", "error"}
    /\ \A r \in Requests :
        pc[r] \in {"delete", "begin", "insert", "commit"} => file[FileOf[r]] # "absent"

CreatedHasRow ==
    \A r \in Calls : pc[r] = "created" =>
        [file |-> FileOf[r], number |-> number[r], by |-> r] \in rows

IInv ==
    /\ TypeOK /\ RowsFit /\ HeldFit /\ NumbersFit /\ RequestsFit
    /\ CreatedHasRow /\ LosersHaveWinners

----------------------------------------------------------------------------
(***************************************************************************)
(* Sets of numbers without a gap, and the numbers of a file.               *)
(***************************************************************************)

\* A finite set of numbers from 1 on without a gap is an interval, and its greatest
\* element counts it: what COALESCE(MAX(version_number), 0) returns.
LEMMA GaplessMax ==
    ASSUME NEW S \in SUBSET (Nat \ {0}), IsFiniteSet(S),
           \A m \in S : \A k \in 1..m : k \in S
    PROVE  /\ Cardinality(S) \in Nat
           /\ S = 1..Cardinality(S)
           /\ Max(S \union {0}) = Cardinality(S)
<1> DEFINE c == Cardinality(S)
<1>1. c \in Nat
    BY FS_CardinalityType
<1>2. IsFiniteSet(1..c) /\ Cardinality(1..c) = c
    BY <1>1, FS_Interval
<1>3. S \subseteq 1..c
    <2> SUFFICES ASSUME NEW m \in S, m > c PROVE FALSE
        BY <1>1
    <2>1. 1..m \subseteq S
        OBVIOUS
    <2>2. Cardinality(1..m) = m
        BY FS_Interval
    <2>3. Cardinality(1..m) <= c
        BY <2>1, FS_Subset
    <2> QED
        BY <2>2, <2>3, <1>1
<1>4. S = 1..c
    BY <1>2, <1>3, FS_Subset
<1> HIDE DEF c
<1>5. /\ c \in S \union {0}
      /\ \A y \in S \union {0} : c >= y
    BY <1>1, <1>4
<1>6. Max(S \union {0}) = c
    <2>1. \A x \in S \union {0} : (\A y \in S \union {0} : x >= y) => x = c
        BY <1>1, <1>4, <1>5
    <2> QED
        BY <1>5, <2>1 DEF Max
<1> QED
    BY <1>1, <1>4, <1>6 DEF c

LEMMA CallsCount == IsFiniteSet(Calls) /\ Cardinality(Calls) \in Nat
BY RequestAssumption, FS_Subset, FS_CardinalityType DEF Requests

LEMMA RowShape ==
    ASSUME TypeOK, NEW v \in rows
    PROVE  /\ v.file \in Files /\ v.number \in 1..Cardinality(Calls) /\ v.by \in Calls
           /\ v = [file |-> v.file, number |-> v.number, by |-> v.by]
BY DEF TypeOK, Rows

\* The numbers of a file are 1 to some n.
LEMMA NumbersAreInterval ==
    ASSUME TypeOK, NumbersFit, NEW f \in Files
    PROVE  \E n \in Nat :
             /\ Numbers(f) = 1..n
             /\ Cardinality(Numbers(f)) = n
             /\ IsFiniteSet(Numbers(f))
             /\ Max(Numbers(f) \union {0}) = n
<1>1. Numbers(f) \subseteq 1..Cardinality(Calls)
    BY RowShape DEF Numbers, RowsOf
<1>2. IsFiniteSet(Numbers(f))
    <2>1. IsFiniteSet(1..Cardinality(Calls))
        BY CallsCount, FS_Interval
    <2> QED
        BY <1>1, <2>1, FS_Subset
<1>3. \A m \in Numbers(f) : \A k \in 1..m : k \in Numbers(f)
    BY DEF NumbersFit
<1>4. Numbers(f) \in SUBSET (Nat \ {0})
    BY <1>1, CallsCount
<1> QED
    BY <1>2, <1>3, <1>4, GaplessMax

\* Each version of a file was made by another call, so a call that has made none finds
\* a number left for it.
LEMMA RoomForOneMore ==
    ASSUME TypeOK, RowsFit, NumbersFit, NEW f \in Files, NEW r \in Calls,
           \A v \in rows : v.by # r
    PROVE  Max(Numbers(f) \union {0}) + 1 \in 1..Cardinality(Calls)
<1> DEFINE h == History(f)
<1>1. PICK n \in Nat : /\ Numbers(f) = 1..n
                       /\ Cardinality(Numbers(f)) = n
                       /\ IsFiniteSet(Numbers(f))
                       /\ Max(Numbers(f) \union {0}) = n
    BY NumbersAreInterval
<1>2. \A k \in Numbers(f) : \E v \in RowsOf(f) : v.number = k /\ h[k] = v.by
    BY DEF Numbers, History
<1>3. \A v \in RowsOf(f) : v.by \in Calls \ {r} /\ v.number = number[v.by]
    BY RowShape DEF RowsFit, RowsOf
<1>4. h \in [Numbers(f) -> Calls \ {r}]
    BY <1>2, <1>3 DEF History
<1>5. \A j, k \in Numbers(f) : h[j] = h[k] => j = k
    BY <1>2, <1>3
<1>6. h \in Injection(Numbers(f), Calls \ {r})
    BY <1>4, <1>5 DEF Injection, IsInjective
<1>7. IsFiniteSet(Calls \ {r}) /\ Cardinality(Calls \ {r}) = Cardinality(Calls) - 1
    BY CallsCount, FS_RemoveElement
<1>8. n <= Cardinality(Calls) - 1
    BY <1>1, <1>6, <1>7, FS_Injection
<1> QED
    BY <1>1, <1>8, CallsCount

----------------------------------------------------------------------------
(***************************************************************************)
(* Every step preserves IInv.                                              *)
(***************************************************************************)

LEMMA FaultIsCounted ==
    ASSUME TypeOK, Fault
    PROVE  faults' \in 0..MaxFaults /\ faults' # 0
BY RequestAssumption DEF TypeOK, Fault

\* The steps of a request that leave the rows, the numbers and the open transactions
\* alone; only where the requests are has to be checked.
LEMMA WaitingSteps ==
    ASSUME IInv, UNCHANGED <<rows, number, held>>, NEW r \in Requests, NEW l,
           Goto(r, l), pc[r] \in {"unsent", "create", "lookup", "delete"},
           l \in {"create", "lookup", "delete", "begin", "deleted", "not found", "error"},
           (l # "error" /\ UNCHANGED faults) \/ Fault
    PROVE  RowsFit' /\ HeldFit' /\ NumbersFit' /\ CreatedHasRow' /\ LosersHaveWinners'
<1> USE DEF Goto
<1>1. /\ pc \in [Requests -> Answers \union {"unsent", "create", "lookup", "delete",
                                            "begin", "insert", "commit", "rollback"}]
      /\ pc' = [pc EXCEPT ![r] = l]
      /\ Calls \subseteq Requests /\ held \subseteq Calls
    BY DEF IInv, TypeOK, Requests
<1>2. \A f : Numbers(f)' = Numbers(f) /\ RowsOf(f)' = RowsOf(f)
    BY DEF Numbers, RowsOf
<1>3. \A q, s : SameNumber(q, s)' <=> SameNumber(q, s)
    BY DEF SameNumber
<1>4. RowsFit'
    BY <1>1, RowShape DEF IInv, RowsFit
<1>5. HeldFit'
    BY <1>1, <1>2, <1>3 DEF IInv, HeldFit
<1>6. NumbersFit'
    BY <1>1, <1>2 DEF IInv, NumbersFit
<1>7. CreatedHasRow'
    BY <1>1 DEF IInv, CreatedHasRow
<1>8. LosersHaveWinners'
    <2> SUFFICES ASSUME faults' = 0, NEW q \in Calls, pc'[q] \in {"rollback", "error"}
                 PROVE  \E v \in RowsOf(FileOf[q])' : v.number = number'[q] /\ v.by # q
        BY DEF LosersHaveWinners
    <2>1. UNCHANGED faults /\ l # "error"
        BY FaultIsCounted DEF IInv
    <2>2. q # r /\ pc[q] \in {"rollback", "error"}
        BY <1>1, <2>1
    <2> QED
        BY <2>1, <2>2, <1>2 DEF IInv, LosersHaveWinners
<1> QED
    BY <1>4, <1>5, <1>6, <1>7, <1>8

LEMMA SendStep ==
    ASSUME IInv, NEW r \in Requests, Send(r)
    PROVE  IInv'
<1> DEFINE l == IF r \in Registrations THEN "create" ELSE "lookup"
<1>1. /\ pc[r] = "unsent" /\ Goto(r, l) /\ l \in {"create", "lookup"}
      /\ UNCHANGED <<file, owner, rows, number, held, faults>>
    BY DEF Send
<1>2. RowsFit' /\ HeldFit' /\ NumbersFit' /\ CreatedHasRow' /\ LosersHaveWinners'
    <2> HIDE DEF l
    <2> QED BY <1>1, WaitingSteps
<1>3. TypeOK'
    BY <1>1 DEF IInv, TypeOK, Goto
<1>4. RequestsFit'
    <2>1. r \in Registrations \/ r \in Additions \/ r \in Deletions
        BY DEF Requests, Calls
    <2>2. pc \in [Requests -> Answers \union {"unsent", "create", "lookup", "delete",
                                            "begin", "insert", "commit", "rollback"}]
        BY DEF IInv, TypeOK
    <2> QED
        BY <1>1, <2>1, <2>2, RequestAssumption, ZenonT(60)
        DEF IInv, RequestsFit, Goto, Requests, Calls
<1> QED
    BY <1>2, <1>3, <1>4 DEF IInv

LEMMA CreateFileStep ==
    ASSUME IInv, NEW r \in Registrations, CreateFile(r)
    PROVE  IInv'
<1>1. /\ pc[r] = "create" /\ Goto(r, "begin")
      /\ file' = [file EXCEPT ![FileOf[r]] = "live"]
      /\ UNCHANGED <<rows, number, held, faults>>
    BY DEF CreateFile
<1>2. r \in Requests /\ FileOf[r] \in Files /\ Caller[r] \in Users
    BY RequestAssumption DEF Requests, Calls
<1>3. RowsFit' /\ HeldFit' /\ NumbersFit' /\ CreatedHasRow' /\ LosersHaveWinners'
    BY <1>1, <1>2, WaitingSteps
<1>4. TypeOK'
    BY <1>1, <1>2 DEF IInv, TypeOK, CreateFile, Goto
<1>5. RequestsFit'
    <2>1. /\ file \in [Files -> {"absent", "live", "deleted"}]
          /\ pc' = [pc EXCEPT ![r] = "begin"] /\ r \in DOMAIN pc
          /\ DOMAIN pc = Requests
        BY <1>1, <1>2 DEF IInv, TypeOK, Goto
    <2>2. \A q \in Registrations : q # r => FileOf[q] # FileOf[r]
        BY RequestAssumption
    <2>3. \A q \in Registrations : q # r => file'[FileOf[q]] = file[FileOf[q]]
        BY <1>1, <2>1, <2>2, RequestAssumption DEF Requests, Calls
    <2>4. \A f \in Files : file[f] # "absent" => file'[f] # "absent"
        BY <1>1, <2>1
    <2>5. file'[FileOf[r]] # "absent"
        BY <1>1, <1>2, <2>1
    <2> QED
        BY <2>1, <2>3, <2>4, <2>5, RequestAssumption
        DEF IInv, RequestsFit, Requests, Calls
<1> QED
    BY <1>3, <1>4, <1>5 DEF IInv

LEMMA GetOwnedFileStep ==
    ASSUME IInv, NEW r \in Requests, GetOwnedFile(r)
    PROVE  IInv'
<1>1. PICK l \in {"delete", "begin", "not found"} :
        /\ pc[r] = "lookup" /\ Goto(r, l)
        /\ l = "delete" => r \in Deletions
        /\ l = "begin" => r \notin Deletions
        /\ l # "not found" => file[FileOf[r]] = "live"
    BY DEF GetOwnedFile
<1>2. UNCHANGED <<file, owner, rows, number, held, faults>>
    BY DEF GetOwnedFile
<1>3. RowsFit' /\ HeldFit' /\ NumbersFit' /\ CreatedHasRow' /\ LosersHaveWinners'
    BY <1>1, <1>2, WaitingSteps
<1>4. TypeOK'
    BY <1>1, <1>2 DEF IInv, TypeOK, Goto, Answers
<1>5. RequestsFit'
    <2>1. /\ pc' = [pc EXCEPT ![r] = l] /\ DOMAIN pc = Requests
          /\ UNCHANGED file
        BY <1>1, <1>2 DEF IInv, TypeOK, Goto
    <2>2. r \notin Registrations
        BY <1>1 DEF IInv, RequestsFit
    <2> QED
        BY <1>1, <2>1, <2>2, RequestAssumption
        DEF IInv, RequestsFit, Requests, Calls
<1> QED
    BY <1>3, <1>4, <1>5 DEF IInv

LEMMA SoftDeleteStep ==
    ASSUME IInv, NEW r \in Deletions, SoftDeleteFile(r)
    PROVE  IInv'
<1>1. PICK l \in {"deleted", "error"} :
        /\ pc[r] = "delete" /\ Goto(r, l)
        /\ (l # "error" /\ UNCHANGED faults) \/ Fault
    BY DEF SoftDeleteFile
<1>2. /\ file' = [file EXCEPT ![FileOf[r]] = "deleted"]
      /\ UNCHANGED <<owner, rows, number, held>>
    BY DEF SoftDeleteFile
<1>3. r \in Requests /\ FileOf[r] \in Files
    BY RequestAssumption DEF Requests
<1>4. RowsFit' /\ HeldFit' /\ NumbersFit' /\ CreatedHasRow' /\ LosersHaveWinners'
    BY <1>1, <1>2, <1>3, WaitingSteps
<1>5. TypeOK'
    <2>1. faults' \in 0..MaxFaults
        BY <1>1, FaultIsCounted DEF IInv, TypeOK
    <2> QED
        BY <1>1, <1>2, <1>3, <2>1 DEF IInv, TypeOK, Goto, Answers
<1>6. RequestsFit'
    <2>1. /\ file \in [Files -> {"absent", "live", "deleted"}]
          /\ pc' = [pc EXCEPT ![r] = l] /\ DOMAIN pc = Requests
        BY <1>1 DEF IInv, TypeOK, Goto
    <2>2. file[FileOf[r]] # "absent"
        BY <1>1, <1>3 DEF IInv, RequestsFit
    <2>3. \A f \in Files : file[f] # "absent" <=> file'[f] # "absent"
        BY <1>2, <1>3, <2>1, <2>2
    <2>4. \A f \in Files : file[f] = "absent" <=> file'[f] = "absent"
        BY <2>3
    <2> QED
        BY <1>1, <2>1, <2>4, RequestAssumption
        DEF IInv, RequestsFit, Requests, Calls
<1> QED
    BY <1>4, <1>5, <1>6 DEF IInv

\* The steps of createVersion leave the files alone, and its request is a call.
LEMMA CallSteps ==
    ASSUME IInv, NEW r \in Calls, NEW l, Goto(r, l), UNCHANGED file,
           pc[r] \in {"begin", "insert", "commit", "rollback"},
           l \in {"insert", "commit", "rollback", "created", "error"},
           pc[r] = "rollback" => l = "error"
    PROVE  /\ RequestsFit'
           /\ pc' \in [Requests -> Answers \union {"unsent", "create", "lookup", "delete",
                                            "begin", "insert", "commit", "rollback"}]
           /\ pc'[r] = l
           /\ \A q \in Requests : q # r => pc'[q] = pc[q]
<1>1. r \in Requests /\ r \notin Deletions
    BY RequestAssumption DEF Requests
<1>2. pc' = [pc EXCEPT ![r] = l] /\ DOMAIN pc = Requests
    BY DEF IInv, TypeOK, Goto
<1>3. RequestsFit'
    <2>1. l \in {"insert", "commit"} => file[FileOf[r]] # "absent"
        BY <1>1 DEF IInv, RequestsFit
    <2> QED
        BY <1>1, <1>2, <2>1 DEF IInv, RequestsFit, Requests, Calls
<1> QED
    BY <1>1, <1>2, <1>3 DEF IInv, TypeOK, Answers

LEMMA BeginStep ==
    ASSUME IInv, NEW r \in Calls, Begin(r)
    PROVE  IInv'
<1> DEFINE f == FileOf[r]
           n == Max(Numbers(f) \union {0})
<1>1. /\ pc[r] = "begin" /\ Goto(r, "insert")
      /\ number' = [number EXCEPT ![r] = n + 1]
      /\ UNCHANGED <<file, owner, rows, held, faults>>
    BY DEF Begin
<1>2. f \in Files /\ r \in Requests
    BY RequestAssumption DEF Requests
<1>3. \A v \in rows : v.by # r
    BY <1>1 DEF IInv, RowsFit
<1>4. n + 1 \in 1..Cardinality(Calls)
    BY <1>2, <1>3, RoomForOneMore DEF IInv
<1>5. n \in Nat /\ Numbers(f) = 1..n
    BY <1>2, NumbersAreInterval DEF IInv
<1> HIDE DEF n
<1>6. r \notin held
    BY <1>1 DEF IInv, HeldFit
<1>7. /\ number' \in [Calls -> 0..Cardinality(Calls)]
      /\ number'[r] = n + 1
      /\ \A q \in Calls : q # r => number'[q] = number[q]
    BY <1>1, <1>4, CallsCount DEF IInv, TypeOK
<1>8. /\ RequestsFit'
      /\ pc' \in [Requests -> Answers \union {"unsent", "create", "lookup", "delete",
                                            "begin", "insert", "commit", "rollback"}]
      /\ pc'[r] = "insert"
      /\ \A q \in Requests : q # r => pc'[q] = pc[q]
    BY <1>1, CallSteps
<1>9. \A g : Numbers(g)' = Numbers(g) /\ RowsOf(g)' = RowsOf(g)
    BY <1>1 DEF Numbers, RowsOf
<1>10. TypeOK'
    BY <1>1, <1>7, <1>8 DEF IInv, TypeOK
<1>11. RowsFit'
    BY <1>1, <1>3, <1>7, <1>8, RowShape DEF IInv, RowsFit, Requests
<1>12. HeldFit'
    <2>1. \A p, q \in held : SameNumber(p, q)' <=> SameNumber(p, q)
        BY <1>6, <1>7 DEF IInv, TypeOK, SameNumber
    <2> QED
        BY <1>1, <1>6, <1>7, <1>8, <1>9, <2>1 DEF IInv, TypeOK, HeldFit, Requests
<1>13. NumbersFit'
    <2>1. n + 1 > 0 /\ (n + 1 > 1 => (n + 1) - 1 \in Numbers(f))
        BY <1>5
    <2> QED
        BY <1>7, <1>8, <1>9, <2>1 DEF IInv, NumbersFit, Requests
<1>14. CreatedHasRow'
    BY <1>1, <1>7, <1>8 DEF IInv, CreatedHasRow, Requests
<1>15. LosersHaveWinners'
    BY <1>1, <1>7, <1>8, <1>9 DEF IInv, LosersHaveWinners, Requests
<1> QED
    BY <1>8, <1>10, <1>11, <1>12, <1>13, <1>14, <1>15 DEF IInv

LEMMA InsertVersionStep ==
    ASSUME IInv, NEW r \in Calls, InsertVersion(r)
    PROVE  IInv'
<1> DEFINE taken == number[r] \in Numbers(FileOf[r])
           l == IF taken THEN "rollback" ELSE "commit"
<1>1. /\ pc[r] = "insert" /\ Goto(r, l)
      /\ \A q \in held : ~ SameNumber(r, q)
      /\ held' = IF taken THEN held ELSE held \union {r}
      /\ UNCHANGED <<file, owner, rows, number, faults>>
    BY DEF InsertVersion
<1>2. l \in {"rollback", "commit"} /\ (l = "commit" <=> ~ taken)
    OBVIOUS
<1> HIDE DEF l
<1>3. /\ RequestsFit'
      /\ pc' \in [Requests -> Answers \union {"unsent", "create", "lookup", "delete",
                                            "begin", "insert", "commit", "rollback"}]
      /\ pc'[r] = l
      /\ \A q \in Requests : q # r => pc'[q] = pc[q]
    BY <1>1, <1>2, CallSteps
<1>4. r \notin held /\ \A v \in rows : v.by # r
    BY <1>1 DEF IInv, HeldFit, RowsFit
<1>5. /\ \A g : Numbers(g)' = Numbers(g) /\ RowsOf(g)' = RowsOf(g)
      /\ \A p, q : SameNumber(p, q)' <=> SameNumber(p, q)
    BY <1>1 DEF Numbers, RowsOf, SameNumber
<1>6. TypeOK'
    BY <1>1, <1>3 DEF IInv, TypeOK
<1>7. RowsFit'
    BY <1>1, <1>3, <1>4, RowShape DEF IInv, RowsFit, Requests
<1>8. HeldFit'
    <2>1. \A p, q : SameNumber(p, q) => SameNumber(q, p)
        BY DEF SameNumber
    <2>2. ~ SameNumber(r, r)
        BY DEF SameNumber
    <2>3. \A q \in held : /\ q # r /\ q \in Calls /\ pc'[q] = pc[q]
        BY <1>3, <1>4 DEF IInv, TypeOK, Requests
    <2>4. CASE taken
        BY <1>1, <1>2, <1>3, <1>5, <2>3, <2>4 DEF IInv, HeldFit, Requests
    <2>5. CASE ~ taken
        BY <1>1, <1>2, <1>3, <1>5, <2>1, <2>2, <2>3, <2>5 DEF IInv, HeldFit, Requests
    <2> QED
        BY <2>4, <2>5
<1>9. NumbersFit'
    BY <1>1, <1>2, <1>3, <1>5 DEF IInv, NumbersFit, Requests
<1>10. CreatedHasRow'
    BY <1>1, <1>2, <1>3 DEF IInv, CreatedHasRow, Requests
<1>11. LosersHaveWinners'
    <2> SUFFICES ASSUME faults = 0, NEW q \in Calls, pc'[q] \in {"rollback", "error"}
                 PROVE  \E v \in RowsOf(FileOf[q]) : v.number = number[q] /\ v.by # q
        BY <1>1, <1>5 DEF LosersHaveWinners
    <2>1. CASE q = r
        <3>1. number[r] \in Numbers(FileOf[r])
            BY <2>1, <1>2, <1>3
        <3> QED
            BY <3>1, <2>1, <1>4 DEF Numbers, RowsOf
    <2>2. CASE q # r
        BY <2>2, <1>3 DEF IInv, LosersHaveWinners, Requests
    <2> QED
        BY <2>1, <2>2
<1> QED
    BY <1>3, <1>6, <1>7, <1>8, <1>9, <1>10, <1>11 DEF IInv

\* A version reaches the committed rows under a number that none of its file has, and
\* that follows theirs.
LEMMA CommitStep ==
    ASSUME IInv, NEW r \in Calls, Commit(r) \/ CommitUnanswered(r)
    PROVE  IInv'
<1> DEFINE f == FileOf[r]
           w == [file |-> f, number |-> number[r], by |-> r]
<1>1. PICK l \in {"created", "rollback"} :
        /\ pc[r] = "commit" /\ Goto(r, l)
        /\ (l = "created" /\ UNCHANGED faults) \/ (l = "rollback" /\ Fault)
    BY DEF Commit, CommitUnanswered
<1>2. /\ rows' = rows \union {w} /\ held' = held \ {r}
      /\ UNCHANGED <<file, owner, number>>
    BY DEF Commit, CommitUnanswered
<1>3. f \in Files /\ r \in Requests
    BY RequestAssumption DEF Requests
<1>4. /\ RequestsFit'
      /\ pc' \in [Requests -> Answers \union {"unsent", "create", "lookup", "delete",
                                            "begin", "insert", "commit", "rollback"}]
      /\ pc'[r] = l
      /\ \A q \in Requests : q # r => pc'[q] = pc[q]
    BY <1>1, <1>2, CallSteps
<1>5. r \in held /\ number[r] \notin Numbers(f) /\ number[r] \in 1..Cardinality(Calls)
    <2>1. r \in held
        BY <1>1 DEF IInv, HeldFit
    <2>2. number[r] \notin Numbers(f)
        BY <2>1 DEF IInv, HeldFit
    <2>3. number[r] \in 0..Cardinality(Calls) /\ number[r] > 0
        BY <1>1 DEF IInv, TypeOK, NumbersFit
    <2> QED
        BY <2>1, <2>2, <2>3, CallsCount
<1>6. w \in Rows /\ w.file = f /\ w.number = number[r] /\ w.by = r
    BY <1>3, <1>5 DEF Rows
<1> HIDE DEF w
<1>7. RowsOf(f)' = RowsOf(f) \union {w} /\ Numbers(f)' = Numbers(f) \union {number[r]}
    BY <1>2, <1>6 DEF RowsOf, Numbers
<1>8. \A g : g # f => RowsOf(g)' = RowsOf(g) /\ Numbers(g)' = Numbers(g)
    BY <1>2, <1>6 DEF RowsOf, Numbers
<1>9. TypeOK'
    <2>1. faults' \in 0..MaxFaults
        BY <1>1, FaultIsCounted DEF IInv, TypeOK
    <2> QED
        BY <1>2, <1>4, <1>6, <2>1 DEF IInv, TypeOK
<1>10. RowsFit'
    <2>1. ASSUME NEW v \in rows
          PROVE  /\ v.file = FileOf[v.by] /\ v.number = number[v.by]
                 /\ pc'[v.by] \in {"created", "rollback", "error"}
                 /\ v.by \notin held'
        <3>1. v.by \in Requests /\ v.by # r
            BY <1>1, RowShape DEF IInv, RowsFit, Requests
        <3> QED
            BY <3>1, <1>2, <1>4 DEF IInv, RowsFit
    <2>2. \A v \in rows : v.file = f => v.number # number[r]
        BY <1>5 DEF Numbers, RowsOf
    <2>3. \A u, v \in rows' : u.file = v.file /\ u.number = v.number => u = v
        BY <1>2, <1>6, <2>2 DEF IInv, RowsFit
    <2>4. ASSUME NEW v \in rows'
          PROVE  /\ v.file = FileOf[v.by] /\ v.number = number'[v.by]
                 /\ pc'[v.by] \in {"created", "rollback", "error"}
                 /\ v.by \notin held'
        BY <1>2, <1>4, <1>6, <2>1
    <2> QED
        BY <2>3, <2>4 DEF RowsFit
<1>11. HeldFit'
    <2>1. ASSUME NEW q \in held'
          PROVE  /\ pc'[q] \in {"commit", "rollback"}
                 /\ number'[q] \notin Numbers(FileOf[q])'
                 /\ \A p \in held' : ~ SameNumber(q, p)'
        <3>1. q \in held /\ q # r /\ q \in Requests
            BY <1>2 DEF IInv, TypeOK, Requests
        <3>2. ~ SameNumber(r, q)
            BY <1>5, <3>1 DEF IInv, HeldFit
        <3>3. FileOf[q] = f => number[q] # number[r]
            BY <3>1, <3>2 DEF SameNumber
        <3>4. number[q] \notin Numbers(FileOf[q])'
            <4>1. number[q] \notin Numbers(FileOf[q])
                BY <3>1 DEF IInv, HeldFit
            <4> QED
                BY <4>1, <3>3, <1>7, <1>8
        <3>5. \A p \in held' : ~ SameNumber(q, p)'
            BY <3>1, <1>2 DEF IInv, HeldFit, SameNumber
        <3> QED
            BY <3>1, <3>4, <3>5, <1>2, <1>4 DEF IInv, HeldFit
    <2>2. \A q \in Calls : pc'[q] = "commit" => q \in held'
        BY <1>1, <1>2, <1>4 DEF IInv, HeldFit, Requests
    <2> QED
        BY <2>1, <2>2 DEF HeldFit
<1>12. NumbersFit'
    <2>1. number[r] > 1 => number[r] - 1 \in Numbers(f)
        BY DEF IInv, NumbersFit
    <2>2. PICK n \in Nat : Numbers(f) = 1..n
        BY <1>3, NumbersAreInterval DEF IInv
    <2>3. number[r] = n + 1
        BY <1>5, <2>1, <2>2, CallsCount
    <2>4. \A m \in Numbers(f)' : \A k \in 1..m : k \in Numbers(f)'
        BY <1>7, <2>2, <2>3
    <2>5. \A g \in Files : \A m \in Numbers(g)' : \A k \in 1..m : k \in Numbers(g)'
        BY <2>4, <1>8 DEF IInv, NumbersFit
    <2>6. \A g : Numbers(g) \subseteq Numbers(g)'
        BY <1>7, <1>8
    <2>7. \A q \in Calls : pc'[q] \in {"insert", "commit"} => number'[q] > 0
        BY <1>1, <1>2, <1>4 DEF IInv, NumbersFit, Requests
    <2>8. \A q \in Calls : number'[q] > 1 => number'[q] - 1 \in Numbers(FileOf[q])'
        BY <1>2, <2>6 DEF IInv, NumbersFit
    <2> QED
        BY <2>5, <2>7, <2>8 DEF NumbersFit
<1>13. CreatedHasRow'
    <2> SUFFICES ASSUME NEW q \in Calls, pc'[q] = "created"
                 PROVE  [file |-> FileOf[q], number |-> number[q], by |-> q] \in rows'
        BY <1>2 DEF CreatedHasRow
    <2>1. CASE q = r
        BY <2>1, <1>2 DEF w
    <2>2. CASE q # r
        BY <2>2, <1>2, <1>4 DEF IInv, CreatedHasRow, Requests
    <2> QED
        BY <2>1, <2>2
<1>14. LosersHaveWinners'
    <2> SUFFICES ASSUME faults' = 0, NEW q \in Calls, pc'[q] \in {"rollback", "error"}
                 PROVE  \E v \in RowsOf(FileOf[q])' : v.number = number[q] /\ v.by # q
        BY <1>2 DEF LosersHaveWinners
    <2>1. UNCHANGED faults /\ l = "created"
        BY <1>1, FaultIsCounted DEF IInv
    <2>2. q # r /\ pc[q] \in {"rollback", "error"}
        BY <2>1, <1>4 DEF Requests
    <2>3. PICK v \in RowsOf(FileOf[q]) : v.number = number[q] /\ v.by # q
        BY <2>1, <2>2 DEF IInv, LosersHaveWinners
    <2> QED
        BY <2>3, <1>7, <1>8
<1> QED
    BY <1>4, <1>9, <1>10, <1>11, <1>12, <1>13, <1>14 DEF IInv

LEMMA RollbackStep ==
    ASSUME IInv, NEW r \in Calls, Rollback(r)
    PROVE  IInv'
<1>1. /\ pc[r] = "rollback" /\ Goto(r, "error") /\ held' = held \ {r}
      /\ UNCHANGED <<file, owner, rows, number, faults>>
    BY DEF Rollback
<1>2. /\ RequestsFit'
      /\ pc' \in [Requests -> Answers \union {"unsent", "create", "lookup", "delete",
                                            "begin", "insert", "commit", "rollback"}]
      /\ pc'[r] = "error"
      /\ \A q \in Requests : q # r => pc'[q] = pc[q]
    BY <1>1, CallSteps
<1>3. /\ \A g : Numbers(g)' = Numbers(g) /\ RowsOf(g)' = RowsOf(g)
      /\ \A p, q : SameNumber(p, q)' <=> SameNumber(p, q)
    BY <1>1 DEF Numbers, RowsOf, SameNumber
<1>4. TypeOK'
    BY <1>1, <1>2 DEF IInv, TypeOK
<1>5. RowsFit'
    BY <1>1, <1>2, RowShape DEF IInv, RowsFit, Requests
<1>6. HeldFit'
    <2>1. \A q \in held' : q \in held /\ q # r /\ q \in Requests /\ q \in Calls
        BY <1>1 DEF IInv, TypeOK, Requests
    <2>2. \A q \in Calls : pc'[q] = "commit" => q \in held'
        BY <1>1, <1>2 DEF IInv, HeldFit, Requests
    <2> QED
        BY <1>1, <1>2, <1>3, <2>1, <2>2 DEF IInv, HeldFit
<1>7. NumbersFit'
    BY <1>1, <1>2, <1>3 DEF IInv, NumbersFit, Requests
<1>8. CreatedHasRow'
    BY <1>1, <1>2 DEF IInv, CreatedHasRow, Requests
<1>9. LosersHaveWinners'
    BY <1>1, <1>2, <1>3 DEF IInv, LosersHaveWinners, Requests
<1> QED
    BY <1>2, <1>4, <1>5, <1>6, <1>7, <1>8, <1>9 DEF IInv

LEMMA QueryFailsStep ==
    ASSUME IInv, NEW r \in Requests, QueryFails(r)
    PROVE  IInv'
<1>1. /\ Fault /\ UNCHANGED <<file, owner, rows, number, held>>
      /\ faults' # 0 /\ faults' \in 0..MaxFaults
    BY FaultIsCounted DEF QueryFails, IInv
<1>2. CASE pc[r] \in {"create", "lookup", "delete"}
    <2>1. Goto(r, "error")
        BY <1>2 DEF QueryFails
    <2>2. RowsFit' /\ HeldFit' /\ NumbersFit' /\ CreatedHasRow' /\ LosersHaveWinners'
        BY <1>1, <1>2, <2>1, WaitingSteps
    <2>3. TypeOK'
        BY <1>1, <2>1 DEF IInv, TypeOK, Goto, Answers
    <2>4. RequestsFit'
        <3>1. pc' = [pc EXCEPT ![r] = "error"] /\ DOMAIN pc = Requests
            BY <2>1 DEF IInv, TypeOK, Goto
        <3> QED
            BY <1>1, <1>2, <3>1 DEF IInv, RequestsFit, Requests, Calls
    <2> QED
        BY <2>2, <2>3, <2>4 DEF IInv
<1>3. CASE pc[r] \in {"begin", "insert", "commit"}
    <2>1. Goto(r, "rollback") /\ r \in Calls
        BY <1>3 DEF QueryFails, IInv, RequestsFit, Requests
    <2>2. /\ RequestsFit'
          /\ pc' \in [Requests -> Answers \union {"unsent", "create", "lookup", "delete",
                                            "begin", "insert", "commit", "rollback"}]
          /\ pc'[r] = "rollback"
          /\ \A q \in Requests : q # r => pc'[q] = pc[q]
        BY <1>1, <1>3, <2>1, CallSteps
    <2>3. /\ \A g : Numbers(g)' = Numbers(g) /\ RowsOf(g)' = RowsOf(g)
          /\ \A p, q : SameNumber(p, q)' <=> SameNumber(p, q)
        BY <1>1 DEF Numbers, RowsOf, SameNumber
    <2>4. TypeOK'
        BY <1>1, <2>2 DEF IInv, TypeOK
    <2>5. RowsFit'
        BY <1>1, <1>3, <2>2, RowShape DEF IInv, RowsFit, Requests
    <2>6. HeldFit'
        <3>1. \A q \in held : q \in Requests
            BY DEF IInv, TypeOK, Requests
        <3>2. \A q \in Calls : pc'[q] = "commit" => q \in held
            BY <2>2 DEF IInv, HeldFit, Requests
        <3> QED
            BY <1>1, <2>2, <2>3, <3>1, <3>2 DEF IInv, HeldFit
    <2>7. NumbersFit'
        BY <1>1, <2>2, <2>3 DEF IInv, NumbersFit, Requests
    <2>8. CreatedHasRow'
        BY <1>1, <2>2 DEF IInv, CreatedHasRow, Requests
    <2>9. LosersHaveWinners'
        BY <1>1 DEF LosersHaveWinners
    <2> QED
        BY <2>2, <2>4, <2>5, <2>6, <2>7, <2>8, <2>9 DEF IInv
<1> QED
    BY <1>2, <1>3 DEF QueryFails

LEMMA RestartStep ==
    ASSUME IInv, Restart
    PROVE  IInv'
<1>1. /\ held' = {} /\ UNCHANGED <<file, owner, rows, number>>
      /\ faults' # 0 /\ faults' \in 0..MaxFaults
    BY FaultIsCounted DEF Restart, IInv
<1>2. /\ pc' \in [Requests -> Answers \union {"unsent", "create", "lookup", "delete",
                                            "begin", "insert", "commit", "rollback"}]
      /\ \A q \in Requests : \/ pc'[q] = "error" /\ pc[q] \notin Answers \union {"unsent"}
                             \/ pc'[q] = pc[q] /\ pc[q] \in Answers \union {"unsent"}
    BY DEF Restart, IInv, TypeOK, Answers
<1>3. \A g : Numbers(g)' = Numbers(g) /\ RowsOf(g)' = RowsOf(g)
    BY <1>1 DEF Numbers, RowsOf
<1>4. TypeOK'
    BY <1>1, <1>2 DEF IInv, TypeOK
<1>5. RowsFit'
    BY <1>1, <1>2, RowShape DEF IInv, RowsFit, Requests, Answers
<1>6. HeldFit'
    BY <1>1, <1>2 DEF HeldFit, Requests, Answers
<1>7. NumbersFit'
    BY <1>1, <1>2, <1>3 DEF IInv, NumbersFit, Requests, Answers
<1>8. RequestsFit'
    BY <1>1, <1>2 DEF IInv, RequestsFit, Requests, Calls, Answers
<1>9. CreatedHasRow'
    BY <1>1, <1>2 DEF IInv, CreatedHasRow, Requests
<1>10. LosersHaveWinners'
    BY <1>1 DEF LosersHaveWinners
<1> QED
    BY <1>4, <1>5, <1>6, <1>7, <1>8, <1>9, <1>10 DEF IInv

LEMMA InitHolds == Init => IInv
<1> SUFFICES ASSUME Init PROVE IInv
    OBVIOUS
<1>1. \A g : Numbers(g) = {} /\ RowsOf(g) = {}
    BY DEF Init, Numbers, RowsOf
<1>2. \A r \in Requests : pc[r] = "unsent" /\ FileOf[r] \in Files
    BY RequestAssumption DEF Init
<1>3. TypeOK
    BY RequestAssumption, CallsCount DEF Init, TypeOK
<1>4. NumbersFit
    BY <1>1, <1>2 DEF Init, NumbersFit, Requests
<1>5. RowsFit /\ HeldFit /\ CreatedHasRow /\ LosersHaveWinners
    BY <1>2 DEF Init, RowsFit, HeldFit, CreatedHasRow, LosersHaveWinners, Requests
<1>6. RequestsFit
    BY <1>2 DEF Init, RequestsFit, Requests, Calls
<1> QED
    BY <1>3, <1>4, <1>5, <1>6 DEF IInv

\* Whatever a request, a failing query or a restart does, IInv goes on holding.
LEMMA StepKeepsInv == IInv /\ [Next]_vars => IInv'
<1> SUFFICES ASSUME IInv, [Next]_vars PROVE IInv'
    OBVIOUS
<1>1. CASE Restart
    BY <1>1, RestartStep
<1>2. ASSUME NEW r \in Requests, Send(r) \/ Step(r) \/ Fails(r)
      PROVE  IInv'
    BY <1>2, SendStep, GetOwnedFileStep, CreateFileStep, SoftDeleteStep, BeginStep,
       InsertVersionStep, CommitStep, RollbackStep, QueryFailsStep
    DEF Step, Fails
<1>3. CASE UNCHANGED vars
    <2>1. \A g : Numbers(g)' = Numbers(g) /\ RowsOf(g)' = RowsOf(g)
        BY <1>3 DEF vars, Numbers, RowsOf
    <2>2. \A p, q : SameNumber(p, q)' <=> SameNumber(p, q)
        BY <1>3 DEF vars, SameNumber
    <2>3. TypeOK' /\ RowsFit' /\ RequestsFit' /\ CreatedHasRow'
        BY <1>3 DEF vars, IInv, TypeOK, RowsFit, RequestsFit, CreatedHasRow
    <2>4. HeldFit' /\ NumbersFit' /\ LosersHaveWinners'
        BY <1>3, <2>1, <2>2 DEF vars, IInv, HeldFit, NumbersFit, LosersHaveWinners
    <2> QED
        BY <2>3, <2>4 DEF IInv
<1> QED
    BY <1>1, <1>2, <1>3 DEF Next

----------------------------------------------------------------------------
(***************************************************************************)
(* What the runs check on small instances, for every instance.             *)
(***************************************************************************)

\* The inductive invariant holds in every state of every execution.
THEOREM Inductive == Spec => []IInv
BY InitHolds, StepKeepsInv, PTL DEF Spec

\* The service's variables keep their types: in particular, no version number exceeds
\* the number of calls (the MAX + 1 of createVersion leaves no gaps).
THEOREM TypeCorrect == Spec => []TypeOK
<1>1. IInv => TypeOK
    BY DEF IInv
<1> QED
    BY <1>1, Inductive, PTL

\* createVersion answers with a number under which the file has this request's version
\* and no other, although concurrent transactions compute it without a lock.
THEOREM NumbersAreOwn == Spec => []NumberIsOwn
<1>1. IInv => NumberIsOwn
    <2> SUFFICES ASSUME IInv, NEW r \in Calls, pc[r] = "created"
                 PROVE  {v \in RowsOf(FileOf[r]) : v.number = number[r] \/ v.by = r}
                            = {[file |-> FileOf[r], number |-> number[r], by |-> r]}
        BY DEF NumberIsOwn
    <2> DEFINE w == [file |-> FileOf[r], number |-> number[r], by |-> r]
    <2>1. w \in RowsOf(FileOf[r])
        BY DEF IInv, CreatedHasRow, RowsOf
    <2>2. \A v \in RowsOf(FileOf[r]) : v.by = r => v.number = number[r]
        BY DEF IInv, RowsFit, RowsOf
    <2>3. \A v \in RowsOf(FileOf[r]) : v.number = number[r] => v = w
        BY <2>1 DEF IInv, RowsFit, RowsOf
    <2> QED
        BY <2>1, <2>2, <2>3
<1> QED
    BY <1>1, Inductive, PTL

\* Without failures of the database, a call of createVersion fails only when another
\* version was committed under the number it had read.
THEOREM RacesHaveWinners == Spec => []LosersHaveWinners
<1>1. IInv => LosersHaveWinners
    BY DEF IInv
<1> QED
    BY <1>1, Inductive, PTL

\* Without failures of the database, the two commits of registerFile leave no file
\* without a version.
THEOREM FilesHaveVersions == Spec => []NoEmptyFiles
<1>1. IInv => NoEmptyFiles
    <2> SUFFICES ASSUME IInv, faults = 0, NEW r \in Registrations, pc[r] \in Answers
                 PROVE  RowsOf(FileOf[r]) # {}
        BY DEF NoEmptyFiles
    <2>1. r \in Calls /\ pc[r] \in {"created", "error"}
        BY DEF IInv, RequestsFit, Answers, Calls
    <2>2. CASE pc[r] = "created"
        <3>1. [file |-> FileOf[r], number |-> number[r], by |-> r] \in RowsOf(FileOf[r])
            BY <2>1, <2>2 DEF IInv, CreatedHasRow, RowsOf
        <3> QED
            BY <3>1
    <2>3. CASE pc[r] = "error"
        BY <2>1, <2>3 DEF IInv, LosersHaveWinners
    <2> QED
        BY <2>1, <2>2, <2>3
<1> QED
    BY <1>1, Inductive, PTL

----------------------------------------------------------------------------
(***************************************************************************)
(* The service implements FileCatalog.                                     *)
(***************************************************************************)

\* A set of versions with different numbers has one under each.
LEMMA VersionOfNumber ==
    ASSUME NEW R, \A u, v \in R : u.number = v.number => u = v, NEW v \in R
    PROVE  (CHOOSE u \in R : u.number = v.number) = v
OBVIOUS

\* The list of versions is a sequence, with each version at the place of its number.
LEMMA HistoryIsList ==
    ASSUME TypeOK, RowsFit, NumbersFit, NEW f \in Files
    PROVE  /\ \E n \in Nat : Numbers(f) = 1..n /\ History(f) \in [1..n -> Calls]
           /\ \A v \in RowsOf(f) : v.number \in Numbers(f) /\ History(f)[v.number] = v.by
           /\ \A k \in Numbers(f) : \E v \in RowsOf(f) : v.number = k /\ History(f)[k] = v.by
<1>1. PICK n \in Nat : Numbers(f) = 1..n
    BY NumbersAreInterval
<1>2. \A u, v \in RowsOf(f) : u.number = v.number => u = v
    BY DEF RowsFit, RowsOf
<1>3. \A v \in RowsOf(f) : v.number \in Numbers(f)
    BY DEF Numbers
<1>4. \A v \in RowsOf(f) : History(f)[v.number] = v.by
    BY <1>2, <1>3, VersionOfNumber DEF History
<1>5. \A k \in Numbers(f) : \E v \in RowsOf(f) : v.number = k /\ History(f)[k] = v.by
    BY <1>4 DEF Numbers
<1>6. \A v \in RowsOf(f) : v.by \in Calls
    BY RowShape DEF RowsOf
<1>7. History(f) \in [1..n -> Calls]
    BY <1>1, <1>5, <1>6 DEF History
<1> QED
    BY <1>1, <1>3, <1>4, <1>5, <1>7

LEMMA HistoriesStay ==
    ASSUME UNCHANGED rows
    PROVE  UNCHANGED [f \in Files |-> History(f)]
BY DEF History, Numbers, RowsOf

\* COMMIT of a version is the abstract AppendVersion, answered or not.
LEMMA CommitAppends ==
    ASSUME IInv, NEW r \in Calls, Commit(r) \/ CommitUnanswered(r)
    PROVE  Catalog!AppendVersion(r)
<1> DEFINE f == FileOf[r]
           w == [file |-> f, number |-> number[r], by |-> r]
<1>1. /\ pc[r] = "commit"
      /\ rows' = rows \union {w}
      /\ UNCHANGED <<file, number>>
    BY DEF Commit, CommitUnanswered
<1>2. f \in Files /\ r \in Requests
    BY RequestAssumption DEF Requests
<1>3. file[f] # "absent"
    BY <1>1, <1>2 DEF IInv, RequestsFit
<1>4. PICK n \in Nat : Numbers(f) = 1..n /\ History(f) \in [1..n -> Calls]
    BY <1>2, HistoryIsList DEF IInv
<1>5. number[r] = n + 1
    <2>1. r \in held
        BY <1>1 DEF IInv, HeldFit
    <2>2. number[r] \notin Numbers(f)
        BY <2>1 DEF IInv, HeldFit
    <2>3. number[r] \in 0..Cardinality(Calls) /\ number[r] > 0
        BY <1>1 DEF IInv, TypeOK, NumbersFit
    <2>4. number[r] > 1 => number[r] - 1 \in Numbers(f)
        BY DEF IInv, NumbersFit
    <2> QED
        BY <2>2, <2>3, <2>4, <1>4, CallsCount
<1>6. \A v \in rows : v.by # r
    BY <1>1 DEF IInv, RowsFit
<1>7. w.file = f /\ w.number = n + 1 /\ w.by = r
    BY <1>5
<1> HIDE DEF w
<1>8. RowsOf(f)' = RowsOf(f) \union {w} /\ Numbers(f)' = 1..(n + 1)
    <2>1. RowsOf(f)' = RowsOf(f) \union {w}
        BY <1>1, <1>7 DEF RowsOf
    <2>2. Numbers(f)' = Numbers(f) \union {n + 1}
        BY <2>1, <1>7 DEF Numbers
    <2>3. (1..n) \union {n + 1} = 1..(n + 1)
        OBVIOUS
    <2> QED
        BY <2>1, <2>2, <2>3, <1>4
<1>9. \A u, v \in RowsOf(f)' : u.number = v.number => u = v
    <2>1. \A v \in RowsOf(f) : v.number \in 1..n
        BY <1>4 DEF Numbers
    <2>2. \A u, v \in RowsOf(f) : u.number = v.number => u = v
        BY DEF IInv, RowsFit, RowsOf
    <2> QED
        BY <1>7, <1>8, <2>1, <2>2
<1>10. \A k \in 1..(n + 1) :
         History(f)'[k] = (CHOOSE u \in RowsOf(f)' : u.number = k).by
    BY <1>8 DEF History
<1>11. \A v \in RowsOf(f)' : History(f)'[v.number] = v.by
    <2> SUFFICES ASSUME NEW v \in RowsOf(f)' PROVE History(f)'[v.number] = v.by
        OBVIOUS
    <2>1. (CHOOSE u \in RowsOf(f)' : u.number = v.number) = v
        BY <1>9, VersionOfNumber
    <2>2. v.number \in 1..(n + 1)
        BY <1>8 DEF Numbers
    <2> QED
        BY <2>1, <2>2, <1>10
<1>12. \A k \in 1..n : History(f)'[k] = History(f)[k]
    <2> SUFFICES ASSUME NEW k \in 1..n PROVE History(f)'[k] = History(f)[k]
        OBVIOUS
    <2>1. PICK v \in RowsOf(f) : v.number = k /\ History(f)[k] = v.by
        BY <1>2, <1>4, HistoryIsList DEF IInv
    <2> QED
        BY <2>1, <1>8, <1>11
<1>13. History(f)' = Append(History(f), r)
    <2>1. History(f) \in Seq(Calls) /\ Len(History(f)) = n
        BY <1>4
    <2>2. /\ Append(History(f), r) \in Seq(Calls)
          /\ Len(Append(History(f), r)) = n + 1
          /\ \A k \in 1..n : Append(History(f), r)[k] = History(f)[k]
          /\ Append(History(f), r)[n + 1] = r
        BY <2>1
    <2>3. DOMAIN Append(History(f), r) = 1..(n + 1)
        BY <2>2
    <2>4. History(f)'[n + 1] = r
        BY <1>7, <1>8, <1>11
    <2>5. History(f)' = [k \in 1..(n + 1) |-> History(f)'[k]]
        BY <1>8 DEF History
    <2>6. Append(History(f), r) = [k \in 1..(n + 1) |-> Append(History(f), r)[k]]
        BY <2>2, <2>3
    <2>7. \A k \in 1..(n + 1) : History(f)'[k] = Append(History(f), r)[k]
        BY <2>2, <2>4, <1>12
    <2> QED
        BY <2>5, <2>6, <2>7
<1>14. ASSUME NEW g \in Files, g # f
       PROVE  History(g)' = History(g)
    <2>1. RowsOf(g)' = RowsOf(g)
        BY <1>1, <1>7, <1>14 DEF RowsOf
    <2>2. Numbers(g)' = Numbers(g)
        BY <2>1 DEF Numbers
    <2> QED
        BY <2>1, <2>2 DEF History
<1>15. r \notin Catalog!Range(History(f))
    <2>1. \A k \in Numbers(f) : History(f)[k] # r
        BY <1>2, <1>6, HistoryIsList DEF IInv, RowsOf
    <2>2. DOMAIN History(f) = Numbers(f)
        BY DEF History
    <2> QED
        BY <2>1, <2>2 DEF Catalog!Range
<1>16. [g \in Files |-> History(g)]' = [[g \in Files |-> History(g)] EXCEPT ![f] =
                                          Append(@, r)]
    BY <1>2, <1>13, <1>14
<1> QED
    BY <1>1, <1>2, <1>3, <1>15, <1>16
    DEF Catalog!AppendVersion, Catalog!Registered

\* Every step of the service is a step of FileCatalog or leaves files and versions as
\* they are.
LEMMA StepImplements ==
    IInv /\ [Next]_vars => [Catalog!CatalogNext]_(Catalog!catalog)
<1> SUFFICES ASSUME IInv, [Next]_vars
             PROVE  [Catalog!CatalogNext]_(Catalog!catalog)
    OBVIOUS
<1>1. CASE UNCHANGED <<file, rows>>
    BY <1>1, HistoriesStay DEF Catalog!catalog
<1>2. ASSUME NEW r \in Registrations, CreateFile(r)
      PROVE  Catalog!CatalogNext
    <2>1. /\ FileOf[r] \in Files /\ file[FileOf[r]] = "absent"
          /\ file' = [file EXCEPT ![FileOf[r]] = "live"]
          /\ UNCHANGED rows
        BY <1>2, RequestAssumption DEF CreateFile, IInv, RequestsFit, Requests, Calls
    <2>2. Catalog!CreateFile(FileOf[r])
        BY <2>1, HistoriesStay DEF Catalog!CreateFile
    <2> QED
        BY <2>1, <2>2 DEF Catalog!CatalogNext
<1>3. ASSUME NEW r \in Deletions, SoftDeleteFile(r)
      PROVE  [Catalog!CatalogNext]_(Catalog!catalog)
    <2>1. /\ FileOf[r] \in Files /\ file[FileOf[r]] # "absent"
          /\ file \in [Files -> {"absent", "live", "deleted"}]
          /\ file' = [file EXCEPT ![FileOf[r]] = "deleted"]
          /\ UNCHANGED rows
        BY <1>3, RequestAssumption
        DEF SoftDeleteFile, IInv, TypeOK, RequestsFit, Requests
    <2>2. CASE file[FileOf[r]] = "live"
        <3>1. Catalog!SoftDelete(FileOf[r])
            BY <2>1, <2>2, HistoriesStay DEF Catalog!SoftDelete
        <3> QED
            BY <2>1, <3>1 DEF Catalog!CatalogNext
    <2>3. CASE file[FileOf[r]] = "deleted"
        BY <2>1, <2>3, <1>1
    <2> QED
        BY <2>1, <2>2, <2>3
<1>4. ASSUME NEW r \in Calls, Commit(r) \/ CommitUnanswered(r)
      PROVE  Catalog!CatalogNext
    BY <1>4, CommitAppends DEF Catalog!CatalogNext
<1> QED
    BY <1>1, <1>2, <1>3, <1>4
    DEF Next, Step, Fails, vars, Restart, Send, GetOwnedFile, Begin, InsertVersion,
        Rollback, QueryFails

\* metadata-service keeps the promise of FileCatalog, which storage-service's uploads
\* rely on: a call appends its version to the file once, and never changes another.
THEOREM ServiceKeepsCatalog == Spec => KeepsCatalog
<1>1. Init => Catalog!CatalogInit
    <2> SUFFICES ASSUME Init PROVE Catalog!CatalogInit
        OBVIOUS
    <2>1. \A f : Numbers(f) = {}
        BY DEF Init, Numbers, RowsOf
    <2>2. \A f : History(f) = <<>>
        BY <2>1 DEF History
    <2> QED
        BY <2>2 DEF Init, Catalog!CatalogInit
<1> QED
    BY <1>1, StepImplements, Inductive, PTL DEF Spec, KeepsCatalog, Catalog!CatalogSpec
=============================================================================
