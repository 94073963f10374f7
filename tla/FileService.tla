---------------------------- MODULE FileService ----------------------------
(***************************************************************************)
(* metadata-service: registration of files, addition of versions, soft     *)
(* deletion, and the transaction of PgFileRepository.createVersion, run by *)
(* any number of requests at once.  Each query is an action.  The database *)
(* (READ COMMITTED) is modelled where the code depends on it: a SELECT     *)
(* sees committed rows, and an INSERT waits for the transaction that holds *)
(* the same (file_id, version_number), then fails if that one committed.   *)
(*                                                                         *)
(* Not covered: the read-only routes and the statistics.                   *)
(***************************************************************************)
EXTENDS Integers, FiniteSets, FiniteSetsExt

CONSTANTS
    Files, Users,
    Registrations,      \* POST /files requests
    Additions,          \* POST /files/:id/versions requests
    Deletions,          \* DELETE /files/:id requests
    FileOf,             \* the file of each request; a registration's is its own
    Caller,             \* the user in the request's token
    MaxFaults           \* bound: failed queries and service restarts

Calls == Registrations \union Additions
Requests == Calls \union Deletions

ASSUME RequestAssumption ==
    /\ FileOf \in [Requests -> Files] /\ Caller \in [Requests -> Users]
    /\ Registrations \intersect Additions = {}
    /\ Calls \intersect Deletions = {}
    /\ \A r1, r2 \in Registrations : FileOf[r1] = FileOf[r2] => r1 = r2
    /\ MaxFaults \in Nat /\ IsFiniteSet(Requests)

VARIABLES
    file,               \* files.is_deleted, or "absent"
    owner,              \* files.owner_id
    rows,               \* committed rows of file_versions (with their chunks)
    pc,                 \* the next query of each request, then its answer
    number,             \* createVersion's nextVersionNumber
    held,               \* transactions with an uncommitted row
    faults

vars == <<file, owner, rows, pc, number, held, faults>>

NoOne == "no one"
Rows == [file : Files, number : 1..Cardinality(Calls), by : Calls]
Answers == {"created", "deleted", "not found", "error"}

RowsOf(f) == {v \in rows : v.file = f}
Numbers(f) == {v.number : v \in RowsOf(f)}

Init ==
    /\ file = [f \in Files |-> "absent"]
    /\ owner = [f \in Files |-> NoOne]
    /\ rows = {}
    /\ pc = [r \in Requests |-> "unsent"]
    /\ number = [r \in Calls |-> 0]
    /\ held = {}
    /\ faults = 0

Fault == faults < MaxFaults /\ faults' = faults + 1
Goto(r, label) == pc' = [pc EXCEPT ![r] = label]

----------------------------------------------------------------------------
Send(r) ==
    /\ pc[r] = "unsent"
    /\ Goto(r, IF r \in Registrations THEN "create" ELSE "lookup")
    /\ UNCHANGED <<file, owner, rows, number, held, faults>>

\* The file is committed before its first version: listings show it meanwhile.
CreateFile(r) ==
    /\ pc[r] = "create"
    /\ file' = [file EXCEPT ![FileOf[r]] = "live"]
    /\ owner' = [owner EXCEPT ![FileOf[r]] = Caller[r]]
    /\ Goto(r, "begin")
    /\ UNCHANGED <<rows, number, held, faults>>

\* getOwnedFile: the file is live and the caller's own.
GetOwnedFile(r) ==
    /\ pc[r] = "lookup"
    /\ LET f == FileOf[r] IN
       IF file[f] = "live" /\ owner[f] = Caller[r]
       THEN Goto(r, IF r \in Deletions THEN "delete" ELSE "begin")
       ELSE Goto(r, "not found")
    /\ UNCHANGED <<file, owner, rows, number, held, faults>>

\* Unconditional: two deletions of one file both succeed.  The answer may get lost.
SoftDeleteFile(r) ==
    /\ pc[r] = "delete"
    /\ file' = [file EXCEPT ![FileOf[r]] = "deleted"]
    /\ \/ Goto(r, "deleted") /\ UNCHANGED faults
       \/ Goto(r, "error") /\ Fault
    /\ UNCHANGED <<owner, rows, number, held>>

\* Slip: the transaction looks again whether the file is live.
BeginLooksAgainBug(r) ==
    /\ pc[r] = "begin"
    /\ number' = [number EXCEPT ![r] = Max(Numbers(FileOf[r]) \union {0}) + 1]
    /\ Goto(r, IF file[FileOf[r]] = "live" THEN "insert" ELSE "rollback")
    /\ UNCHANGED <<file, owner, rows, held, faults>>

\* BEGIN; SELECT COALESCE(MAX(version_number), 0) + 1.  Without a row lock: another
\* transaction may read the same.
Begin(r) ==
    /\ pc[r] = "begin"
    /\ number' = [number EXCEPT ![r] = Max(Numbers(FileOf[r]) \union {0}) + 1]
    /\ Goto(r, "insert")
    /\ UNCHANGED <<file, owner, rows, held, faults>>

SameNumber(r, q) == q # r /\ FileOf[q] = FileOf[r] /\ number[q] = number[r]

\* Slips: no UNIQUE (file_id, version_number); a lock taken with NOWAIT.
InsertVersionBug(r) ==
    /\ pc[r] = "insert"
    /\ held' = held \union {r}
    /\ Goto(r, "commit")
    /\ UNCHANGED <<file, owner, rows, number, faults>>

InsertVersionNoWaitBug(r) ==
    /\ pc[r] = "insert"
    /\ IF number[r] \in Numbers(FileOf[r]) \/ \E q \in held : SameNumber(r, q)
       THEN Goto(r, "rollback") /\ UNCHANGED held
       ELSE Goto(r, "commit") /\ held' = held \union {r}
    /\ UNCHANGED <<file, owner, rows, number, faults>>

\* UNIQUE (file_id, version_number): wait for a transaction that holds the number;
\* a number that is taken fails the statement.
InsertVersion(r) ==
    /\ pc[r] = "insert"
    /\ \A q \in held : ~SameNumber(r, q)
    /\ IF number[r] \in Numbers(FileOf[r])
       THEN Goto(r, "rollback") /\ UNCHANGED held
       ELSE Goto(r, "commit") /\ held' = held \union {r}
    /\ UNCHANGED <<file, owner, rows, number, faults>>

\* The chunk rows and updated_at, private until COMMIT; then COMMIT.
Commit(r) ==
    /\ pc[r] = "commit"
    /\ rows' = rows \union {[file |-> FileOf[r], number |-> number[r], by |-> r]}
    /\ held' = held \ {r}
    /\ Goto(r, "created")
    /\ UNCHANGED <<file, owner, number, faults>>

\* COMMIT takes effect but its answer does not arrive: the caller sees an error.
CommitUnanswered(r) ==
    /\ pc[r] = "commit"
    /\ Fault
    /\ rows' = rows \union {[file |-> FileOf[r], number |-> number[r], by |-> r]}
    /\ held' = held \ {r}
    /\ Goto(r, "rollback")
    /\ UNCHANGED <<file, owner, number>>

\* Slips: the connection goes back to the pool with its transaction open; the
\* transaction is tried again.
RollbackBug(r) ==
    /\ pc[r] = "rollback"
    /\ Goto(r, "error")
    /\ UNCHANGED <<file, owner, rows, number, held, faults>>

RollbackRetriesBug(r) ==
    /\ pc[r] = "rollback"
    /\ held' = held \ {r}
    /\ Goto(r, "begin")
    /\ UNCHANGED <<file, owner, rows, number, faults>>

\* ROLLBACK and release; a ROLLBACK that fails means a lost connection, whose
\* transaction the database aborts.
Rollback(r) ==
    /\ pc[r] = "rollback"
    /\ held' = held \ {r}
    /\ Goto(r, "error")
    /\ UNCHANGED <<file, owner, rows, number, faults>>

\* A query fails: inside the transaction it is rolled back.
QueryFails(r) ==
    /\ pc[r] \in {"create", "lookup", "delete", "begin", "insert", "commit"}
    /\ Fault
    /\ Goto(r, IF pc[r] \in {"begin", "insert", "commit"} THEN "rollback" ELSE "error")
    /\ UNCHANGED <<file, owner, rows, number, held>>

\* The process ends: its connections close, open transactions are aborted and its
\* clients see an error.
Restart ==
    /\ Fault
    /\ pc' = [r \in Requests |-> IF pc[r] \in Answers \union {"unsent"} THEN pc[r]
                                ELSE "error"]
    /\ held' = {}
    /\ UNCHANGED <<file, owner, rows, number>>

Step(r) ==
    \/ GetOwnedFile(r)
    \/ r \in Registrations /\ CreateFile(r)
    \/ r \in Deletions /\ SoftDeleteFile(r)
    \/ r \in Calls /\ (Begin(r) \/ InsertVersion(r) \/ Commit(r) \/ Rollback(r))

Fails(r) == QueryFails(r) \/ (r \in Calls /\ CommitUnanswered(r))

Next == Restart \/ \E r \in Requests : Send(r) \/ Step(r) \/ Fails(r)

Spec == Init /\ [][Next]_vars

\* An awaited query ends; the database always answers, or its connection breaks.
FairSpec == Spec /\ \A r \in Requests : WF_vars(Step(r))

----------------------------------------------------------------------------
TypeOK ==
    /\ file \in [Files -> {"absent", "live", "deleted"}]
    /\ owner \in [Files -> Users \union {NoOne}]
    /\ rows \subseteq Rows
    /\ pc \in [Requests -> Answers \union {"unsent", "create", "lookup", "delete",
                                           "begin", "insert", "commit", "rollback"}]
    /\ number \in [Calls -> 0..Cardinality(Calls)]
    /\ held \subseteq Calls
    /\ faults \in 0..MaxFaults

\* A created answer carries a number under which the file has this request's version
\* and no other, whatever numbers concurrent transactions read.
NumberIsOwn ==
    \A r \in Calls : pc[r] = "created" =>
        {v \in RowsOf(FileOf[r]) : v.number = number[r] \/ v.by = r}
            = {[file |-> FileOf[r], number |-> number[r], by |-> r]}

\* While the database answers, an addition fails only because another version was
\* committed under the number it had read: someone always wins the race.
LosersHaveWinners ==
    faults = 0 => \A r \in Calls : pc[r] \in {"rollback", "error"} =>
        \E v \in RowsOf(FileOf[r]) : v.number = number[r] /\ v.by # r

\* While the database answers, a file ends up without a version only while its
\* registration is in progress: the two commits of registerFile leave no empty file.
NoEmptyFiles ==
    faults = 0 => \A r \in Registrations :
        /\ file[FileOf[r]] # "absent"
        /\ pc[r] \in Answers
        => RowsOf(FileOf[r]) # {}

\* The list of versions in the order of their numbers.
History(f) ==
    [k \in Numbers(f) |-> (CHOOSE v \in RowsOf(f) : v.number = k).by]

Catalog == INSTANCE FileCatalog
    WITH versions <- [f \in Files |-> History(f)],
         FileOf <- [r \in Calls |-> FileOf[r]]

\* The service keeps the promise of FileCatalog: versions are only ever appended,
\* one per call, and the number returned is the place in the list.
KeepsCatalog == Catalog!CatalogSpec

\* Every request is answered: transactions that wait for one another's rows do not
\* block for ever.
RequestsAnswered ==
    \A r \in Requests : pc[r] # "unsent" ~> pc[r] \in Answers
=============================================================================
