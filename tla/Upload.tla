------------------------------- MODULE Upload -------------------------------
(***************************************************************************)
(* storage-service: uploads of new files and new versions, running at once *)
(* over one content-addressed bucket, with metadata-service behind HTTP.   *)
(* An upload stores the chunks the bucket lacks, registers the version,    *)
(* deletes the chunks it wrote if it believes that failed, and announces   *)
(* the version.  Metadata-service is FileCatalog, whose operations each    *)
(* take effect while a call is in flight.  Each await is an action.        *)
(*                                                                         *)
(* A call that the caller gave up (connection broken, no answer in time)   *)
(* goes on at the other side.  A failed call to the bucket may or may not  *)
(* have had its effect.                                                    *)
(*                                                                         *)
(* Not covered: how a file is cut into chunks, multipart parsing, and      *)
(* downloads, which change nothing here.                                   *)
(***************************************************************************)
EXTENDS FileCatalog

CONSTANTS
    Keys,               \* storage keys, one per chunk content
    Content,            \* Content[u]: the storage keys of the upload's chunks
    NewFiles,           \* the uploads to POST /files; the others add a version
    MaxFaults           \* bound: failed calls, lost answers and crashes

Uploads == Calls

\* Empty uploads are rejected.
ASSUME UploadAssumption ==
    /\ Content \in [Uploads -> Seq(Keys) \ {<<>>}]
    /\ NewFiles \subseteq Uploads
    /\ \A u, v \in NewFiles : FileOf[u] = FileOf[v] => u = v
    /\ MaxFaults \in Nat

VARIABLES
    objects,            \* keys of the objects in the bucket
    pc,                 \* the next await of each upload, then its outcome
    pos,                \* the chunk it is at
    written,            \* newlyWrittenKeys
    deleting,           \* deletions of its cleanup in flight
    call,               \* its registration inside metadata-service
    event,              \* its chunk.uploaded event
    faults

uploads == <<pc, pos, written, deleting>>
vars == <<catalog, objects, uploads, call, event, faults>>

Ended == {"done", "failed"}
KeysOf(u) == Range(Content[u])

Init ==
    /\ CatalogInit
    /\ objects = {}
    /\ pc = [u \in Uploads |-> "idle"]
    /\ pos = [u \in Uploads |-> 1]
    /\ written = [u \in Uploads |-> {}]
    /\ deleting = [u \in Uploads |-> {}]
    /\ call = [u \in Uploads |-> "none"]
    /\ event = [u \in Uploads |-> "none"]
    /\ faults = 0

Fault == faults < MaxFaults /\ faults' = faults + 1
Goto(u, label) == pc' = [pc EXCEPT ![u] = label]

----------------------------------------------------------------------------
(* Storing the chunks.                                                     *)

Start(u) ==
    /\ pc[u] = "idle"
    /\ Goto(u, "exists")
    /\ UNCHANGED <<catalog, objects, pos, written, deleting, call, event, faults>>

\* Slip: <= for <.
NextChunkBug(u) ==
    IF pos[u] <= Len(Content[u])
    THEN Goto(u, "exists") /\ pos' = [pos EXCEPT ![u] = @ + 1] /\ UNCHANGED call
    ELSE /\ Goto(u, "register")
         /\ call' = [call EXCEPT ![u] = IF u \in NewFiles THEN "create" ELSE "lookup"]
         /\ UNCHANGED pos

\* After the last chunk the registration is sent.
NextChunk(u) ==
    IF pos[u] < Len(Content[u])
    THEN Goto(u, "exists") /\ pos' = [pos EXCEPT ![u] = @ + 1] /\ UNCHANGED call
    ELSE /\ Goto(u, "register")
         /\ call' = [call EXCEPT ![u] = IF u \in NewFiles THEN "create" ELSE "lookup"]
         /\ UNCHANGED pos

\* A chunk that exists is not written; an error counts as "does not exist".
ChunkExists(u) ==
    /\ pc[u] = "exists"
    /\ IF Content[u][pos[u]] \in objects
       THEN NextChunk(u)
       ELSE Goto(u, "put") /\ UNCHANGED <<pos, call>>
    /\ UNCHANGED <<catalog, objects, written, deleting, event, faults>>

ExistsFails(u) ==
    /\ pc[u] = "exists"
    /\ Fault
    /\ Goto(u, "put")
    /\ UNCHANGED <<catalog, objects, pos, written, deleting, call, event>>

\* Slip: only the last key is remembered.
PutChunkBug(u) ==
    /\ pc[u] = "put"
    /\ objects' = objects \union {Content[u][pos[u]]}
    /\ written' = [written EXCEPT ![u] = {Content[u][pos[u]]}]
    /\ NextChunk(u)
    /\ UNCHANGED <<catalog, deleting, event, faults>>

PutChunk(u) ==
    /\ pc[u] = "put"
    /\ objects' = objects \union {Content[u][pos[u]]}
    /\ written' = [written EXCEPT ![u] = @ \union {Content[u][pos[u]]}]
    /\ NextChunk(u)
    /\ UNCHANGED <<catalog, deleting, event, faults>>

\* The upload fails without a cleanup: the chunks written so far stay.
PutFails(u) ==
    /\ pc[u] = "put"
    /\ Fault
    /\ objects' \in {objects, objects \union {Content[u][pos[u]]}}
    /\ Goto(u, "failed")
    /\ UNCHANGED <<catalog, pos, written, deleting, call, event>>

----------------------------------------------------------------------------
(* The registration, at metadata-service: FileService's createFile,        *)
(* getOwnedFile and createVersion.                                         *)

CallCreatesFile(u) ==
    /\ call[u] = "create"
    /\ CreateFile(FileOf[u])
    /\ call' = [call EXCEPT ![u] = "append"]
    /\ UNCHANGED <<objects, uploads, event, faults>>

CallFindsFile(u) ==
    /\ call[u] = "lookup"
    /\ file[FileOf[u]] = "live"
    /\ call' = [call EXCEPT ![u] = "append"]
    /\ UNCHANGED <<catalog, objects, uploads, event, faults>>

CallAppends(u) ==
    /\ call[u] = "append"
    /\ AppendVersion(u)
    /\ call' = [call EXCEPT ![u] = "created"]
    /\ UNCHANGED <<objects, uploads, event, faults>>

\* Expired token, file not found, version number taken, failed query.
CallRefused(u) ==
    /\ call[u] \in {"create", "lookup", "append"}
    /\ call' = [call EXCEPT ![u] = "refused"]
    /\ UNCHANGED <<catalog, objects, uploads, event, faults>>

UserDeletesFile(f) ==
    /\ SoftDelete(f)
    /\ UNCHANGED <<objects, uploads, call, event, faults>>

----------------------------------------------------------------------------
(* The answer, the cleanup and the announcement.                           *)

\* addVersion's answer lacks the file's owner and name: they are fetched.
Accepted(u) ==
    /\ Goto(u, IF u \in NewFiles THEN "announce" ELSE "detail")
    /\ UNCHANGED deleting

\* Slip: every key of the payload.
CleanUpBug(u) ==
    /\ Goto(u, "cleanup")
    /\ deleting' = [deleting EXCEPT ![u] = KeysOf(u)]

CleanUp(u) ==
    /\ Goto(u, "cleanup")
    /\ deleting' = [deleting EXCEPT ![u] = written[u]]

\* Slip: a timeout taken for a refusal.
AnswerTimeoutBug(u) ==
    /\ pc[u] = "register"
    /\ \/ call[u] = "created" /\ Accepted(u)
       \/ call[u] # "created" /\ CleanUp(u)
    /\ UNCHANGED <<catalog, objects, pos, written, call, event, faults>>

Answer(u) ==
    /\ pc[u] = "register"
    /\ \/ call[u] = "created" /\ Accepted(u)
       \/ call[u] = "refused" /\ CleanUp(u)
    /\ UNCHANGED <<catalog, objects, pos, written, call, event, faults>>

\* fetch throws wherever the call is, "created" included.
AnswerLost(u) ==
    /\ pc[u] = "register"
    /\ Fault
    /\ CleanUp(u)
    /\ UNCHANGED <<catalog, objects, pos, written, call, event>>

\* The deletions run at once and end in any order.
DeleteChunk(u, k) ==
    /\ k \in deleting[u]
    /\ pc[u] = "cleanup"
    /\ objects' = objects \ {k}
    /\ deleting' = [deleting EXCEPT ![u] = @ \ {k}]
    /\ UNCHANGED <<catalog, pc, pos, written, call, event, faults>>

\* Promise.allSettled passes over a deletion that fails.
DeleteFails(u, k) ==
    /\ k \in deleting[u]
    /\ pc[u] = "cleanup"
    /\ Fault
    /\ objects' \in {objects, objects \ {k}}
    /\ deleting' = [deleting EXCEPT ![u] = @ \ {k}]
    /\ UNCHANGED <<catalog, pc, pos, written, call, event>>

CleanupEnds(u) ==
    /\ pc[u] = "cleanup"
    /\ deleting[u] = {}
    /\ Goto(u, "failed")
    /\ UNCHANGED <<catalog, objects, pos, written, deleting, call, event, faults>>

\* Slip: the version that is not the file's first is not announced.
GetFileDetailBug(u) ==
    /\ pc[u] = "detail"
    /\ Goto(u, IF file[FileOf[u]] = "live" THEN "done" ELSE "failed")
    /\ UNCHANGED <<catalog, objects, pos, written, deleting, call, event, faults>>

\* A file deleted meanwhile is not found: the upload fails, without a cleanup.
GetFileDetail(u) ==
    /\ pc[u] = "detail"
    /\ Goto(u, IF file[FileOf[u]] = "live" THEN "announce" ELSE "failed")
    /\ UNCHANGED <<catalog, objects, pos, written, deleting, call, event, faults>>

DetailFails(u) ==
    /\ pc[u] = "detail"
    /\ Fault
    /\ Goto(u, "failed")
    /\ UNCHANGED <<catalog, objects, pos, written, deleting, call, event>>

Announce(u) ==
    /\ pc[u] = "announce"
    /\ event' = [event EXCEPT ![u] = "sent"]
    /\ Goto(u, "done")
    /\ UNCHANGED <<catalog, objects, pos, written, deleting, call, faults>>

\* The publisher logs the error; the upload succeeds.
AnnounceFails(u) ==
    /\ pc[u] = "announce"
    /\ Fault
    /\ event' = [event EXCEPT ![u] = "unsent"]
    /\ Goto(u, "done")
    /\ UNCHANGED <<catalog, objects, pos, written, deleting, call>>

\* storage-service ends: its uploads fail where they are, deletions in flight have
\* their effect or not, and registrations in flight go on.
Crash ==
    /\ Fault
    /\ \E gone \in SUBSET UNION {deleting[u] : u \in Uploads} : objects' = objects \ gone
    /\ deleting' = [u \in Uploads |-> {}]
    /\ pc' = [u \in Uploads |-> IF pc[u] \in Ended \union {"idle"} THEN pc[u] ELSE "failed"]
    /\ UNCHANGED <<catalog, pos, written, call, event>>

----------------------------------------------------------------------------
Store(u) == ChunkExists(u) \/ ExistsFails(u) \/ PutChunk(u) \/ PutFails(u)
Metadata(u) ==
    CallCreatesFile(u) \/ CallFindsFile(u) \/ CallAppends(u) \/ CallRefused(u)
CleanupStep(u) ==
    (\E k \in Keys : DeleteChunk(u, k) \/ DeleteFails(u, k)) \/ CleanupEnds(u)
Finish(u) ==
    \/ Answer(u) \/ AnswerLost(u)
    \/ GetFileDetail(u) \/ DetailFails(u)
    \/ Announce(u) \/ AnnounceFails(u)

Next ==
    \/ \E u \in Uploads : Start(u) \/ Store(u) \/ Metadata(u) \/ Finish(u) \/ CleanupStep(u)
    \/ \E f \in Files : UserDeletesFile(f)
    \/ Crash

Spec == Init /\ [][Next]_vars

\* An awaited call ends, and metadata-service answers the calls it gets.
FairSpec ==
    /\ Spec
    /\ \A u \in Uploads : WF_vars(Store(u) \/ Finish(u) \/ CleanupStep(u))
    /\ \A u \in Uploads : WF_vars(Metadata(u))

----------------------------------------------------------------------------
TypeOK ==
    /\ file \in [Files -> FileStates]
    /\ versions \in [Files -> Seq(Uploads)]
    /\ objects \subseteq Keys
    /\ pc \in [Uploads -> Ended \union {"idle", "exists", "put", "register", "cleanup",
                                        "detail", "announce"}]
    /\ pos \in [Uploads -> Nat]
    /\ \A u \in Uploads : pos[u] \in DOMAIN Content[u]
    /\ written \in [Uploads -> SUBSET Keys]
    /\ deleting \in [Uploads -> SUBSET Keys]
    /\ call \in [Uploads -> {"none", "create", "lookup", "append", "created", "refused"}]
    /\ event \in [Uploads -> {"none", "sent", "unsent"}]
    /\ faults \in 0..MaxFaults

\* A chunk of a successful upload can be missing only because another upload, which
\* wrote the same chunk itself, failed: a cleanup spares the chunks it deduplicated.
MissingWasRewritten ==
    \A u \in Uploads : \A k \in KeysOf(u) \ objects : pc[u] = "done" =>
        \E v \in Uploads \ {u} : k \in written[v] /\ pc[v] \in {"cleanup", "failed"}

\* Without faults, once every upload has ended the bucket holds no chunk that no
\* registered version refers to, whatever was refused and in whatever order.
NothingLeftBehind ==
    faults = 0 /\ (\A u \in Uploads : pc[u] \in Ended) =>
        \A k \in objects : \E u \in Uploads : Registered(u) /\ k \in KeysOf(u)

\* An answer agrees with the catalog: an upload that succeeds or is announced has its
\* version there, and a success was announced unless the broker failed; without faults,
\* an upload that fails left no version, unless its file was deleted between its
\* registration and the lookup of its owner.
AnswersAreTrue ==
    \A u \in Uploads :
        /\ pc[u] = "done" \/ event[u] = "sent" => Registered(u)
        /\ pc[u] = "done" => event[u] # "none"
        /\ faults = 0 /\ pc[u] = "failed" /\ Registered(u) =>
            u \notin NewFiles /\ file[FileOf[u]] = "deleted"

\* Every registered version is announced, unless something failed or its file was
\* deleted first.
RegisteredIsAnnounced ==
    \A u \in Uploads :
        Registered(u) ~> event[u] = "sent" \/ faults > 0 \/ file[FileOf[u]] = "deleted"

\* What the design claims: chunk bytes are never removed under a registered version.
RegisteredIsStored ==
    \A u \in Uploads : Registered(u) => KeysOf(u) \subseteq objects
=============================================================================
