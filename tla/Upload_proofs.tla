--------------------------- MODULE Upload_proofs ---------------------------
(***************************************************************************)
(* Proofs about Upload, for any uploads, files and contents.  That every   *)
(* registered version is announced is a liveness property and stays with   *)
(* TLC, and RegisteredIsStored is false.                                   *)
(***************************************************************************)
EXTENDS Upload, TLAPS

Labels == Ended \union {"idle", "exists", "put", "register", "cleanup", "detail", "announce"}
Undone(u) == pc[u] \in {"cleanup", "failed"}

\* What an upload knows of its registration, and what its registration is.
CallsFit ==
    \A u \in Uploads :
        /\ pc[u] \in {"idle", "exists", "put"} => call[u] = "none"
        /\ pc[u] \in {"detail", "announce", "done"} => call[u] = "created"
        /\ pc[u] = "detail" => u \notin NewFiles
        /\ pc[u] = "done" => event[u] # "none"
        /\ event[u] # "none" => call[u] = "created"
        /\ call[u] = "created" <=> Registered(u)
        /\ Registered(u) => file[FileOf[u]] # "absent"

\* A cleanup deletes what its upload wrote.
WritesFit ==
    \A u \in Uploads :
        /\ written[u] \subseteq KeysOf(u)
        /\ deleting[u] \subseteq written[u]
        /\ deleting[u] # {} => pc[u] = "cleanup"
        /\ pc[u] = "idle" => pos[u] = 1

\* Without faults an upload fails when its registration was refused, or after the file
\* of its version was deleted.
FailuresFit ==
    faults = 0 => \A u \in Uploads :
        /\ pc[u] = "cleanup" => call[u] = "refused"
        /\ pc[u] = "failed" =>
            \/ call[u] = "refused"
            \/ u \notin NewFiles /\ call[u] = "created" /\ file[FileOf[u]] = "deleted"

\* The upload has found or written its chunk i, and has not failed.
HasSeen(u, i) ==
    /\ pc[u] # "idle" /\ ~ Undone(u)
    /\ pc[u] \in {"exists", "put"} => i < pos[u]

SeenWasRewritten ==
    \A u \in Uploads : \A i \in DOMAIN Content[u] :
        HasSeen(u, i) /\ Content[u][i] \notin objects =>
        \E v \in Uploads : Content[u][i] \in written[v] /\ Undone(v)

\* Without faults each object has an upload that wrote it and still answers for it.
Keeps(u, k) ==
    /\ k \in written[u]
    /\ pc[u] = "failed" => Registered(u)
    /\ pc[u] = "cleanup" => k \in deleting[u]

ObjectsAreKept == faults = 0 => \A k \in objects : \E u \in Uploads : Keeps(u, k)

IInv ==
    /\ TypeOK /\ CallsFit /\ WritesFit /\ FailuresFit
    /\ SeenWasRewritten /\ ObjectsAreKept

----------------------------------------------------------------------------
(***************************************************************************)
(* The model's data, and what keeps the parts of IInv about objects.       *)
(***************************************************************************)

LEMMA ContentType ==
    ASSUME NEW u \in Uploads
    PROVE  /\ Content[u] \in Seq(Keys) /\ Content[u] # <<>> /\ FileOf[u] \in Files
           /\ Len(Content[u]) \in Nat \ {0} /\ DOMAIN Content[u] = 1..Len(Content[u])
           /\ \A i \in DOMAIN Content[u] : Content[u][i] \in KeysOf(u)
           /\ \A i \in DOMAIN Content[u] : Content[u][i] \in Keys
           /\ \A k \in KeysOf(u) : \E i \in DOMAIN Content[u] : Content[u][i] = k
           /\ KeysOf(u) \subseteq Keys
<1>1. Content[u] \in Seq(Keys) /\ Content[u] # <<>> /\ FileOf[u] \in Files
    BY UploadAssumption, CatalogAssumption DEF Uploads
<1>2. Len(Content[u]) \in Nat \ {0} /\ DOMAIN Content[u] = 1..Len(Content[u])
    BY <1>1
<1>3. \A i \in DOMAIN Content[u] : Content[u][i] \in Keys
    BY <1>1, <1>2
<1> QED
    BY <1>1, <1>2, <1>3 DEF KeysOf, Range

LEMMA FaultIsCounted ==
    ASSUME TypeOK, Fault
    PROVE  faults' \in 0..MaxFaults /\ faults' # 0
BY UploadAssumption DEF TypeOK, Fault

\* A chunk that was seen stays, or was removed by an upload that wrote it and is undone.
LEMMA SeenStays ==
    ASSUME SeenWasRewritten,
           \A v \in Uploads : written[v] \subseteq written'[v],
           \A v \in Uploads : Undone(v) => Undone(v)',
           \A k \in objects \ objects' : \E v \in Uploads : k \in written[v] /\ Undone(v),
           \A u \in Uploads : \A i \in DOMAIN Content[u] :
               HasSeen(u, i)' => HasSeen(u, i) \/ Content[u][i] \in objects'
    PROVE  SeenWasRewritten'
<1> SUFFICES ASSUME NEW u \in Uploads, NEW i \in DOMAIN Content[u],
                    HasSeen(u, i)', Content[u][i] \notin objects'
             PROVE  \E v \in Uploads : Content[u][i] \in written'[v] /\ Undone(v)'
    BY DEF SeenWasRewritten
<1>1. HasSeen(u, i)
    OBVIOUS
<1>2. PICK v \in Uploads : Content[u][i] \in written[v] /\ Undone(v)
    BY <1>1 DEF SeenWasRewritten
<1> QED
    BY <1>2

\* Who answers for an object goes on doing so, and a new object has someone who does.
LEMMA KeptStay ==
    ASSUME ObjectsAreKept, faults' = 0 => faults = 0,
           faults' = 0 => \A k \in objects' \ objects : \E u \in Uploads : Keeps(u, k)',
           faults' = 0 => \A u \in Uploads : \A k \in objects' : Keeps(u, k) => Keeps(u, k)'
    PROVE  ObjectsAreKept'
BY DEF ObjectsAreKept

LEMMA AppendAddsToRange ==
    ASSUME NEW S, NEW s \in Seq(S), NEW e \in S
    PROVE  Append(s, e) \in Seq(S) /\ Range(Append(s, e)) = Range(s) \union {e}
<1>1. /\ Append(s, e) \in Seq(S) /\ Len(s) \in Nat
      /\ DOMAIN s = 1..Len(s) /\ DOMAIN Append(s, e) = 1..(Len(s) + 1)
      /\ Append(s, e)[Len(s) + 1] = e
      /\ \A i \in 1..Len(s) : Append(s, e)[i] = s[i]
    OBVIOUS
<1>2. \A i \in 1..(Len(s) + 1) : i \in 1..Len(s) \/ i = Len(s) + 1
    BY <1>1
<1>3. 1..Len(s) \subseteq 1..(Len(s) + 1) /\ Len(s) + 1 \in 1..(Len(s) + 1)
    BY <1>1
<1> QED
    BY <1>1, <1>2, <1>3 DEF Range

LEMMA RegistrationsStay ==
    ASSUME UNCHANGED versions, NEW u
    PROVE  Registered(u)' <=> Registered(u)
BY DEF Registered

----------------------------------------------------------------------------
(***************************************************************************)
(* Every step preserves IInv.                                              *)
(***************************************************************************)

\* The steps that only move an upload on.
LEMMA MovesOn ==
    ASSUME IInv, NEW u \in Uploads, NEW l, Goto(u, l),
           UNCHANGED <<catalog, pos, written, deleting, call, event>>,
           objects \subseteq objects', objects' \subseteq Keys,
           (UNCHANGED <<faults, objects>>) \/ Fault,
           \/ pc[u] = "idle" /\ l = "exists"
           \/ pc[u] = "exists" /\ l = "put"
           \/ pc[u] = "put" /\ l = "failed" /\ Fault
           \/ pc[u] = "cleanup" /\ l = "failed" /\ deleting[u] = {}
           \/ pc[u] = "detail" /\ l = "announce"
           \/ pc[u] = "detail" /\ l = "failed" /\ (Fault \/ file[FileOf[u]] # "live")
    PROVE  IInv'
<1>1. /\ pc \in [Uploads -> Labels]
      /\ pc' = [pc EXCEPT ![u] = l]
      /\ l \in Labels
    BY DEF IInv, TypeOK, Goto, Labels, Ended
<1>2. /\ pc' \in [Uploads -> Labels] /\ pc'[u] = l
      /\ \A v \in Uploads : v # u => pc'[v] = pc[v]
    BY <1>1
<1>3. \A v : Registered(v)' <=> Registered(v)
    BY RegistrationsStay DEF catalog
<1>4. faults' \in 0..MaxFaults /\ (faults' = 0 => UNCHANGED <<faults, objects>> /\ ~ Fault)
    BY FaultIsCounted DEF IInv, TypeOK
<1>5. TypeOK'
    BY <1>2, <1>4 DEF IInv, TypeOK, Labels, catalog
<1>6. CallsFit'
    BY <1>2, <1>3 DEF IInv, CallsFit, catalog
<1>7. WritesFit'
    BY <1>2 DEF IInv, WritesFit
<1>8. FailuresFit'
    <2>1. CASE pc[u] = "detail" /\ faults' = 0
        <3>1. /\ u \notin NewFiles /\ call[u] = "created" /\ file[FileOf[u]] # "absent"
            BY <2>1 DEF IInv, CallsFit
        <3>2. file[FileOf[u]] \in {"absent", "live", "deleted"}
            BY ContentType DEF IInv, TypeOK, FileStates
        <3>3. l = "failed" => file[FileOf[u]] = "deleted"
            BY <2>1, <3>1, <3>2, <1>4
        <3> QED
            BY <2>1, <3>1, <3>3, <1>2, <1>4 DEF IInv, FailuresFit, catalog
    <2>2. CASE pc[u] # "detail" \/ faults' # 0
        BY <2>2, <1>2, <1>4 DEF IInv, FailuresFit, catalog
    <2> QED
        BY <2>1, <2>2
<1>9. SeenWasRewritten'
    <2>1. \A v \in Uploads : Undone(v) => Undone(v)'
        BY <1>2 DEF Undone
    <2>2. \A v \in Uploads : \A i \in DOMAIN Content[v] : HasSeen(v, i)' => HasSeen(v, i)
        BY <1>2, ContentType DEF HasSeen, Undone, IInv, WritesFit
    <2> QED
        BY <2>1, <2>2, SeenStays DEF IInv
<1>10. ObjectsAreKept'
    <2>1. ASSUME faults' = 0, NEW k \in objects, Keeps(u, k)
          PROVE  Keeps(u, k)'
        BY <2>1, <1>2, <1>3, <1>4 DEF Keeps, IInv, CallsFit
    <2>2. ASSUME faults' = 0, NEW v \in Uploads, v # u, NEW k \in objects, Keeps(v, k)
          PROVE  Keeps(v, k)'
        BY <2>2, <1>2, <1>3 DEF Keeps
    <2> QED
        BY <2>1, <2>2, <1>4, KeptStay DEF IInv
<1> QED
    BY <1>5, <1>6, <1>7, <1>8, <1>9, <1>10 DEF IInv

\* Chunk pos[u] is stored, found or written; the upload goes to the next, or sends its
\* registration.
LEMMA ChunkStored ==
    ASSUME IInv, NEW u \in Uploads, pc[u] \in {"exists", "put"}, NextChunk(u),
           Content[u][pos[u]] \in objects',
           objects' \in {objects, objects \union {Content[u][pos[u]]}},
           written' \in {written, [written EXCEPT ![u] = @ \union {Content[u][pos[u]]}]},
           objects' = objects \/ Content[u][pos[u]] \in written'[u],
           UNCHANGED <<catalog, deleting, event, faults>>
    PROVE  IInv'
<1> DEFINE here == Content[u][pos[u]]
           c == IF u \in NewFiles THEN "create" ELSE "lookup"
<1>1. PICK l \in {"exists", "register"} :
        /\ Goto(u, l)
        /\ l = "exists" => /\ pos[u] < Len(Content[u]) /\ UNCHANGED call
                           /\ pos' = [pos EXCEPT ![u] = @ + 1]
        /\ l = "register" => /\ pos[u] >= Len(Content[u]) /\ UNCHANGED pos
                             /\ call' = [call EXCEPT ![u] = c]
    <2>1. pos[u] \in Nat /\ Len(Content[u]) \in Nat
        BY ContentType DEF IInv, TypeOK
    <2>2. CASE pos[u] < Len(Content[u])
        BY <2>2, <2>1 DEF NextChunk
    <2>3. CASE ~ (pos[u] < Len(Content[u]))
        BY <2>3, <2>1 DEF NextChunk
    <2> QED
        BY <2>2, <2>3
<1>2. /\ pos[u] \in 1..Len(Content[u]) /\ Len(Content[u]) \in Nat
      /\ here \in KeysOf(u) /\ here \in Keys
    <2>1. pos[u] \in DOMAIN Content[u]
        BY DEF IInv, TypeOK
    <2> QED
        BY <2>1, ContentType
<1> HIDE DEF here
<1>3. c \in {"create", "lookup"}
    OBVIOUS
<1> HIDE DEF c
<1>4. /\ pc' \in [Uploads -> Labels] /\ pc'[u] = l
      /\ \A v \in Uploads : v # u => pc'[v] = pc[v]
    BY <1>1 DEF IInv, TypeOK, Goto, Labels, Ended
<1>5. /\ call' \in [Uploads -> {"none", "create", "lookup", "append", "created", "refused"}]
      /\ l = "exists" => call'[u] = call[u]
      /\ l = "register" => call'[u] = c
      /\ \A v \in Uploads : v # u => call'[v] = call[v]
    BY <1>1, <1>3, ZenonT(60) DEF IInv, TypeOK
<1>6. /\ pos' \in [Uploads -> Nat]
      /\ l = "exists" => pos'[u] = pos[u] + 1 /\ pos[u] < Len(Content[u])
      /\ l = "register" => pos'[u] = pos[u] /\ pos[u] = Len(Content[u])
      /\ \A v \in Uploads : v # u => pos'[v] = pos[v]
    <2>1. pos \in [Uploads -> Nat]
        BY DEF IInv, TypeOK
    <2>2. CASE l = "exists"
        BY <2>1, <2>2, <1>1
    <2>3. CASE l = "register"
        BY <2>1, <2>3, <1>1, <1>2
    <2> QED
        BY <2>2, <2>3
<1>7. /\ written' \in [Uploads -> SUBSET Keys]
      /\ written[u] \subseteq written'[u] /\ written'[u] \subseteq written[u] \union {here}
      /\ \A v \in Uploads : v # u => written'[v] = written[v]
    BY <1>2 DEF IInv, TypeOK, here
<1>8. /\ objects \subseteq objects' /\ objects' \subseteq objects \union {here}
      /\ here \in objects' /\ (objects' = objects \/ here \in written'[u])
    BY DEF here
<1>9. \A v : Registered(v)' <=> Registered(v)
    BY RegistrationsStay DEF catalog
<1>10. call[u] = "none" /\ ~ Registered(u) /\ event[u] = "none"
    BY DEF IInv, CallsFit, TypeOK
<1>11. TypeOK'
    <2>1. \A v \in Uploads : pos'[v] \in DOMAIN Content[v]
        <3>1. pos'[u] \in 1..Len(Content[u])
            BY <1>2, <1>6
        <3> QED
            BY <3>1, <1>6, ContentType DEF IInv, TypeOK
    <2>2. objects' \subseteq Keys
        BY <1>2, <1>8 DEF IInv, TypeOK
    <2> QED
        BY <2>1, <2>2, <1>4, <1>5, <1>6, <1>7 DEF IInv, TypeOK, Labels, catalog
<1>12. CallsFit'
    BY <1>3, <1>4, <1>5, <1>9, <1>10 DEF IInv, CallsFit, catalog
<1>13. WritesFit'
    BY <1>2, <1>4, <1>6, <1>7 DEF IInv, WritesFit
<1>14. FailuresFit'
    BY <1>4, <1>5 DEF IInv, FailuresFit, catalog
<1>15. SeenWasRewritten'
    <2>1. \A v \in Uploads : Undone(v) => Undone(v)'
        BY <1>4 DEF Undone
    <2>2. ASSUME NEW i \in DOMAIN Content[u], HasSeen(u, i)'
          PROVE  HasSeen(u, i) \/ Content[u][i] \in objects'
        <3>1. i \in 1..Len(Content[u])
            BY ContentType
        <3>2. i <= pos[u]
            BY <2>2, <3>1, <1>2, <1>4, <1>6 DEF HasSeen
        <3>3. CASE i = pos[u]
            BY <3>3, <1>8 DEF here
        <3>4. CASE i < pos[u]
            BY <3>4 DEF HasSeen, Undone
        <3> QED
            BY <3>1, <3>2, <3>3, <3>4, <1>2
    <2>3. \A v \in Uploads : v # u => \A i \in DOMAIN Content[v] :
            HasSeen(v, i)' => HasSeen(v, i)
        BY <1>4, <1>6 DEF HasSeen, Undone
    <2>4. \A v \in Uploads : written[v] \subseteq written'[v]
        BY <1>7
    <2>5. objects \ objects' = {}
        BY <1>8
    <2> QED
        BY <2>1, <2>2, <2>3, <2>4, <2>5, SeenStays DEF IInv
<1>16. ObjectsAreKept'
    <2>1. ASSUME NEW v \in Uploads, NEW k \in objects', Keeps(v, k)
          PROVE  Keeps(v, k)'
        BY <2>1, <1>4, <1>7, <1>9 DEF Keeps
    <2>2. \A k \in objects' \ objects : Keeps(u, k)'
        BY <1>4, <1>8 DEF Keeps
    <2> QED
        BY <2>1, <2>2, KeptStay DEF IInv
<1> QED
    BY <1>11, <1>12, <1>13, <1>14, <1>15, <1>16 DEF IInv

LEMMA StoreStep ==
    ASSUME IInv, NEW u \in Uploads, Start(u) \/ Store(u)
    PROVE  IInv'
<1>1. Content[u][pos[u]] \in Keys /\ objects \subseteq Keys
    BY ContentType DEF IInv, TypeOK
<1>2. CASE Start(u)
    BY <1>1, <1>2, MovesOn DEF Start
<1>3. CASE ExistsFails(u)
    BY <1>1, <1>3, MovesOn DEF ExistsFails
<1>4. CASE PutFails(u)
    <2>1. objects \subseteq objects' /\ objects' \subseteq Keys
        BY <1>1, <1>4 DEF PutFails
    <2> QED
        BY <2>1, <1>4, MovesOn DEF PutFails
<1>5. CASE ChunkExists(u) /\ Content[u][pos[u]] \notin objects
    BY <1>1, <1>5, MovesOn DEF ChunkExists
<1>6. CASE ChunkExists(u) /\ Content[u][pos[u]] \in objects
    BY <1>6, ChunkStored DEF ChunkExists
<1>7. CASE PutChunk(u)
    <2>1. Content[u][pos[u]] \in written'[u]
        BY <1>7 DEF PutChunk, IInv, TypeOK
    <2> QED
        BY <2>1, <1>7, ChunkStored DEF PutChunk
<1> QED
    BY <1>2, <1>3, <1>4, <1>5, <1>6, <1>7 DEF Store

\* Metadata-service's own steps: the uploads and the bucket do not see them.
LEMMA CallStep ==
    ASSUME IInv, NEW u \in Uploads, Metadata(u)
    PROVE  IInv'
<1>1. /\ UNCHANGED <<objects, pc, pos, written, deleting, event, faults>>
      /\ call[u] \in {"create", "lookup", "append"}
    BY DEF Metadata, CallCreatesFile, CallFindsFile, CallAppends, CallRefused, uploads
<1>2. PICK l \in {"append", "created", "refused"} :
        /\ call' = [call EXCEPT ![u] = l]
        /\ l = "created" => AppendVersion(u)
        /\ l # "created" => CreateFile(FileOf[u]) \/ UNCHANGED catalog
    BY DEF Metadata, CallCreatesFile, CallFindsFile, CallAppends, CallRefused
<1>3. /\ call' \in [Uploads -> {"none", "create", "lookup", "append", "created", "refused"}]
      /\ call'[u] = l /\ \A v \in Uploads : v # u => call'[v] = call[v]
    BY <1>2 DEF IInv, TypeOK
<1>4. FileOf[u] \in Files /\ \A v \in Uploads : FileOf[v] \in Files
    BY ContentType
<1>5. /\ file' \in [Files -> FileStates]
      /\ \A f \in Files : file[f] # "absent" => file'[f] = file[f]
      /\ l = "created" => file'[FileOf[u]] # "absent"
    <2>1. file \in [Files -> FileStates]
        BY DEF IInv, TypeOK
    <2>2. CASE l = "created"
        BY <2>1, <2>2, <1>2 DEF AppendVersion
    <2>3. CASE l # "created"
        BY <2>1, <2>3, <1>2 DEF CreateFile, FileStates, catalog
    <2> QED
        BY <2>2, <2>3
<1>6. /\ versions' \in [Files -> Seq(Uploads)]
      /\ \A v \in Uploads : v # u => (Registered(v)' <=> Registered(v))
      /\ l = "created" => Registered(u)'
      /\ l # "created" => (Registered(u)' <=> Registered(u))
    <2>1. CASE l # "created"
        <3>1. UNCHANGED versions
            BY <2>1, <1>2 DEF CreateFile, catalog
        <3> QED
            BY <2>1, <3>1, RegistrationsStay DEF IInv, TypeOK
    <2>2. CASE l = "created"
        <3> DEFINE s == versions[FileOf[u]]
        <3>1. /\ versions \in [Files -> Seq(Uploads)]
              /\ versions' = [versions EXCEPT ![FileOf[u]] = Append(s, u)]
            BY <2>2, <1>2 DEF IInv, TypeOK, AppendVersion
        <3>2. s \in Seq(Uploads)
            BY <3>1, <1>4
        <3>3. Append(s, u) \in Seq(Uploads) /\ Range(Append(s, u)) = Range(s) \union {u}
            BY <3>2, AppendAddsToRange
        <3>4. \A f \in Files : versions'[f] = IF f = FileOf[u] THEN Append(s, u)
                                              ELSE versions[f]
            BY <3>1
        <3>5. \A v \in Uploads : Range(versions'[FileOf[v]]) =
                IF FileOf[v] = FileOf[u] THEN Range(versions[FileOf[v]]) \union {u}
                ELSE Range(versions[FileOf[v]])
            BY <3>3, <3>4, <1>4
        <3>6. versions' \in [Files -> Seq(Uploads)]
            BY <3>1, <3>3
        <3> HIDE DEF s
        <3> QED
            BY <3>5, <3>6, <2>2 DEF Registered
    <2> QED
        BY <2>1, <2>2
<1>7. /\ ~ Registered(u) /\ event[u] = "none"
      /\ pc[u] \notin {"idle", "exists", "put", "detail", "announce", "done"}
    BY <1>1 DEF IInv, CallsFit, TypeOK
<1>8. TypeOK'
    BY <1>1, <1>3, <1>5, <1>6 DEF IInv, TypeOK
<1>9. CallsFit'
    BY <1>1, <1>3, <1>4, <1>5, <1>6, <1>7 DEF IInv, CallsFit
<1>10. WritesFit'
    BY <1>1 DEF IInv, WritesFit
<1>11. FailuresFit'
    BY <1>1, <1>3, <1>4, <1>5, <1>7 DEF IInv, FailuresFit
<1>12. SeenWasRewritten'
    BY <1>1 DEF IInv, SeenWasRewritten, HasSeen, Undone
<1>13. ObjectsAreKept'
    <2>1. \A v \in Uploads : \A k : Keeps(v, k) => Keeps(v, k)'
        BY <1>1, <1>6, <1>7 DEF Keeps
    <2> QED
        BY <1>1, <2>1 DEF IInv, ObjectsAreKept
<1> QED
    BY <1>8, <1>9, <1>10, <1>11, <1>12, <1>13 DEF IInv

LEMMA UserDeletesStep ==
    ASSUME IInv, NEW f \in Files, UserDeletesFile(f)
    PROVE  IInv'
<1>1. /\ file' = [file EXCEPT ![f] = "deleted"] /\ file[f] = "live"
      /\ UNCHANGED <<versions, objects, pc, pos, written, deleting, call, event, faults>>
    BY DEF UserDeletesFile, SoftDelete, uploads
<1>2. /\ file' \in [Files -> FileStates]
      /\ \A g \in Files : file[g] # "absent" => file'[g] # "absent"
      /\ \A g \in Files : file[g] = "deleted" => file'[g] = "deleted"
    BY <1>1 DEF IInv, TypeOK, FileStates
<1>3. \A v \in Uploads : FileOf[v] \in Files
    BY ContentType
<1>4. \A v : Registered(v)' <=> Registered(v)
    BY <1>1, RegistrationsStay
<1>5. TypeOK'
    BY <1>1, <1>2 DEF IInv, TypeOK
<1>6. CallsFit'
    BY <1>1, <1>2, <1>3, <1>4 DEF IInv, CallsFit
<1>7. WritesFit'
    BY <1>1 DEF IInv, WritesFit
<1>8. FailuresFit'
    BY <1>1, <1>2, <1>3 DEF IInv, FailuresFit
<1>9. SeenWasRewritten'
    BY <1>1 DEF IInv, SeenWasRewritten, HasSeen, Undone
<1>10. ObjectsAreKept'
    BY <1>1, <1>4 DEF IInv, ObjectsAreKept, Keeps
<1> QED
    BY <1>5, <1>6, <1>7, <1>8, <1>9, <1>10 DEF IInv

\* An upload that was refused, or heard nothing, deletes what it wrote.
LEMMA CleanUpStep ==
    ASSUME IInv, NEW u \in Uploads, pc[u] = "register", CleanUp(u),
           UNCHANGED <<catalog, objects, pos, written, call, event>>,
           (call[u] = "refused" /\ UNCHANGED faults) \/ Fault
    PROVE  IInv'
<1>1. /\ pc' \in [Uploads -> Labels] /\ pc'[u] = "cleanup"
      /\ \A v \in Uploads : v # u => pc'[v] = pc[v]
    BY DEF IInv, TypeOK, CleanUp, Goto, Labels, Ended
<1>2. /\ deleting' \in [Uploads -> SUBSET Keys] /\ deleting'[u] = written[u]
      /\ \A v \in Uploads : v # u => deleting'[v] = deleting[v]
    BY DEF IInv, TypeOK, CleanUp
<1>3. \A v : Registered(v)' <=> Registered(v)
    BY RegistrationsStay DEF catalog
<1>4. faults' \in 0..MaxFaults /\ (faults' = 0 => UNCHANGED faults /\ call[u] = "refused")
    BY FaultIsCounted DEF IInv, TypeOK
<1>5. TypeOK'
    BY <1>1, <1>2, <1>4 DEF IInv, TypeOK, Labels, catalog
<1>6. CallsFit'
    BY <1>1, <1>3 DEF IInv, CallsFit, catalog
<1>7. WritesFit'
    BY <1>1, <1>2 DEF IInv, WritesFit
<1>8. FailuresFit'
    BY <1>1, <1>4 DEF IInv, FailuresFit, catalog
<1>9. SeenWasRewritten'
    <2>1. \A v \in Uploads : Undone(v) => Undone(v)'
        BY <1>1 DEF Undone
    <2>2. \A v \in Uploads : \A i \in DOMAIN Content[v] : HasSeen(v, i)' => HasSeen(v, i)
        BY <1>1 DEF HasSeen, Undone
    <2> QED
        BY <2>1, <2>2, SeenStays DEF IInv
<1>10. ObjectsAreKept'
    <2>1. \A v \in Uploads : \A k \in objects : Keeps(v, k) => Keeps(v, k)'
        BY <1>1, <1>2, <1>3 DEF Keeps
    <2> QED
        BY <2>1, <1>4, KeptStay DEF IInv
<1> QED
    BY <1>5, <1>6, <1>7, <1>8, <1>9, <1>10 DEF IInv

LEMMA AcceptedStep ==
    ASSUME IInv, NEW u \in Uploads, pc[u] = "register", call[u] = "created", Accepted(u),
           UNCHANGED <<catalog, objects, pos, written, call, event, faults>>
    PROVE  IInv'
<1>1. PICK l \in {"announce", "detail"} : Goto(u, l) /\ (l = "detail" => u \notin NewFiles)
    BY DEF Accepted
<1>2. UNCHANGED deleting
    BY DEF Accepted
<1>3. /\ pc' \in [Uploads -> Labels] /\ pc'[u] = l
      /\ \A v \in Uploads : v # u => pc'[v] = pc[v]
    BY <1>1 DEF IInv, TypeOK, Goto, Labels, Ended
<1>4. \A v : Registered(v)' <=> Registered(v)
    BY RegistrationsStay DEF catalog
<1>5. TypeOK'
    BY <1>2, <1>3 DEF IInv, TypeOK, Labels, catalog
<1>6. CallsFit'
    BY <1>1, <1>3, <1>4 DEF IInv, CallsFit, catalog
<1>7. WritesFit'
    BY <1>2, <1>3 DEF IInv, WritesFit
<1>8. FailuresFit'
    BY <1>3 DEF IInv, FailuresFit, catalog
<1>9. SeenWasRewritten'
    <2>1. \A v \in Uploads : Undone(v) => Undone(v)'
        BY <1>3 DEF Undone
    <2>2. \A v \in Uploads : \A i \in DOMAIN Content[v] : HasSeen(v, i)' => HasSeen(v, i)
        BY <1>3 DEF HasSeen, Undone
    <2> QED
        BY <2>1, <2>2, SeenStays DEF IInv
<1>10. ObjectsAreKept'
    <2>1. \A v \in Uploads : \A k \in objects : Keeps(v, k) => Keeps(v, k)'
        BY <1>2, <1>3, <1>4 DEF Keeps
    <2> QED
        BY <2>1, KeptStay DEF IInv
<1> QED
    BY <1>5, <1>6, <1>7, <1>8, <1>9, <1>10 DEF IInv

LEMMA DeleteStep ==
    ASSUME IInv, NEW u \in Uploads, NEW k \in Keys, DeleteChunk(u, k) \/ DeleteFails(u, k)
    PROVE  IInv'
<1>1. /\ k \in deleting[u] /\ pc[u] = "cleanup"
      /\ objects' \in {objects, objects \ {k}}
      /\ (objects' = objects \ {k} /\ UNCHANGED faults) \/ Fault
      /\ deleting' = [deleting EXCEPT ![u] = @ \ {k}]
      /\ UNCHANGED <<catalog, pc, pos, written, call, event>>
    BY DEF DeleteChunk, DeleteFails
<1>2. /\ deleting' \in [Uploads -> SUBSET Keys] /\ deleting'[u] = deleting[u] \ {k}
      /\ \A v \in Uploads : v # u => deleting'[v] = deleting[v]
    BY <1>1 DEF IInv, TypeOK
<1>3. \A v : Registered(v)' <=> Registered(v)
    BY <1>1, RegistrationsStay DEF catalog
<1>4. /\ faults' \in 0..MaxFaults
      /\ faults' = 0 => UNCHANGED faults /\ objects' = objects \ {k}
    BY <1>1, FaultIsCounted DEF IInv, TypeOK
<1>5. TypeOK'
    BY <1>1, <1>2, <1>4 DEF IInv, TypeOK, catalog
<1>6. CallsFit'
    BY <1>1, <1>3 DEF IInv, CallsFit, catalog
<1>7. WritesFit'
    BY <1>1, <1>2 DEF IInv, WritesFit
<1>8. FailuresFit'
    BY <1>1, <1>4 DEF IInv, FailuresFit, catalog
<1>9. SeenWasRewritten'
    <2>1. \A v \in Uploads : (Undone(v) <=> Undone(v)')
        BY <1>1 DEF Undone
    <2>2. \A v \in Uploads : \A i \in DOMAIN Content[v] : HasSeen(v, i)' => HasSeen(v, i)
        BY <1>1, <2>1 DEF HasSeen
    <2>3. k \in written[u] /\ Undone(u) /\ objects \ objects' \subseteq {k}
        BY <1>1 DEF IInv, WritesFit, Undone
    <2> QED
        BY <1>1, <2>1, <2>2, <2>3, SeenStays DEF IInv
<1>10. ObjectsAreKept'
    <2>1. ASSUME faults' = 0, NEW v \in Uploads, NEW j \in objects', Keeps(v, j)
          PROVE  Keeps(v, j)'
        BY <2>1, <1>1, <1>2, <1>3, <1>4 DEF Keeps
    <2> QED
        BY <2>1, <1>1, <1>4, KeptStay DEF IInv
<1> QED
    BY <1>5, <1>6, <1>7, <1>8, <1>9, <1>10 DEF IInv

LEMMA AnnounceStep ==
    ASSUME IInv, NEW u \in Uploads, Announce(u) \/ AnnounceFails(u)
    PROVE  IInv'
<1>1. PICK e \in {"sent", "unsent"} : event' = [event EXCEPT ![u] = e]
    BY DEF Announce, AnnounceFails
<1>2. /\ pc[u] = "announce" /\ Goto(u, "done")
      /\ UNCHANGED <<catalog, objects, pos, written, deleting, call>>
      /\ UNCHANGED faults \/ Fault
    BY DEF Announce, AnnounceFails
<1>3. /\ pc' \in [Uploads -> Labels] /\ pc'[u] = "done"
      /\ \A v \in Uploads : v # u => pc'[v] = pc[v]
    BY <1>2 DEF IInv, TypeOK, Goto, Labels, Ended
<1>4. /\ event' \in [Uploads -> {"none", "sent", "unsent"}] /\ event'[u] = e
      /\ \A v \in Uploads : v # u => event'[v] = event[v]
    BY <1>1 DEF IInv, TypeOK
<1>5. \A v : Registered(v)' <=> Registered(v)
    BY <1>2, RegistrationsStay DEF catalog
<1>6. faults' \in 0..MaxFaults /\ (faults' = 0 => UNCHANGED faults)
    BY <1>2, FaultIsCounted DEF IInv, TypeOK
<1>7. TypeOK'
    BY <1>2, <1>3, <1>4, <1>6 DEF IInv, TypeOK, Labels, catalog
<1>8. CallsFit'
    BY <1>2, <1>3, <1>4, <1>5 DEF IInv, CallsFit, catalog
<1>9. WritesFit'
    BY <1>2, <1>3 DEF IInv, WritesFit
<1>10. FailuresFit'
    BY <1>2, <1>3, <1>6 DEF IInv, FailuresFit, catalog
<1>11. SeenWasRewritten'
    <2>1. \A v \in Uploads : Undone(v) => Undone(v)'
        BY <1>2, <1>3 DEF Undone
    <2>2. \A v \in Uploads : \A i \in DOMAIN Content[v] : HasSeen(v, i)' => HasSeen(v, i)
        BY <1>2, <1>3 DEF HasSeen, Undone
    <2> QED
        BY <1>2, <2>1, <2>2, SeenStays DEF IInv
<1>12. ObjectsAreKept'
    <2>1. \A v \in Uploads : \A k \in objects : Keeps(v, k) => Keeps(v, k)'
        BY <1>2, <1>3, <1>5 DEF Keeps
    <2> QED
        BY <1>2, <2>1, <1>6, KeptStay DEF IInv
<1> QED
    BY <1>7, <1>8, <1>9, <1>10, <1>11, <1>12 DEF IInv

LEMMA CrashStep ==
    ASSUME IInv, Crash
    PROVE  IInv'
<1>1. PICK gone \in SUBSET UNION {deleting[v] : v \in Uploads} : objects' = objects \ gone
    BY DEF Crash
<1>2. /\ UNCHANGED <<catalog, pos, written, call, event>>
      /\ deleting' = [v \in Uploads |-> {}]
      /\ faults' \in 0..MaxFaults /\ faults' # 0
    BY FaultIsCounted DEF Crash, IInv
<1>3. /\ pc' \in [Uploads -> Labels]
      /\ \A v \in Uploads :
            \/ pc'[v] = pc[v] /\ pc[v] \in {"done", "failed", "idle"}
            \/ pc'[v] = "failed" /\ pc[v] \notin {"done", "failed", "idle"}
    <2>1. pc \in [Uploads -> Labels]
        BY DEF IInv, TypeOK, Labels
    <2>2. pc' = [v \in Uploads |-> IF pc[v] \in {"done", "failed", "idle"} THEN pc[v]
                                  ELSE "failed"]
        BY DEF Crash, Ended
    <2>3. "failed" \in Labels
        BY DEF Labels, Ended
    <2>4. pc' \in [Uploads -> Labels]
        BY <2>1, <2>2, <2>3
    <2> QED
        BY <2>2, <2>4
<1>4. \A v : Registered(v)' <=> Registered(v)
    BY <1>2, RegistrationsStay DEF catalog
<1>5. TypeOK'
    BY <1>1, <1>2, <1>3 DEF IInv, TypeOK, Labels, catalog
<1>6. CallsFit'
    BY <1>2, <1>3, <1>4 DEF IInv, CallsFit, catalog
<1>7. WritesFit'
    BY <1>2, <1>3 DEF IInv, WritesFit
<1>8. SeenWasRewritten'
    <2>1. \A v \in Uploads : Undone(v) => Undone(v)'
        BY <1>3 DEF Undone
    <2>2. \A v \in Uploads : \A i \in DOMAIN Content[v] : HasSeen(v, i)' => HasSeen(v, i)
        BY <1>2, <1>3 DEF HasSeen, Undone
    <2>3. ASSUME NEW k \in objects \ objects'
          PROVE  \E v \in Uploads : k \in written[v] /\ Undone(v)
        <3>1. PICK v \in Uploads : k \in deleting[v]
            BY <1>1
        <3>2. k \in written[v] /\ pc[v] = "cleanup"
            BY <3>1 DEF IInv, WritesFit
        <3> QED
            BY <3>2 DEF Undone
    <2> QED
        BY <1>2, <2>1, <2>2, <2>3, SeenStays DEF IInv
<1>9. FailuresFit' /\ ObjectsAreKept'
    BY <1>2 DEF FailuresFit, ObjectsAreKept
<1> QED
    BY <1>5, <1>6, <1>7, <1>8, <1>9 DEF IInv

LEMMA FinishStep ==
    ASSUME IInv, NEW u \in Uploads, Finish(u) \/ CleanupEnds(u)
    PROVE  IInv'
<1>1. objects \subseteq Keys
    BY DEF IInv, TypeOK
<1>2. CASE Answer(u) /\ call[u] = "created"
    BY <1>2, AcceptedStep DEF Answer
<1>3. CASE Answer(u) /\ call[u] # "created"
    BY <1>3, CleanUpStep DEF Answer
<1>4. CASE AnswerLost(u)
    BY <1>4, CleanUpStep DEF AnswerLost
<1>5. CASE GetFileDetail(u)
    BY <1>1, <1>5, MovesOn DEF GetFileDetail
<1>6. CASE DetailFails(u)
    BY <1>1, <1>6, MovesOn DEF DetailFails
<1>7. CASE CleanupEnds(u)
    BY <1>1, <1>7, MovesOn DEF CleanupEnds
<1> QED
    BY <1>2, <1>3, <1>4, <1>5, <1>6, <1>7, AnnounceStep DEF Finish

LEMMA InitHolds == Init => IInv
<1> SUFFICES ASSUME Init PROVE IInv
    OBVIOUS
<1>1. \A u \in Uploads : ~ Registered(u)
    BY ContentType DEF Init, CatalogInit, Registered, Range
<1>2. TypeOK
    <2>1. \A u \in Uploads : pos[u] \in DOMAIN Content[u]
        BY ContentType DEF Init
    <2> QED
        BY <2>1, UploadAssumption DEF Init, CatalogInit, TypeOK, FileStates
<1>3. CallsFit /\ WritesFit /\ FailuresFit
    BY <1>1 DEF Init, CallsFit, WritesFit, FailuresFit
<1>4. SeenWasRewritten /\ ObjectsAreKept
    BY DEF Init, SeenWasRewritten, HasSeen, ObjectsAreKept
<1> QED
    BY <1>2, <1>3, <1>4 DEF IInv

\* Whatever an upload, metadata-service, a user or a crash does, IInv goes on holding.
LEMMA StepKeepsInv == IInv /\ [Next]_vars => IInv'
<1> SUFFICES ASSUME IInv, [Next]_vars PROVE IInv'
    OBVIOUS
<1>1. ASSUME NEW u \in Uploads,
             Start(u) \/ Store(u) \/ Metadata(u) \/ Finish(u) \/ CleanupStep(u)
      PROVE  IInv'
    BY <1>1, StoreStep, CallStep, FinishStep, DeleteStep DEF CleanupStep
<1>2. CASE UNCHANGED vars
    <2>1. /\ UNCHANGED <<catalog, objects, pc, pos, written, deleting, call, event, faults>>
          /\ \A v : Registered(v)' <=> Registered(v)
        BY <1>2, RegistrationsStay DEF vars, uploads, catalog
    <2>2. TypeOK' /\ WritesFit' /\ FailuresFit'
        BY <2>1 DEF IInv, TypeOK, WritesFit, FailuresFit, catalog
    <2>3. CallsFit' /\ ObjectsAreKept'
        BY <2>1 DEF IInv, CallsFit, ObjectsAreKept, Keeps, catalog
    <2>4. SeenWasRewritten'
        BY <2>1 DEF IInv, SeenWasRewritten, HasSeen, Undone
    <2> QED
        BY <2>2, <2>3, <2>4 DEF IInv
<1> QED
    BY <1>1, <1>2, UserDeletesStep, CrashStep DEF Next

----------------------------------------------------------------------------
(***************************************************************************)
(* What the runs check on small instances, for every instance.             *)
(***************************************************************************)

\* The inductive invariant holds in every state of every execution.
THEOREM Inductive == Spec => []IInv
BY InitHolds, StepKeepsInv, PTL DEF Spec

\* The variables of the uploads keep their types: an upload never reaches past its last
\* chunk, and every deletion is of a key that its upload handles.
THEOREM TypeCorrect == Spec => []TypeOK
<1>1. IInv => TypeOK
    BY DEF IInv
<1> QED
    BY <1>1, Inductive, PTL

\* A chunk of a successful upload that is gone from the bucket was written by another
\* upload too, which failed and deleted it: the cleanup of handleUpload deletes no chunk
\* that it only found.
THEOREM MissingChunksWereRewritten == Spec => []MissingWasRewritten
<1>1. IInv => MissingWasRewritten
    <2> SUFFICES ASSUME IInv, NEW u \in Uploads, NEW k \in KeysOf(u) \ objects, pc[u] = "done"
                 PROVE  \E v \in Uploads \ {u} :
                            k \in written[v] /\ pc[v] \in {"cleanup", "failed"}
        BY DEF MissingWasRewritten
    <2>1. PICK i \in DOMAIN Content[u] : Content[u][i] = k
        BY ContentType
    <2>2. HasSeen(u, i)
        BY DEF HasSeen, Undone
    <2>3. PICK v \in Uploads : k \in written[v] /\ Undone(v)
        BY <2>1, <2>2 DEF IInv, SeenWasRewritten
    <2> QED
        BY <2>3 DEF Undone
<1> QED
    BY <1>1, Inductive, PTL

\* Without faults, once all uploads have ended every object is of a registered version:
\* what refused uploads wrote, and only they, is deleted.
THEOREM NothingIsLeftBehind == Spec => []NothingLeftBehind
<1>1. IInv => NothingLeftBehind
    <2> SUFFICES ASSUME IInv, faults = 0, \A u \in Uploads : pc[u] \in Ended,
                        NEW k \in objects
                 PROVE  \E u \in Uploads : Registered(u) /\ k \in KeysOf(u)
        BY DEF NothingLeftBehind
    <2>1. PICK u \in Uploads : Keeps(u, k)
        BY DEF IInv, ObjectsAreKept
    <2>2. k \in KeysOf(u)
        BY <2>1 DEF Keeps, IInv, WritesFit
    <2>3. Registered(u)
        BY <2>1 DEF Keeps, Ended, IInv, CallsFit
    <2> QED
        BY <2>2, <2>3
<1> QED
    BY <1>1, Inductive, PTL

\* What handleUpload answers and announces agrees with the catalog, whatever answers got
\* lost.
THEOREM AnswersAgree == Spec => []AnswersAreTrue
<1>1. IInv => AnswersAreTrue
    <2> SUFFICES ASSUME IInv, NEW u \in Uploads
                 PROVE  /\ pc[u] = "done" \/ event[u] = "sent" => Registered(u)
                        /\ pc[u] = "done" => event[u] # "none"
                        /\ faults = 0 /\ pc[u] = "failed" /\ Registered(u) =>
                            u \notin NewFiles /\ file[FileOf[u]] = "deleted"
        BY DEF AnswersAreTrue
    <2>1. /\ pc[u] = "done" \/ event[u] = "sent" => Registered(u)
          /\ pc[u] = "done" => event[u] # "none"
        BY DEF IInv, CallsFit
    <2>2. ASSUME faults = 0, pc[u] = "failed", Registered(u)
          PROVE  u \notin NewFiles /\ file[FileOf[u]] = "deleted"
        BY <2>2 DEF IInv, CallsFit, FailuresFit
    <2> QED
        BY <2>1, <2>2
<1> QED
    BY <1>1, Inductive, PTL
=============================================================================
