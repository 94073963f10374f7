----------------------------- MODULE Dashboard -----------------------------
(***************************************************************************)
(* The dashboard page of one tab, mounted and unmounted, and what it reads *)
(* from ai-analytics-service and metadata-service: the overview and the    *)
(* table of files, loaded together at first and after each upload; the     *)
(* search box, whose answers filter the table; downloads.                  *)
(*                                                                         *)
(* Not covered: what an upload does in storage-service (Upload) and in     *)
(* metadata-service (FileService); access counts (EventBus) and the scores *)
(* made of them (Analytics); deletions, which no page offers.     *)
(***************************************************************************)
EXTENDS Browser, FiniteSets

CONSTANTS
    Files,              \* the uploads: each one makes a file of its own
    Queries,            \* what is typed, trimmed
    NoQuery,            \* the empty one
    Match,              \* Match[q]: the files whose name contains q
    Searches            \* bound: searches in flight

ASSUME DashboardAssumption ==
    /\ IsFiniteSet(Files)
    /\ NoQuery \notin Queries
    /\ Match \in [Queries -> SUBSET Files]

VARIABLES
    owner,              \* the files table: owner[f], or Nobody
    page,               \* isLoading, isUploading and what the page waits for; barred:
                        \* mounted without a session, it asks for nothing
    load,               \* loadData's two requests
    upload,             \* the upload request
    view,               \* overview's total and the rows; of: whose (auxiliary)
    error,              \* is a message shown?
    mine,               \* the files this page was told it uploaded (auxiliary)
    query, timer,       \* the search box, and its timer of 250 ms
    search,             \* searches in flight; live: not cancelled; due: the files of
                        \* mine that its answer has to name (auxiliary)
    matched,            \* matchedIds; on: not null; due: as in the search (auxiliary)
    missed              \* did the search for this query fail? (auxiliary)

dashboard == <<owner, page, load, upload, view, error, mine, query, timer, search,
               matched, missed>>
data == <<page, load, upload, view, mine>>
box == <<query, timer, search, matched, missed>>

Unasked == [what |-> "idle"]
LoadData(a) == [by |-> a, parts |-> {}, rows |-> {}, total |-> 0]

NoView == [of |-> Nobody, rows |-> {}, total |-> 0]
NoFilter == [on |-> FALSE, ids |-> {}, due |-> {}]

DashboardInit ==
    /\ owner = [f \in Files |-> Nobody]
    /\ page = "closed" /\ load = Unasked /\ upload = Unasked
    /\ view = NoView /\ error = FALSE /\ mine = {}
    /\ query = NoQuery /\ timer = FALSE /\ search = [s \in Searches |-> Unasked]
    /\ matched = NoFilter /\ missed = FALSE

\* The state a page is mounted with.
Fresh ==
    /\ upload' = Unasked
    /\ view' = NoView /\ error' = FALSE /\ mine' = {}
    /\ query' = NoQuery /\ timer' = FALSE /\ search' = [s \in Searches |-> Unasked]
    /\ matched' = NoFilter /\ missed' = FALSE

\* The mount effect calls loadData.
Mount(a) ==
    /\ page' = "loading" /\ load' = LoadData(a)
    /\ Fresh
    /\ UNCHANGED owner

\* The mount effect without a session.
MountBarred ==
    /\ page' = "barred" /\ load' = Unasked
    /\ Fresh
    /\ UNCHANGED owner

\* The answers a page waited for are ignored; its upload goes on, or not.
Unmount ==
    /\ page' = "closed" /\ load' = Unasked
    /\ Fresh
    /\ \/ UNCHANGED owner
       \/ upload.what = "sent" /\ owner' = [owner EXCEPT ![upload.file] = upload.by]

----------------------------------------------------------------------------
(* metadata-service and ai-analytics-service.                              *)

\* listFilesByOwner.
FilesOf(a) == {f \in Files : owner[f] = a}

\* searchByOwner.
Matching(a, q) == FilesOf(a) \intersect Match[q]

Reading(part) == page \in {"loading", "reloading"} /\ load.by # Nobody /\ part \notin load.parts

\* getFileRecommendations: one row for each file of the account.
ReadRows ==
    /\ Reading("rows")
    /\ load' = [load EXCEPT !.parts = @ \union {"rows"}, !.rows = FilesOf(load.by)]
    /\ UNCHANGED <<browser, owner, page, upload, view, error, mine, box>>

\* getOverview: getSystemStats counts the files of all accounts.
ReadOverview ==
    /\ Reading("total")
    /\ load' = [load EXCEPT !.parts = @ \union {"total"},
                            !.total = Cardinality({f \in Files : owner[f] # Nobody})]
    /\ UNCHANGED <<browser, owner, page, upload, view, error, mine, box>>

\* The upload is registered.
StoreUpload ==
    /\ upload.what = "sent" /\ upload.by # Nobody
    /\ owner' = [owner EXCEPT ![upload.file] = upload.by]
    /\ upload' = [upload EXCEPT !.what = "stored"]
    /\ UNCHANGED <<browser, page, load, view, error, mine, box>>

\* Another page or account uploads a file.
UploadElsewhere(f, a) ==
    /\ Act
    /\ owner[f] = Nobody /\ (upload # Unasked => f # upload.file)
    /\ owner' = [owner EXCEPT ![f] = a]
    /\ UNCHANGED <<session, faults, data, error, box>>

\* searchFiles.
ServeSearch(s) ==
    /\ search[s].what = "asked" /\ search[s].by # Nobody
    /\ search' = [search EXCEPT ![s].what = "served",
                                ![s].found = Matching(search[s].by, search[s].for)]
    /\ UNCHANGED <<browser, owner, data, error, query, timer, matched, missed>>

----------------------------------------------------------------------------
(* Loading and uploading: one after the other.                             *)

\* Not before the first load ends: until then there is a screen of its own.
Rendered == page \notin {"closed", "barred", "loading"}

\* The input for files is disabled while a file is uploaded and the data loaded again.
InputEnabled == page = "ready"

\* Promise.all has both answers.
ShowData ==
    /\ page \in {"loading", "reloading"}
    /\ load.parts = {"rows", "total"}
    /\ view' = [of |-> load.by, rows |-> load.rows, total |-> load.total]
    /\ page' = "ready"
    /\ load' = Unasked
    /\ UNCHANGED <<browser, owner, upload, error, mine, box>>

\* Promise.all rejects with the first failure: neither answer is shown.
LoadDataFails ==
    /\ page \in {"loading", "reloading"}
    /\ Fails(load.by)
    /\ error' = TRUE
    /\ page' = "ready"
    /\ load' = Unasked
    /\ UNCHANGED <<session, actions, owner, upload, view, mine, box>>

\* handleFileSelected, up to uploadFile.
SelectFile(f) ==
    /\ Act
    /\ InputEnabled
    /\ owner[f] = Nobody
    /\ page' = "uploading"
    /\ error' = FALSE
    /\ upload' = [what |-> "sent", file |-> f, by |-> session]
    /\ UNCHANGED <<session, faults, owner, load, view, mine, box>>

\* Slip: the data is not loaded again.
UploadedBug ==
    /\ upload.what = "stored"
    /\ mine' = mine \union {upload.file}
    /\ page' = "ready"
    /\ upload' = Unasked
    /\ UNCHANGED <<browser, owner, load, view, error, box>>

\* The rest of handleFileSelected: its loadData asks with the session of that moment.
Uploaded ==
    /\ upload.what = "stored"
    /\ mine' = mine \union {upload.file}
    /\ page' = "reloading"
    /\ error' = FALSE
    /\ load' = LoadData(session)
    /\ upload' = Unasked
    /\ UNCHANGED <<browser, owner, view, box>>

\* Slip: no finally, so the input stays disabled.
UploadFailsBug ==
    /\ page = "uploading"
    /\ Fails(upload.by)
    /\ error' = TRUE
    /\ upload' = Unasked
    /\ UNCHANGED <<session, actions, owner, page, load, view, mine, box>>

\* The upload is refused, or fails, or only its answer is lost: no reload.
UploadFails ==
    /\ page = "uploading"
    /\ Fails(upload.by)
    /\ error' = TRUE
    /\ page' = "ready"
    /\ upload' = Unasked
    /\ UNCHANGED <<session, actions, owner, load, view, mine, box>>

----------------------------------------------------------------------------
(* The search box and the table.                                           *)

\* Slip: the cleanup of the effect clears the timer only.
CancelledBug == search

\* The cleanup of the effect: searches under way are ignored.
Cancelled == [s \in Searches |->
                IF search[s].what = "idle" THEN search[s] ELSE [search[s] EXCEPT !.live = FALSE]]

\* The effect of searchQuery.
Type(q) ==
    /\ Act
    /\ Rendered
    /\ query' = q
    /\ timer' = (q # NoQuery)
    /\ search' = Cancelled
    /\ matched' = IF q = NoQuery THEN NoFilter ELSE matched
    /\ missed' = FALSE
    /\ UNCHANGED <<session, faults, owner, data, error>>

TimerFires(s) ==
    /\ timer /\ search[s] = Unasked
    /\ timer' = FALSE
    /\ search' = [search EXCEPT ![s] =
                    [what |-> "asked", for |-> query, by |-> session, live |-> TRUE,
                     due |-> {f \in mine : owner[f] = session /\ f \in Match[query]},
                     found |-> {}]]
    /\ UNCHANGED <<browser, owner, data, error, query, matched, missed>>

ShowMatches(s) ==
    /\ search[s].what = "served"
    /\ matched' = IF search[s].live
                  THEN [on |-> TRUE, ids |-> search[s].found, due |-> search[s].due]
                  ELSE matched
    /\ search' = [search EXCEPT ![s] = Unasked]
    /\ UNCHANGED <<browser, owner, data, error, query, timer, missed>>

\* The matches of an earlier query stay.
SearchFails(s) ==
    /\ search[s].what \in {"asked", "served"}
    /\ Fails(search[s].by)
    /\ error' = (error \/ search[s].live)
    /\ missed' = (missed \/ search[s].live)
    /\ search' = [search EXCEPT ![s] = Unasked]
    /\ UNCHANGED <<session, actions, owner, data, query, timer, matched>>

VisibleFiles == IF matched.on THEN view.rows \intersect matched.ids ELSE view.rows

\* Each row of the table has a button.
Downloadable(f) == Rendered /\ f \in VisibleFiles

\* handleDownload, when it is refused or fails (otherwise the page stays as it is).
DownloadFails(f) ==
    /\ Downloadable(f)
    /\ Fails(IF session = owner[f] THEN session ELSE Nobody)
    /\ error' = TRUE
    /\ UNCHANGED <<session, actions, owner, data, box>>

DashboardNext ==
    \/ ReadRows \/ ReadOverview \/ ShowData \/ LoadDataFails
    \/ StoreUpload \/ Uploaded \/ UploadFails
    \/ \E f \in Files :
        \/ SelectFile(f) \/ DownloadFails(f)
        \/ \E a \in Accounts : UploadElsewhere(f, a)
    \/ \E q \in Queries \union {NoQuery} : Type(q)
    \/ \E s \in Searches :
        TimerFires(s) \/ ServeSearch(s) \/ ShowMatches(s) \/ SearchFails(s)

----------------------------------------------------------------------------
\* Whose token a request carries, if any.
Senders == Accounts \union {Nobody}

DashboardTypeOK ==
    /\ owner \in [Files -> Senders]
    /\ page \in {"closed", "barred", "loading", "ready", "uploading", "reloading"}
    /\ load \in {Unasked} \union [by : Senders, parts : SUBSET {"rows", "total"},
                                 rows : SUBSET Files, total : 0..Cardinality(Files)]
    /\ upload \in {Unasked} \union [what : {"sent", "stored"}, file : Files, by : Senders]
    /\ search \in [Searches -> {Unasked} \union
                        [what : {"asked", "served"}, for : Queries, by : Senders,
                         live : BOOLEAN, due : SUBSET Files, found : SUBSET Files]]
    /\ view \in [of : Senders, rows : SUBSET Files, total : 0..Cardinality(Files)]
    /\ mine \subseteq Files
    /\ query \in Queries \union {NoQuery}
    /\ error \in BOOLEAN /\ timer \in BOOLEAN /\ missed \in BOOLEAN
    /\ matched \in [on : BOOLEAN, ids : SUBSET Files, due : SUBSET Files]
    /\ page = "uploading" <=> upload # Unasked
    /\ page \in {"loading", "reloading"} <=> load # Unasked

\* Once the search for the typed query is over, the table is filtered by the answer to
\* this query, not by that of an earlier one that came late, unless the search failed;
\* an empty box filters nothing.
ResultsFitQuery ==
    IF query = NoQuery
    THEN ~ matched.on
    ELSE \/ timer \/ missed
         \/ \E s \in Searches : search[s] # Unasked /\ search[s].live
         \/ matched.on /\ matched.ids \subseteq Match[query]

\* When nothing is under way and no error is shown, every file the page was told it
\* uploaded is counted, and is in the table that is shown, unless that is another
\* account's. While the table is filtered this is said of the matching files uploaded
\* before the search was sent: an upload loads the rows again, not the matches, so a
\* newer file stays hidden until the query is edited.
UploadedIsListed ==
    page = "ready" /\ ~ error =>
        /\ \A f \in mine :
            owner[f] = view.of /\ (matched.on => f \in matched.due) => f \in VisibleFiles
        /\ view.total >= Cardinality(mine)
=============================================================================
