-------------------------- MODULE WebClient_proofs --------------------------
(***************************************************************************)
(* Proofs about WebClient, for every set of accounts, passwords, forms,    *)
(* files, queries and searches in flight, and any number of user actions   *)
(* and faults.                                                             *)
(***************************************************************************)
EXTENDS WebClient, FiniteSetTheorems, TLAPS

\* A registration about to be answered with tokens is the one that is stored.
WelcomeIsStored ==
    \A f \in Forms : form[f].what = "welcome" => password[form[f].for] = form[f].with

AccountsInv == WelcomeIsStored /\ GrantedCanReturn

\* A search whose answer will be shown is one for the query in the box.
LiveIsCurrent ==
    \A s \in Searches : search[s] # Unasked /\ search[s].live =>
        /\ query # NoQuery /\ search[s].for = query
        /\ search[s].found \subseteq Match[query]

BoxInv == (timer => query # NoQuery) /\ LiveIsCurrent /\ ResultsFitQuery

\* Rows are of the account whose token the load carried.
Belong(rows, a) == rows # {} => a \in Accounts /\ rows \subseteq FilesOf(a)

RowsInv ==
    /\ load # Unasked => Belong(load.rows, load.by)
    /\ Belong(view.rows, view.of)

\* What the page waits for was asked with the session it was mounted for, unless that
\* has logged out.
SessionInv ==
    Open /\ ~ overtaken =>
        /\ nav = session
        /\ session # Nobody =>
            /\ load # Unasked => load.by = session
            /\ view.rows = {} \/ view.of = session

PageInv == RowsInv /\ SessionInv

\* A load that has its rows, or its total, read them after every upload of this page.
LoadIsLate ==
    load # Unasked =>
        /\ "rows" \in load.parts => \A f \in mine : owner[f] = load.by => f \in load.rows
        /\ "total" \in load.parts => load.total >= Cardinality(mine)

RowsAreListed ==
    page = "ready" /\ ~ error =>
        /\ \A f \in mine : owner[f] = view.of => f \in view.rows
        /\ view.total >= Cardinality(mine)

UploadInv ==
    /\ \A f \in mine : owner[f] # Nobody
    /\ upload # Unasked /\ upload.what = "sent" => owner[upload.file] = Nobody
    /\ upload # Unasked /\ upload.what = "stored" => owner[upload.file] # Nobody
    /\ LoadIsLate
    /\ RowsAreListed

\* A search finds every file that was uploaded before it was sent.
MatchInv ==
    /\ \A s \in Searches : search[s] # Unasked =>
        /\ search[s].due \subseteq Matching(search[s].by, search[s].for)
        /\ search[s].due # {} => search[s].by # Nobody
        /\ search[s].what = "served" => search[s].due \subseteq search[s].found
    /\ matched.on => matched.due \subseteq matched.ids

IInv == TypeOK /\ AccountsInv /\ BoxInv /\ PageInv /\ UploadInv /\ MatchInv

----------------------------------------------------------------------------
(* The initial states and the type invariant.                              *)

USE DEF Unsent, Unasked

\* The count of a subset of the files.
LEMMA CountType ==
    ASSUME NEW S, S \subseteq Files
    PROVE  /\ IsFiniteSet(S)
           /\ Cardinality(S) \in 0..Cardinality(Files)
<1>1. IsFiniteSet(Files)
  BY DashboardAssumption
<1>2. IsFiniteSet(S) /\ Cardinality(S) <= Cardinality(Files)
  BY <1>1, FS_Subset
<1>3. Cardinality(S) \in Nat /\ Cardinality(Files) \in Nat
  BY <1>1, <1>2, FS_CardinalityType
<1> QED
  BY <1>2, <1>3

LEMMA InitIInv == Init => IInv
<1> SUFFICES ASSUME Init
             PROVE  IInv
  OBVIOUS
<1> USE DEF Init, BrowserInit, AccountsInit, DashboardInit
<1>1. 0 \in 0..Cardinality(Files) /\ Cardinality({}) = 0
  <2>1. IsFiniteSet({}) /\ Cardinality({}) = 0
    BY FS_EmptySet
  <2>2. Cardinality(Files) \in Nat
    BY DashboardAssumption, FS_CardinalityType
  <2> QED
    BY <2>1, <2>2
<1>2. BrowserTypeOK
  BY BrowserAssumption DEF BrowserTypeOK
<1>3. AccountsTypeOK
  BY DEF AccountsTypeOK
<1>4. DashboardTypeOK
  BY <1>1 DEF DashboardTypeOK, Senders, NoView, NoFilter
<1>5. TypeOK
  BY <1>2, <1>3, <1>4 DEF TypeOK
<1>6. AccountsInv
  BY DEF AccountsInv, WelcomeIsStored, GrantedCanReturn
<1>7. BoxInv
  BY DEF BoxInv, LiveIsCurrent, ResultsFitQuery, NoFilter
<1>8. PageInv /\ UploadInv /\ MatchInv
  BY <1>1 DEF PageInv, RowsInv, SessionInv, Belong, UploadInv, LoadIsLate, RowsAreListed,
              MatchInv, Open, NoView, NoFilter
<1> QED
  BY <1>5, <1>6, <1>7, <1>8 DEF IInv

LEMMA ActType ==
    ASSUME BrowserTypeOK, Act
    PROVE  actions' \in 0..MaxActions
  BY BrowserAssumption DEF BrowserTypeOK, Act

LEMMA FaultType ==
    ASSUME BrowserTypeOK, Fault
    PROVE  faults' \in 0..MaxFaults
  BY BrowserAssumption DEF BrowserTypeOK, Fault

LEMMA FailsType ==
    ASSUME BrowserTypeOK, NEW by, Fails(by)
    PROVE  faults' \in 0..MaxFaults
  BY FaultType DEF BrowserTypeOK, Fails

\* A step of the dashboard keeps the types.
LEMMA DashboardType ==
    ASSUME TypeOK, BoxInv, DashboardNext
    PROVE  BrowserTypeOK' /\ DashboardTypeOK'
<1> USE DEF TypeOK, DashboardTypeOK, Senders, browser, data, box
<1>0. BrowserTypeOK /\ session \in Accounts \union {Nobody}
  BY DEF BrowserTypeOK
<1>1. CASE ReadRows
  BY <1>1, ZenonT(60) DEF ReadRows, Reading, FilesOf, BrowserTypeOK
<1>2. CASE ReadOverview
  <2>1. Cardinality({f \in Files : owner[f] # Nobody}) \in 0..Cardinality(Files)
    BY CountType
  <2> QED
    BY <1>2, <2>1, ZenonT(60) DEF ReadOverview, Reading, BrowserTypeOK
<1>3. CASE ShowData
  BY <1>3 DEF ShowData, BrowserTypeOK
<1>4. CASE LoadDataFails
  <2>1. BrowserTypeOK'
    BY <1>0, <1>4, FailsType DEF LoadDataFails, BrowserTypeOK
  <2> QED
    BY <1>4, <2>1 DEF LoadDataFails
<1>5. CASE StoreUpload
  BY <1>5 DEF StoreUpload, BrowserTypeOK
<1>6. CASE Uploaded
  <2>1. 0 \in 0..Cardinality(Files)
    BY CountType
  <2>2. LoadData(session) \in [by : Senders, parts : SUBSET {"rows", "total"},
                               rows : SUBSET Files, total : 0..Cardinality(Files)]
    BY <1>0, <2>1 DEF LoadData
  <2>3. upload.file \in Files /\ LoadData(session) # Unasked
    BY <1>6 DEF Uploaded, LoadData
  <2> QED
    BY <1>6, <2>2, <2>3 DEF Uploaded, BrowserTypeOK
<1>7. CASE UploadFails
  <2>1. BrowserTypeOK'
    BY <1>0, <1>7, FailsType DEF UploadFails, BrowserTypeOK
  <2> QED
    BY <1>7, <2>1 DEF UploadFails
<1>8. ASSUME NEW f \in Files, SelectFile(f)
      PROVE  BrowserTypeOK' /\ DashboardTypeOK'
  <2>1. BrowserTypeOK'
    BY <1>0, <1>8, ActType DEF SelectFile, BrowserTypeOK
  <2> QED
    BY <1>0, <1>8, <2>1 DEF SelectFile, InputEnabled
<1>9. ASSUME NEW f \in Files, DownloadFails(f)
      PROVE  BrowserTypeOK' /\ DashboardTypeOK'
  <2>1. BrowserTypeOK'
    BY <1>0, <1>9, FailsType DEF DownloadFails, BrowserTypeOK
  <2> QED
    BY <1>9, <2>1 DEF DownloadFails
<1>10. ASSUME NEW f \in Files, NEW a \in Accounts, UploadElsewhere(f, a)
       PROVE  BrowserTypeOK' /\ DashboardTypeOK'
  <2>1. BrowserTypeOK'
    BY <1>0, <1>10, ActType DEF UploadElsewhere, BrowserTypeOK
  <2> QED
    BY <1>10, <2>1 DEF UploadElsewhere
<1>11. ASSUME NEW q \in Queries \union {NoQuery}, Type(q)
       PROVE  BrowserTypeOK' /\ DashboardTypeOK'
  <2>1. BrowserTypeOK'
    BY <1>0, <1>11, ActType DEF Type, BrowserTypeOK
  <2>2. Cancelled \in [Searches -> {Unasked} \union
                            [what : {"asked", "served"}, for : Queries, by : Senders,
                             live : BOOLEAN, due : SUBSET Files, found : SUBSET Files]]
    <3> SUFFICES ASSUME NEW s \in Searches, search[s] # Unasked
                 PROVE  [search[s] EXCEPT !.live = FALSE]
                          \in [what : {"asked", "served"}, for : Queries, by : Senders,
                              live : BOOLEAN, due : SUBSET Files, found : SUBSET Files]
      BY DEF Cancelled
    <3>1. search[s] \in [what : {"asked", "served"}, for : Queries, by : Senders,
                         live : BOOLEAN, due : SUBSET Files, found : SUBSET Files]
      OBVIOUS
    <3> HIDE DEF TypeOK, DashboardTypeOK, Senders
    <3> QED
      BY <3>1
  <2> QED
    BY <1>11, <2>1, <2>2 DEF Type, NoFilter
<1>12. ASSUME NEW s \in Searches, TimerFires(s)
       PROVE  BrowserTypeOK' /\ DashboardTypeOK'
  <2>1. query \in Queries
    BY <1>12 DEF TimerFires, BoxInv
  <2> QED
    BY <1>0, <1>12, <2>1, ZenonT(60) DEF TimerFires, BrowserTypeOK
<1>13. ASSUME NEW s \in Searches, ServeSearch(s)
       PROVE  BrowserTypeOK' /\ DashboardTypeOK'
  <2>1. Matching(search[s].by, search[s].for) \in SUBSET Files
    BY DEF Matching, FilesOf
  <2>2. search[s] \in [what : {"asked", "served"}, for : Queries, by : Senders,
                       live : BOOLEAN, due : SUBSET Files, found : SUBSET Files]
    BY <1>13 DEF ServeSearch
  <2>3. search'[s] \in [what : {"asked", "served"}, for : Queries, by : Senders,
                        live : BOOLEAN, due : SUBSET Files, found : SUBSET Files]
    BY <1>13, <2>1, <2>2, ZenonT(60) DEF ServeSearch
  <2>4. search' = [search EXCEPT ![s] = search'[s]]
    BY <1>13 DEF ServeSearch
  <2> QED
    BY <1>13, <2>3, <2>4 DEF ServeSearch, BrowserTypeOK
<1>14. ASSUME NEW s \in Searches, ShowMatches(s)
       PROVE  BrowserTypeOK' /\ DashboardTypeOK'
  BY <1>14 DEF ShowMatches, BrowserTypeOK
<1>15. ASSUME NEW s \in Searches, SearchFails(s)
       PROVE  BrowserTypeOK' /\ DashboardTypeOK'
  <2>1. BrowserTypeOK'
    BY <1>0, <1>15, FailsType DEF SearchFails, BrowserTypeOK
  <2> QED
    BY <1>15, <2>1 DEF SearchFails
<1> QED
  BY <1>1, <1>2, <1>3, <1>4, <1>5, <1>6, <1>7, <1>8, <1>9, <1>10, <1>11, <1>12, <1>13,
     <1>14, <1>15 DEF DashboardNext

\* A submission is a record once it is sent.
Submissions == [what : {"register", "login", "free", "welcome", "refused"},
                for : Accounts, with : Passwords]

LEMMA SubmissionType ==
    ASSUME AccountsTypeOK, NEW f \in Forms, form[f] # Unsent
    PROVE  form[f] \in Submissions
  BY DEF AccountsTypeOK, Submissions

\* Goes changes what a submission waits for and nothing else.
LEMMA GoesType ==
    ASSUME AccountsTypeOK, NEW f \in Forms, form[f] # Unsent,
           NEW w \in {"register", "login", "free", "welcome", "refused"}, Goes(f, w)
    PROVE  /\ form' \in [Forms -> {Unsent} \union Submissions]
           /\ form'[f].what = w /\ form'[f].for = form[f].for /\ form'[f].with = form[f].with
           /\ \A g \in Forms \ {f} : form'[g] = form[g]
           /\ granted' = granted /\ UNCHANGED browser
<1>1. form[f] \in Submissions
  BY SubmissionType
<1>2. [form[f] EXCEPT !.what = w] \in Submissions
  BY <1>1 DEF Submissions
<1> QED
  BY <1>1, <1>2 DEF Goes, AccountsTypeOK, Submissions

\* What a login form or auth-service does keeps the types of Accounts, and what the
\* stored passwords are to the answers.
LEMMA AccountsStep ==
    ASSUME AccountsTypeOK, AccountsInv, NEW f \in Forms,
           \/ \E mode \in {"register", "login"}, a \in Accounts, p \in Passwords :
                Submit(f, mode, a, p)
           \/ Serve(f) \/ Welcome(f)
    PROVE  AccountsTypeOK' /\ AccountsInv'
<1> USE DEF AccountsInv, WelcomeIsStored, GrantedCanReturn
<1>1. ASSUME NEW mode \in {"register", "login"}, NEW a \in Accounts, NEW p \in Passwords,
             Submit(f, mode, a, p)
      PROVE  AccountsTypeOK' /\ AccountsInv'
  BY <1>1 DEF Submit, Submission, AccountsTypeOK
<1>2. CASE LookUp(f)
  <2>1. form[f] # Unsent
    BY <1>2 DEF LookUp
  <2>2. PICK w \in {"refused", "free"} : Goes(f, w)
    BY <1>2 DEF LookUp
  <2>3. password' = password
    BY <1>2 DEF LookUp
  <2> QED
    BY <2>1, <2>2, <2>3, GoesType DEF AccountsTypeOK, Submissions
<1>3. CASE Insert(f)
  <2>1. form[f] # Unsent /\ form[f] \in Submissions
    BY <1>3, SubmissionType DEF Insert
  <2>2. CASE Exists(form[f].for)
    <3>1. Goes(f, "refused") /\ password' = password
      BY <1>3, <2>2 DEF Insert
    <3> QED
      BY <2>1, <3>1, GoesType DEF AccountsTypeOK, Submissions
  <2>3. CASE ~ Exists(form[f].for)
    <3>1. Goes(f, "welcome")
          /\ password' = [password EXCEPT ![form[f].for] = form[f].with]
      BY <1>3, <2>3 DEF Insert
    <3>2. /\ form' \in [Forms -> {Unsent} \union Submissions]
          /\ form'[f].for = form[f].for /\ form'[f].with = form[f].with
          /\ \A g \in Forms \ {f} : form'[g] = form[g]
          /\ granted' = granted
      BY <2>1, <3>1, GoesType
    <3>3. AccountsTypeOK'
      BY <2>1, <3>1, <3>2 DEF AccountsTypeOK, Submissions
    <3>4. ASSUME NEW a \in Accounts, password[a] \in Passwords
          PROVE  password'[a] = password[a]
      BY <2>3, <3>1, <3>4, AccountsAssumption DEF Exists, AccountsTypeOK
    <3>5. GrantedCanReturn'
      <4> SUFFICES ASSUME NEW g \in granted
                   PROVE  password'[g[1]] = g[2]
        BY <3>2
      <4>1. g[1] \in Accounts /\ g[2] \in Passwords /\ password[g[1]] = g[2]
        BY DEF AccountsTypeOK
      <4> QED
        BY <3>4, <4>1
    <3>6. WelcomeIsStored'
      <4> SUFFICES ASSUME NEW h \in Forms, form'[h].what = "welcome"
                   PROVE  password'[form'[h].for] = form'[h].with
        OBVIOUS
      <4>1. CASE h = f
        BY <2>1, <3>1, <3>2, <4>1 DEF AccountsTypeOK, Submissions
      <4>2. CASE h # f
        <5>1. form'[h] = form[h] /\ form[h] \in Submissions
          BY <3>2, <4>2, SubmissionType
        <5>2. form[h].for \in Accounts /\ form[h].with \in Passwords
          BY <5>1 DEF Submissions
        <5> QED
          BY <3>4, <5>1, <5>2
      <4> QED
        BY <4>1, <4>2
    <3> QED
      BY <3>3, <3>5, <3>6
  <2> QED
    BY <2>2, <2>3
<1>4. CASE Compare(f)
  <2>1. form[f] # Unsent
    BY <1>4 DEF Compare
  <2>2. PICK w \in {"welcome", "refused"} :
            /\ Goes(f, w)
            /\ w = "welcome" => password[form[f].for] = form[f].with
    BY <1>4 DEF Compare
  <2>3. password' = password
    BY <1>4 DEF Compare
  <2> QED
    BY <2>1, <2>2, <2>3, GoesType DEF AccountsTypeOK, Submissions
<1>5. CASE Refused(f)
  BY <1>5 DEF Refused, AccountsTypeOK
<1>6. CASE Welcome(f)
  <2>1. form[f] \in Submissions
    BY <1>6, SubmissionType DEF Welcome
  <2> QED
    BY <1>6, <2>1 DEF Welcome, AccountsTypeOK, Submissions
<1> QED
  BY <1>1, <1>2, <1>3, <1>4, <1>5, <1>6 DEF Serve

----------------------------------------------------------------------------
(* The search box.                                                         *)

LEMMA BoxKept ==
    ASSUME BoxInv, UNCHANGED box
    PROVE  BoxInv'
  BY DEF BoxInv, LiveIsCurrent, ResultsFitQuery, box

LEMMA BoxFresh ==
    ASSUME Fresh
    PROVE  BoxInv'
  BY DEF Fresh, BoxInv, LiveIsCurrent, ResultsFitQuery, NoFilter

\* A step of the dashboard keeps the filter in keeping with the query.
LEMMA BoxStep ==
    ASSUME DashboardTypeOK, BoxInv, DashboardNext
    PROVE  BoxInv'
<1> USE DEF BoxInv, LiveIsCurrent, ResultsFitQuery
<1>1. CASE \/ ReadRows \/ ReadOverview \/ ShowData \/ LoadDataFails
           \/ StoreUpload \/ Uploaded \/ UploadFails
  <2>1. UNCHANGED box
    BY <1>1 DEF ReadRows, ReadOverview, ShowData, LoadDataFails, StoreUpload, Uploaded,
                UploadFails, data
  <2> QED
    BY <2>1, BoxKept
<1>2. ASSUME NEW f \in Files,
             \/ SelectFile(f) \/ DownloadFails(f)
             \/ \E a \in Accounts : UploadElsewhere(f, a)
      PROVE  BoxInv'
  <2>1. UNCHANGED box
    BY <1>2 DEF SelectFile, DownloadFails, UploadElsewhere
  <2> QED
    BY <2>1, BoxKept
<1>3. ASSUME NEW q \in Queries \union {NoQuery}, Type(q)
      PROVE  BoxInv'
  <2>1. \A s \in Searches : search'[s] # Unasked => ~ search'[s].live
    BY <1>3 DEF Type, Cancelled, DashboardTypeOK
  <2> QED
    BY <1>3, <2>1 DEF Type, NoFilter
<1>4. ASSUME NEW s \in Searches, TimerFires(s)
      PROVE  BoxInv'
  <2>1. /\ search'[s] # Unasked /\ search'[s].live
        /\ search'[s].for = query /\ search'[s].found = {}
        /\ \A t \in Searches \ {s} : search'[t] = search[t]
    BY <1>4 DEF TimerFires, DashboardTypeOK
  <2> QED
    BY <1>4, <2>1 DEF TimerFires
<1>5. ASSUME NEW s \in Searches, ServeSearch(s)
      PROVE  BoxInv'
  <2>1. /\ search[s] # Unasked /\ search'[s] # Unasked
        /\ search'[s].live = search[s].live /\ search'[s].for = search[s].for
        /\ search'[s].found \subseteq Match[search[s].for]
        /\ \A t \in Searches \ {s} : search'[t] = search[t]
    <3>1. search[s] \in [what : {"asked", "served"}, for : Queries, by : Senders,
                         live : BOOLEAN, due : SUBSET Files, found : SUBSET Files]
      BY <1>5 DEF ServeSearch, DashboardTypeOK
    <3>2. search'[s] = [search[s] EXCEPT !.what = "served",
                            !.found = Matching(search[s].by, search[s].for)]
      BY <1>5 DEF ServeSearch, DashboardTypeOK
    <3>3. \A t \in Searches \ {s} : search'[t] = search[t]
      BY <1>5 DEF ServeSearch, DashboardTypeOK
    <3>4. Matching(search[s].by, search[s].for) \subseteq Match[search[s].for]
      BY DEF Matching
    <3>5. /\ search[s].what # "idle" /\ search'[s].what = "served"
          /\ search'[s].live = search[s].live /\ search'[s].for = search[s].for
          /\ search'[s].found = Matching(search[s].by, search[s].for)
      <4> HIDE DEF Matching
      <4> QED
        BY <3>1, <3>2
    <3> QED
      BY <3>3, <3>4, <3>5
  <2>2. UNCHANGED <<query, timer, matched, missed>>
    BY <1>5 DEF ServeSearch
  <2> QED
    BY <2>1, <2>2
<1>6. ASSUME NEW s \in Searches, ShowMatches(s)
      PROVE  BoxInv'
  <2>1. /\ search[s] # Unasked /\ search'[s] = Unasked
        /\ \A t \in Searches \ {s} : search'[t] = search[t]
    BY <1>6 DEF ShowMatches, DashboardTypeOK
  <2> QED
    BY <1>6, <2>1 DEF ShowMatches
<1>7. ASSUME NEW s \in Searches, SearchFails(s)
      PROVE  BoxInv'
  <2>1. /\ search[s] # Unasked /\ search'[s] = Unasked
        /\ \A t \in Searches \ {s} : search'[t] = search[t]
    BY <1>7 DEF SearchFails, DashboardTypeOK
  <2> QED
    BY <1>7, <2>1 DEF SearchFails
<1> QED
  BY <1>1, <1>2, <1>3, <1>4, <1>5, <1>6, <1>7 DEF DashboardNext

----------------------------------------------------------------------------
(* The page and the session.                                               *)

\* A file of an account stays its file.
LEMMA FilesStay ==
    ASSUME DashboardTypeOK, UploadInv, DashboardNext
    PROVE  \A f \in Files : owner[f] # Nobody => owner'[f] = owner[f]
<1>1. CASE UNCHANGED owner
  BY <1>1
<1>2. ASSUME NEW g \in Files, NEW b, owner[g] = Nobody, owner' = [owner EXCEPT ![g] = b]
      PROVE  \A f \in Files : owner[f] # Nobody => owner'[f] = owner[f]
  BY <1>2 DEF DashboardTypeOK
<1>3. CASE StoreUpload
  <2>1. /\ upload.file \in Files /\ owner[upload.file] = Nobody
        /\ owner' = [owner EXCEPT ![upload.file] = upload.by]
    BY <1>3 DEF StoreUpload, DashboardTypeOK, UploadInv
  <2> QED
    BY <1>2, <2>1
<1>4. ASSUME NEW f \in Files, NEW a \in Accounts, UploadElsewhere(f, a)
      PROVE  owner[f] = Nobody /\ owner' = [owner EXCEPT ![f] = a]
  BY <1>4 DEF UploadElsewhere
<1>5. \/ UNCHANGED owner \/ StoreUpload
      \/ \E f \in Files, a \in Accounts : UploadElsewhere(f, a)
  BY DEF DashboardNext, ReadRows, ReadOverview, ShowData, LoadDataFails, Uploaded,
         UploadFails, SelectFile, DownloadFails, Type, TimerFires, ServeSearch,
         ShowMatches, SearchFails
<1> QED
  BY <1>1, <1>2, <1>3, <1>4, <1>5

\* A step of the dashboard changes neither the session nor whether the page is open.
LEMMA StaysOpen ==
    ASSUME DashboardTypeOK, DashboardNext
    PROVE  Open' = Open /\ session' = session
<1>1. \/ page' = page
      \/ Open /\ page' # "closed"
  <2>1. CASE ShowData \/ LoadDataFails \/ UploadFails
    BY <2>1 DEF ShowData, LoadDataFails, UploadFails, Open
  <2>2. CASE Uploaded
    BY <2>2 DEF Uploaded, DashboardTypeOK, Open
  <2>3. CASE \E f \in Files : SelectFile(f)
    BY <2>3 DEF SelectFile, InputEnabled, Open
  <2>4. \/ page' = page
        \/ ShowData \/ LoadDataFails \/ Uploaded \/ UploadFails
        \/ \E f \in Files : SelectFile(f)
    BY DEF DashboardNext, ReadRows, ReadOverview, StoreUpload, DownloadFails,
           UploadElsewhere, Type, TimerFires, ServeSearch, ShowMatches, SearchFails, data
  <2> QED
    BY <2>1, <2>2, <2>3, <2>4
<1>2. session' = session
  BY DEF DashboardNext, ReadRows, ReadOverview, ShowData, LoadDataFails, StoreUpload,
         Uploaded, UploadFails, SelectFile, DownloadFails, UploadElsewhere, Type,
         TimerFires, ServeSearch, ShowMatches, SearchFails, browser
<1> QED
  BY <1>1, <1>2 DEF Open

\* What a step of the dashboard does with the rows: it asks for them, reads them, shows
\* them or gives up.
Asks == load'.by = session /\ load'.rows = {} /\ view' = view
Reads ==
    /\ load # Unasked /\ load'.by = load.by
    /\ load'.rows = load.rows \/ (load.by \in Accounts /\ load'.rows = FilesOf(load.by))
    /\ UNCHANGED <<owner, view>>
Shows == load # Unasked /\ load' = Unasked /\ view'.of = load.by /\ view'.rows = load.rows
GivesUp == load' = Unasked /\ view' = view

LEMMA RowSteps ==
    ASSUME DashboardTypeOK, DashboardNext
    PROVE  UNCHANGED <<load, view>> \/ Asks \/ Reads \/ Shows \/ GivesUp
<1>1. CASE ReadRows
  <2>1. /\ load # Unasked /\ load.by \in Accounts
        /\ load'.by = load.by /\ load'.rows = FilesOf(load.by)
    BY <1>1 DEF ReadRows, Reading, DashboardTypeOK, Senders
  <2> QED
    BY <1>1, <2>1 DEF ReadRows, Reads
<1>2. CASE ReadOverview
  <2>1. load # Unasked /\ load'.by = load.by /\ load'.rows = load.rows
    BY <1>2 DEF ReadOverview, Reading, DashboardTypeOK
  <2> QED
    BY <1>2, <2>1 DEF ReadOverview, Reads
<1>3. CASE ShowData
  BY <1>3 DEF ShowData, DashboardTypeOK, Shows
<1>4. CASE LoadDataFails
  BY <1>4 DEF LoadDataFails, GivesUp
<1>5. CASE Uploaded
  BY <1>5 DEF Uploaded, LoadData, Asks
<1>6. \/ ReadRows \/ ReadOverview \/ ShowData \/ LoadDataFails \/ Uploaded
      \/ UNCHANGED <<load, view>>
  BY DEF DashboardNext, StoreUpload, UploadFails, SelectFile, DownloadFails,
         UploadElsewhere, Type, TimerFires, ServeSearch, ShowMatches, SearchFails, data
<1> QED
  BY <1>1, <1>2, <1>3, <1>4, <1>5, <1>6

\* Rows of an account stay its rows.
LEMMA BelongStays ==
    ASSUME DashboardTypeOK, UploadInv, DashboardNext, NEW rows, NEW a, Belong(rows, a)
    PROVE  rows # {} => a \in Accounts /\ \A f \in rows : f \in Files /\ owner'[f] = a
  BY FilesStay, BrowserAssumption DEF Belong, FilesOf

LEMMA RowsStep ==
    ASSUME DashboardTypeOK, RowsInv, UploadInv, DashboardNext
    PROVE  RowsInv'
<1> USE DEF RowsInv
<1>1. Belong(view.rows, view.of)
  OBVIOUS
<1>2. /\ view.of \in Accounts \/ view.rows = {}
      /\ \A f \in view.rows : f \in Files /\ owner'[f] = view.of
  BY <1>1, BelongStays
<1>3. ASSUME load # Unasked
      PROVE  /\ load.by \in Accounts \/ load.rows = {}
             /\ \A f \in load.rows : f \in Files /\ owner'[f] = load.by
  BY <1>3, BelongStays
<1>4. CASE UNCHANGED <<load, view>>
  BY <1>2, <1>3, <1>4 DEF Belong, FilesOf
<1>5. CASE Asks
  BY <1>2, <1>5 DEF Asks, Belong, FilesOf
<1>6. CASE Reads
  BY <1>2, <1>3, <1>6 DEF Reads, Belong, FilesOf
<1>7. CASE Shows
  BY <1>3, <1>7 DEF Shows, Belong, FilesOf
<1>8. CASE GivesUp
  BY <1>2, <1>8 DEF GivesUp, Belong, FilesOf
<1> QED
  BY <1>4, <1>5, <1>6, <1>7, <1>8, RowSteps

\* A step of the dashboard keeps the page with its session.
LEMMA SessionStep ==
    ASSUME DashboardTypeOK, SessionInv, DashboardNext, UNCHANGED tab
    PROVE  SessionInv'
<1>1. Open' = Open /\ session' = session /\ nav' = nav /\ overtaken' = overtaken
  BY StaysOpen DEF tab
<1>2. \/ UNCHANGED <<load, view>>
      \/ load' = Unasked /\ view' = view
      \/ load'.by = session /\ view' = view
      \/ load # Unasked /\ load'.by = load.by /\ view' = view
      \/ load # Unasked /\ load' = Unasked /\ view'.of = load.by
  BY RowSteps DEF Asks, Reads, Shows, GivesUp
<1> QED
  BY <1>1, <1>2 DEF SessionInv

----------------------------------------------------------------------------
(* What a search has to find.                                              *)

LEMMA MatchKept ==
    ASSUME MatchInv, UNCHANGED <<owner, search, matched>>
    PROVE  MatchInv'
  BY DEF MatchInv, Matching, FilesOf

LEMMA MatchFresh ==
    ASSUME Fresh
    PROVE  MatchInv'
  BY DEF Fresh, MatchInv, NoFilter

\* A step of the dashboard keeps what the searches have to find.
LEMMA MatchStep ==
    ASSUME DashboardTypeOK, UploadInv, MatchInv, DashboardNext
    PROVE  MatchInv'
<1> DEFINE Asked == [what : {"asked", "served"}, for : Queries, by : Senders,
                     live : BOOLEAN, due : SUBSET Files, found : SUBSET Files]
           Finds(a, q) == {f \in Files : owner'[f] = a /\ f \in Match[q]}
           \* What MatchInv says of one search, after the step.
           Fits(r) == /\ r.due \subseteq Finds(r.by, r.for)
                      /\ r.due # {} => r.by # Nobody
                      /\ r.what = "served" => r.due \subseteq r.found
<1>0. ASSUME NEW s \in Searches, search[s] # Unasked
      PROVE  search[s] \in Asked /\ Fits(search[s])
             /\ search[s].due \subseteq Matching(search[s].by, search[s].for)
  <2>1. search[s] \in Asked
    BY <1>0 DEF DashboardTypeOK
  <2>2. /\ search[s].due \subseteq Matching(search[s].by, search[s].for)
        /\ search[s].due # {} => search[s].by # Nobody
        /\ search[s].what = "served" => search[s].due \subseteq search[s].found
    BY <1>0 DEF MatchInv
  <2>3. \A f \in search[s].due : f \in Files /\ owner'[f] = search[s].by
                                /\ f \in Match[search[s].for]
    BY <2>2, FilesStay DEF Matching, FilesOf
  <2> QED
    BY <2>1, <2>2, <2>3
<1>a. ASSUME \A s \in Searches : search'[s] # Unasked => Fits(search'[s]),
             matched'.on => matched'.due \subseteq matched'.ids
      PROVE  MatchInv'
  BY <1>a DEF MatchInv, Matching, FilesOf
<1>b. matched.on => matched.due \subseteq matched.ids
  BY DEF MatchInv
<1>1. CASE UNCHANGED <<search, matched>>
  BY <1>0, <1>1, <1>a, <1>b
<1>2. ASSUME NEW q \in Queries \union {NoQuery}, Type(q)
      PROVE  MatchInv'
  <2>1. ASSUME NEW s \in Searches, search'[s] # Unasked
        PROVE  Fits(search'[s])
    <3>1. search[s] # Unasked /\ search'[s] = [search[s] EXCEPT !.live = FALSE]
      BY <1>2, <2>1 DEF Type, Cancelled, DashboardTypeOK
    <3>2. search[s] \in Asked /\ Fits(search[s])
      BY <1>0, <3>1
    <3>3. /\ search'[s].what = search[s].what /\ search'[s].for = search[s].for
          /\ search'[s].by = search[s].by /\ search'[s].due = search[s].due
          /\ search'[s].found = search[s].found
      BY <3>1, <3>2
    <3> HIDE DEF Finds
    <3> QED
      BY <3>2, <3>3
  <2>2. matched'.on => matched'.due \subseteq matched'.ids
    BY <1>2, <1>b DEF Type, NoFilter
  <2> QED
    BY <2>1, <2>2, <1>a
<1>3. ASSUME NEW s \in Searches, TimerFires(s)
      PROVE  MatchInv'
  <2>1. /\ \A t \in Searches \ {s} : search'[t] = search[t]
        /\ search'[s].what = "asked" /\ search'[s].by = session /\ search'[s].for = query
        /\ search'[s].due = {f \in mine : owner[f] = session /\ f \in Match[query]}
        /\ owner' = owner /\ matched' = matched
    BY <1>3 DEF TimerFires, DashboardTypeOK
  <2>2. mine \subseteq Files /\ \A f \in mine : owner[f] # Nobody
    BY DEF DashboardTypeOK, UploadInv
  <2>3. Fits(search'[s])
    BY <2>1, <2>2
  <2> HIDE DEF Fits
  <2> QED
    BY <1>0, <1>a, <1>b, <2>1, <2>3
<1>4. ASSUME NEW s \in Searches, ServeSearch(s)
      PROVE  MatchInv'
  <2>1. /\ search[s] # Unasked /\ UNCHANGED <<owner, matched>>
        /\ \A t \in Searches \ {s} : search'[t] = search[t]
        /\ search'[s] = [search[s] EXCEPT !.what = "served",
                            !.found = Matching(search[s].by, search[s].for)]
    BY <1>4 DEF ServeSearch, DashboardTypeOK
  <2>2. search[s] \in Asked /\ Fits(search[s])
        /\ search[s].due \subseteq Matching(search[s].by, search[s].for)
    BY <1>0, <2>1
  <2>3. /\ search'[s].for = search[s].for
        /\ search'[s].by = search[s].by /\ search'[s].due = search[s].due
        /\ search'[s].found = Matching(search[s].by, search[s].for)
    <3> HIDE DEF Fits
    <3> QED
      BY <2>1, <2>2
  <2>4. Fits(search'[s])
    <3> HIDE DEF Finds
    <3> QED
      BY <2>2, <2>3
  <2> HIDE DEF Fits
  <2> QED
    BY <1>0, <1>a, <1>b, <2>1, <2>4
<1>5. ASSUME NEW s \in Searches, ShowMatches(s)
      PROVE  MatchInv'
  <2>1. /\ \A t \in Searches \ {s} : search'[t] = search[t]
        /\ search'[s] = Unasked /\ search[s] # Unasked /\ search[s].what = "served"
        /\ \/ matched' = matched
           \/ matched'.due = search[s].due /\ matched'.ids = search[s].found
    BY <1>5 DEF ShowMatches, DashboardTypeOK
  <2>2. search[s].due \subseteq search[s].found
    BY <1>0, <2>1
  <2> HIDE DEF Fits
  <2> QED
    BY <1>0, <1>a, <1>b, <2>1, <2>2
<1>6. ASSUME NEW s \in Searches, SearchFails(s)
      PROVE  MatchInv'
  <2>1. /\ \A t \in Searches \ {s} : search'[t] = search[t]
        /\ search'[s] = Unasked /\ matched' = matched
    BY <1>6 DEF SearchFails, DashboardTypeOK
  <2> HIDE DEF Fits
  <2> QED
    BY <1>0, <1>a, <1>b, <2>1
<1>7. \/ UNCHANGED <<search, matched>>
      \/ \E q \in Queries \union {NoQuery} : Type(q)
      \/ \E s \in Searches :
            TimerFires(s) \/ ServeSearch(s) \/ ShowMatches(s) \/ SearchFails(s)
  BY DEF DashboardNext, ReadRows, ReadOverview, ShowData, LoadDataFails, StoreUpload,
         Uploaded, UploadFails, SelectFile, DownloadFails, UploadElsewhere, box
<1> QED
  BY <1>1, <1>2, <1>3, <1>4, <1>5, <1>6, <1>7

----------------------------------------------------------------------------
(* Uploads and the table.                                                  *)

\* Nothing that UploadInv is about changes, except that an error may appear.
LEMMA UploadKept ==
    ASSUME UploadInv, UNCHANGED <<owner, data>>, (error' = error \/ error')
    PROVE  UploadInv'
  BY DEF UploadInv, LoadIsLate, RowsAreListed, data

\* A step of the dashboard keeps the table up to date with the uploads of the page.
LEMMA UploadStep ==
    ASSUME TypeOK, UploadInv, DashboardNext
    PROVE  UploadInv'
<1>0. DashboardTypeOK /\ mine \subseteq Files
  BY DEF TypeOK, DashboardTypeOK
<1> USE DEF UploadInv, LoadIsLate, RowsAreListed
<1>1. CASE ReadRows
  <2>1. /\ load # Unasked /\ load'.by = load.by /\ load'.total = load.total
        /\ load'.parts = load.parts \union {"rows"} /\ load'.rows = FilesOf(load.by)
        /\ page # "ready"
    BY <1>0, <1>1 DEF ReadRows, Reading, DashboardTypeOK
  <2>2. UNCHANGED <<owner, page, upload, mine, view, error>>
    BY <1>1 DEF ReadRows
  <2> QED
    BY <2>1, <2>2, <1>0 DEF FilesOf
<1>2. CASE ReadOverview
  <2> DEFINE Owned == {f \in Files : owner[f] # Nobody}
  <2>1. /\ load # Unasked /\ load'.by = load.by /\ load'.rows = load.rows
        /\ load'.parts = load.parts \union {"total"} /\ load'.total = Cardinality(Owned)
        /\ page # "ready"
    BY <1>0, <1>2 DEF ReadOverview, Reading, DashboardTypeOK
  <2>2. UNCHANGED <<owner, page, upload, mine, view, error>>
    BY <1>2 DEF ReadOverview
  <2>3. IsFiniteSet(Owned) /\ mine \subseteq Owned
    BY <1>0, CountType
  <2>4. Cardinality(mine) <= Cardinality(Owned)
    BY <2>3, FS_Subset
  <2>5. Cardinality(mine) \in Nat /\ Cardinality(Owned) \in Nat
    BY <1>0, CountType, <2>3, FS_CardinalityType
  <2> HIDE DEF Owned
  <2> QED
    BY <2>1, <2>2, <2>4, <2>5
<1>3. CASE ShowData
  <2>1. load # Unasked /\ load.parts = {"rows", "total"}
    BY <1>0, <1>3 DEF ShowData, DashboardTypeOK
  <2> QED
    BY <1>3, <2>1 DEF ShowData
<1>4. CASE LoadDataFails
  BY <1>4 DEF LoadDataFails
<1>5. CASE StoreUpload
  <2>1. /\ upload # Unasked /\ upload.file \in Files /\ upload.by # Nobody
        /\ upload.what = "sent" /\ page = "uploading" /\ load = Unasked
        /\ owner' = [owner EXCEPT ![upload.file] = upload.by]
        /\ upload'.what = "stored" /\ upload'.file = upload.file
        /\ UNCHANGED <<page, mine, load, view>>
    BY <1>0, <1>5 DEF StoreUpload, DashboardTypeOK
  <2>2. owner'[upload.file] = upload.by
        /\ \A f \in Files : owner[f] # Nobody => owner'[f] = owner[f]
    BY <2>1, <1>0 DEF DashboardTypeOK
  <2> QED
    BY <2>1, <2>2, <1>0
<1>6. CASE Uploaded
  <2>1. upload # Unasked
    BY <1>6 DEF Uploaded
  <2> QED
    BY <1>6, <2>1 DEF Uploaded, LoadData
<1>7. CASE UploadFails
  BY <1>0, <1>7 DEF UploadFails, DashboardTypeOK
<1>8. ASSUME NEW f \in Files, SelectFile(f)
      PROVE  UploadInv'
  BY <1>0, <1>8 DEF SelectFile, InputEnabled, DashboardTypeOK
<1>9. ASSUME NEW f \in Files, DownloadFails(f)
      PROVE  UploadInv'
  BY <1>9, UploadKept DEF DownloadFails
<1>10. ASSUME NEW f \in Files, NEW a \in Accounts, UploadElsewhere(f, a)
       PROVE  UploadInv'
  <2>1. /\ owner[f] = Nobody /\ (upload # Unasked => f # upload.file)
        /\ owner' = [owner EXCEPT ![f] = a]
        /\ UNCHANGED <<page, load, upload, view, mine, error>>
    BY <1>10 DEF UploadElsewhere, data
  <2>2. \A g \in Files : g # f => owner'[g] = owner[g]
    BY <2>1, <1>0 DEF DashboardTypeOK
  <2>3. f \notin mine /\ (upload # Unasked => upload.file \in Files)
    BY <2>1, <1>0 DEF DashboardTypeOK
  <2> QED
    BY <2>1, <2>2, <2>3, <1>0
<1>11. ASSUME NEW q \in Queries \union {NoQuery}, Type(q)
       PROVE  UploadInv'
  BY <1>11, UploadKept DEF Type
<1>12. ASSUME NEW s \in Searches, TimerFires(s) \/ ServeSearch(s) \/ ShowMatches(s)
       PROVE  UploadInv'
  BY <1>12, UploadKept DEF TimerFires, ServeSearch, ShowMatches
<1>13. ASSUME NEW s \in Searches, SearchFails(s)
       PROVE  UploadInv'
  <2>1. UNCHANGED <<owner, data>> /\ error' = (error \/ search[s].live)
    BY <1>13 DEF SearchFails
  <2>2. error \in BOOLEAN
    BY <1>0 DEF DashboardTypeOK
  <2> QED
    BY <2>1, <2>2, UploadKept
<1> QED
  BY <1>1, <1>2, <1>3, <1>4, <1>5, <1>6, <1>7, <1>8, <1>9, <1>10, <1>11, <1>12, <1>13
     DEF DashboardNext

----------------------------------------------------------------------------
(* Navigation, and the invariants of the whole.                            *)

LEMMA FreshInv ==
    ASSUME Fresh, owner' \in [Files -> Senders],
           \/ page' \in {"closed", "barred"} /\ load' = Unasked
           \/ page' = "loading" /\ \E a \in Accounts : load' = LoadData(a)
    PROVE  /\ DashboardTypeOK' /\ BoxInv' /\ UploadInv' /\ MatchInv' /\ RowsInv'
           /\ view'.rows = {}
<1>1. 0 \in 0..Cardinality(Files) /\ Cardinality({}) = 0
  BY CountType, FS_EmptySet
<1>2. load' \in {Unasked} \union [by : Senders, parts : SUBSET {"rows", "total"},
                                rows : SUBSET Files, total : 0..Cardinality(Files)]
  BY <1>1 DEF LoadData, Senders
<1>3. page' \in {"loading", "reloading"} <=> load' # Unasked
  BY DEF LoadData
<1>4. DashboardTypeOK'
  BY <1>1, <1>2, <1>3 DEF Fresh, DashboardTypeOK, NoView, NoFilter, Senders
<1>5. UploadInv'
  BY DEF Fresh, LoadData, UploadInv, LoadIsLate, RowsAreListed
<1>6. RowsInv' /\ view'.rows = {}
  BY DEF Fresh, LoadData, RowsInv, Belong, NoView
<1> QED
  BY <1>4, <1>5, <1>6, BoxFresh, MatchFresh

LEMMA MountInv ==
    ASSUME DashboardTypeOK, NEW a \in Accounts, Mount(a)
    PROVE  /\ DashboardTypeOK' /\ BoxInv' /\ UploadInv' /\ MatchInv' /\ RowsInv'
           /\ load'.by = a /\ view'.rows = {}
<1>1. owner' \in [Files -> Senders]
  BY DEF DashboardTypeOK, Mount
<1> QED
  BY <1>1, FreshInv DEF Mount, LoadData

LEMMA MountBarredInv ==
    ASSUME DashboardTypeOK, MountBarred
    PROVE  /\ DashboardTypeOK' /\ BoxInv' /\ UploadInv' /\ MatchInv' /\ RowsInv'
           /\ load' = Unasked /\ view'.rows = {}
<1>1. owner' \in [Files -> Senders]
  BY DEF DashboardTypeOK, MountBarred
<1> QED
  BY <1>1, FreshInv DEF MountBarred

LEMMA UnmountInv ==
    ASSUME DashboardTypeOK, Unmount
    PROVE  /\ DashboardTypeOK' /\ BoxInv' /\ UploadInv' /\ MatchInv' /\ RowsInv'
           /\ ~ Open'
<1>1. owner' \in [Files -> Senders]
  BY DEF DashboardTypeOK, Unmount
<1>2. Fresh /\ page' = "closed" /\ load' = Unasked
  BY DEF Unmount
<1> QED
  BY <1>1, <1>2, FreshInv DEF Open

\* What is not about the page stays when the dashboard does.
LEMMA DashboardKept ==
    ASSUME DashboardTypeOK, BoxInv, UploadInv, MatchInv, RowsInv, UNCHANGED dashboard
    PROVE  DashboardTypeOK' /\ BoxInv' /\ UploadInv' /\ MatchInv' /\ RowsInv'
           /\ Open' = Open
<1>1. DashboardTypeOK' /\ Open' = Open
  BY DEF dashboard, DashboardTypeOK, Open
<1>2. BoxInv'
  BY BoxKept DEF dashboard, box
<1>3. UploadInv'
  BY UploadKept DEF dashboard, data
<1>4. MatchInv'
  BY MatchKept DEF dashboard
<1>5. RowsInv'
  BY DEF dashboard, RowsInv, Belong, FilesOf
<1> QED
  BY <1>1, <1>2, <1>3, <1>4, <1>5

LEMMA AccountsKept ==
    ASSUME AccountsTypeOK, AccountsInv, UNCHANGED accounts
    PROVE  AccountsTypeOK' /\ AccountsInv'
  BY DEF accounts, AccountsTypeOK, AccountsInv, WelcomeIsStored, GrantedCanReturn

\* Logging in stores a session of an account.
LEMMA WelcomeType ==
    ASSUME TypeOK, NEW f \in Forms, Welcome(f)
    PROVE  session' \in Accounts /\ BrowserTypeOK'
<1>1. form[f] \in Submissions
  BY SubmissionType DEF Welcome, TypeOK
<1> QED
  BY <1>1 DEF Welcome, Submissions, TypeOK, BrowserTypeOK

LEMMA NextIInv == IInv /\ [Next]_vars => IInv'
<1> SUFFICES ASSUME IInv, [Next]_vars
             PROVE  IInv'
  OBVIOUS
<1>0. /\ TypeOK /\ AccountsInv /\ BoxInv /\ RowsInv /\ SessionInv /\ UploadInv /\ MatchInv
      /\ BrowserTypeOK /\ AccountsTypeOK /\ DashboardTypeOK
      /\ nav \in Accounts \union {Nobody} /\ overtaken \in BOOLEAN
      /\ going \in {"nowhere", "dashboard", "elsewhere"}
      /\ session \in Accounts \union {Nobody}
  BY DEF IInv, PageInv, TypeOK, BrowserTypeOK
<1> DEFINE TabTypeOK == /\ nav \in Accounts \union {Nobody}
                        /\ going \in {"nowhere", "dashboard", "elsewhere"}
                        /\ overtaken \in BOOLEAN
           PageParts == /\ DashboardTypeOK /\ BoxInv /\ UploadInv /\ MatchInv /\ RowsInv
<1>a. SUFFICES /\ BrowserTypeOK' /\ AccountsTypeOK' /\ AccountsInv'
               /\ PageParts' /\ TabTypeOK' /\ SessionInv'
  BY DEF IInv, PageInv, TypeOK
<1>b. ASSUME UNCHANGED dashboard
      PROVE  PageParts' /\ Open' = Open
  BY <1>0, <1>b, DashboardKept
<1>c. ASSUME UNCHANGED accounts
      PROVE  AccountsTypeOK' /\ AccountsInv'
  BY <1>0, <1>c, AccountsKept
<1>d. ASSUME UNCHANGED browser
      PROVE  BrowserTypeOK' /\ session' = session
  BY <1>0, <1>d DEF browser, BrowserTypeOK
<1>1. CASE DashboardNext /\ UNCHANGED <<accounts, tab>>
  <2>1. BrowserTypeOK' /\ DashboardTypeOK'
    BY <1>0, <1>1, DashboardType
  <2>2. BoxInv' /\ UploadInv' /\ MatchInv'
    BY <1>0, <1>1, BoxStep, UploadStep, MatchStep
  <2>3. RowsInv' /\ SessionInv'
    BY <1>0, <1>1, RowsStep, SessionStep
  <2> QED
    BY <1>0, <1>1, <1>c, <2>1, <2>2, <2>3 DEF tab
<1>2. ASSUME NEW f \in Forms, SubmitForm(f) \/ Serve(f), UNCHANGED <<dashboard, tab>>
      PROVE  IInv'
  <2>1. AccountsTypeOK' /\ AccountsInv'
    BY <1>0, <1>2, AccountsStep DEF SubmitForm
  <2>2. session' = session /\ BrowserTypeOK'
    <3>1. CASE SubmitForm(f)
      BY <1>0, <3>1, ActType DEF SubmitForm, Submit, BrowserTypeOK
    <3>2. CASE LookUp(f) \/ Insert(f) \/ Compare(f)
      BY <1>0, <3>2 DEF LookUp, Insert, Compare, Goes, browser, BrowserTypeOK
    <3>3. CASE Refused(f)
      BY <1>0, <3>3, FaultType DEF Refused, BrowserTypeOK
    <3> QED
      BY <1>2, <3>1, <3>2, <3>3 DEF Serve
  <2>3. SessionInv'
    BY <1>0, <1>2, <1>b, <2>2 DEF SessionInv, dashboard, tab
  <2> QED
    BY <1>0, <1>2, <1>b, <2>1, <2>2, <2>3 DEF tab, IInv, PageInv, TypeOK
<1>3. ASSUME NEW to \in {"dashboard", "elsewhere"}, Click(to)
      PROVE  IInv'
  <2>1. session' = session /\ BrowserTypeOK'
    BY <1>0, <1>3, ActType DEF Click, BrowserTypeOK
  <2>2. SessionInv'
    BY <1>0, <1>3, <1>b, <2>1 DEF Click, SessionInv, dashboard
  <2> QED
    BY <1>0, <1>3, <1>b, <1>c, <2>1, <2>2 DEF Click, IInv, PageInv, TypeOK
<1>4. CASE EnterDashboard
  <2>1. BrowserTypeOK' /\ session' = session /\ AccountsTypeOK' /\ AccountsInv'
    BY <1>4, <1>c, <1>d DEF EnterDashboard
  <2>2. CASE session = Nobody
    <3>1. PageParts' /\ view'.rows = {}
      BY <1>0, <1>4, <2>2, MountBarredInv DEF EnterDashboard
    <3> QED
      BY <1>0, <1>4, <2>1, <2>2, <3>1 DEF EnterDashboard, Follow, SessionInv
  <2>3. CASE session # Nobody
    <3>1. PageParts' /\ load'.by = session /\ view'.rows = {}
      BY <1>0, <1>4, <2>3, MountInv DEF EnterDashboard
    <3> QED
      BY <1>0, <1>4, <2>1, <2>3, <3>1 DEF EnterDashboard, Follow, SessionInv
  <2> QED
    BY <2>2, <2>3
<1>5. CASE StayOnDashboard
  <2>1. BrowserTypeOK' /\ session' = session /\ AccountsTypeOK' /\ AccountsInv'
    BY <1>5, <1>c, <1>d DEF StayOnDashboard
  <2>2. SessionInv'
    BY <1>0, <1>5, <1>b, <2>1 DEF StayOnDashboard, SessionInv, dashboard
  <2> QED
    BY <1>0, <1>5, <1>b, <2>1, <2>2 DEF StayOnDashboard
<1>6. CASE LeaveDashboard
  <2>1. BrowserTypeOK' /\ AccountsTypeOK' /\ AccountsInv'
    BY <1>6, <1>c, <1>d DEF LeaveDashboard
  <2>2. PageParts' /\ ~ Open'
    BY <1>0, <1>6, UnmountInv DEF LeaveDashboard
  <2> QED
    BY <1>0, <1>6, <2>1, <2>2 DEF LeaveDashboard, Follow, SessionInv
<1>7. CASE GoElsewhere
  <2>1. BrowserTypeOK' /\ AccountsTypeOK' /\ AccountsInv'
    BY <1>7, <1>c, <1>d DEF GoElsewhere
  <2>2. PageParts' /\ ~ Open'
    BY <1>7, <1>b DEF GoElsewhere
  <2> QED
    BY <1>0, <1>7, <2>1, <2>2 DEF GoElsewhere, SessionInv
<1>8. CASE Logout
  <2>1. BrowserTypeOK'
    BY <1>0, <1>8, ActType DEF Logout, BrowserTypeOK
  <2>2. SessionInv'
    BY <1>8 DEF Logout, SessionInv
  <2> QED
    BY <1>8, <1>b, <1>c, <2>1, <2>2 DEF Logout
<1>9. CASE LogIn
  <2>1. AccountsTypeOK' /\ AccountsInv' /\ BrowserTypeOK'
    BY <1>0, <1>9, AccountsStep, WelcomeType, OwnAssumption DEF LogIn
  <2>2. PageParts' /\ Open' = Open /\ overtaken' = Open
    BY <1>9, <1>b DEF LogIn
  <2>3. Open \in BOOLEAN
    BY DEF Open
  <2> QED
    BY <1>0, <1>9, <2>1, <2>2, <2>3 DEF LogIn, SessionInv
<1>10. CASE Elsewhere
  <2>1. PageParts' /\ Open' = Open /\ overtaken' = Open /\ UNCHANGED <<nav, going>>
    BY <1>10, <1>b DEF Elsewhere
  <2>2. AccountsTypeOK' /\ AccountsInv' /\ BrowserTypeOK'
    <3>1. CASE \E f \in Forms \ {Own} : Welcome(f)
      BY <1>0, <3>1, AccountsStep, WelcomeType
    <3>2. CASE Act /\ session' = Nobody /\ UNCHANGED <<faults, accounts>>
      BY <1>0, <3>2, <1>c, ActType DEF BrowserTypeOK
    <3> QED
      BY <1>10, <3>1, <3>2 DEF Elsewhere
  <2>3. Open \in BOOLEAN
    BY DEF Open
  <2> QED
    BY <1>0, <2>1, <2>2, <2>3 DEF SessionInv
<1>11. CASE UNCHANGED vars
  <2>1. UNCHANGED <<dashboard, accounts, browser, tab>>
    BY <1>11 DEF vars
  <2>2. SessionInv'
    BY <1>0, <1>b, <1>d, <2>1 DEF SessionInv, dashboard, tab
  <2> QED
    BY <1>0, <1>b, <1>c, <1>d, <2>1, <2>2 DEF tab
<1> QED
  BY <1>1, <1>2, <1>3, <1>4, <1>5, <1>6, <1>7, <1>8, <1>9, <1>10, <1>11
     DEF Next, IInv, PageInv, TypeOK

LEMMA IInvAlways == Spec => []IInv
<1>1. Init => IInv
  BY InitIInv
<1>2. IInv /\ [Next]_vars => IInv'
  BY NextIInv
<1> QED
  BY <1>1, <1>2, PTL DEF Spec

----------------------------------------------------------------------------
(* The theorems.                                                           *)

\* Every variable keeps its type: the session is that of an account or none, submissions,
\* loads, uploads and searches have the form of the requests they stand for.
THEOREM TypeCorrect == Spec => []TypeOK
<1>1. IInv => TypeOK
  BY DEF IInv
<1> QED
  BY <1>1, IInvAlways, PTL

\* However many registrations of one address run at once, whoever was answered with
\* tokens can log in again: the unique constraint on the address decides (user table,
\* AuthService.register).
THEOREM TokensCanReturn == Spec => []GrantedCanReturn
<1>1. IInv => GrantedCanReturn
  BY DEF IInv, AccountsInv
<1> QED
  BY <1>1, IInvAlways, PTL

\* For any number of searches in flight, in any order of their answers, the table is
\* filtered for the query in the box (the debounced effect of the dashboard).
THEOREM FilterFitsQuery == Spec => []ResultsFitQuery
<1>1. IInv => ResultsFitQuery
  BY DEF IInv, BoxInv
<1> QED
  BY <1>1, IInvAlways, PTL

\* After loadData, which follows each upload, the table that is shown has every file the
\* page was told it uploaded, and while a search filters it every matching one that was
\* uploaded before the search was sent: later answers of searches, loads and uploads never
\* hide one again (handleFileSelected, visibleFiles).
THEOREM UploadsAreListed == Spec => []UploadedIsListed
<1>1. IInv => UploadedIsListed
  BY DEF IInv, UploadInv, RowsAreListed, MatchInv, UploadedIsListed, VisibleFiles
<1> QED
  BY <1>1, IInvAlways, PTL

\* Whatever accounts used the tab before, and however pushes, logouts and answers overlap,
\* the rows of the table are one account's, and this account, the name in the navigation
\* bar and the session are one, unless the session was written under the page or the
\* account has just logged out of it (TopNav, LoginPage, the dashboard's effects).
THEOREM PagesBelongToSession == Spec => []PageIsOfSession
<1>1. ASSUME RowsInv, SessionInv
      PROVE  PageIsOfSession
  <2>1. \A f \in view.rows : owner[f] = view.of
    BY <1>1 DEF RowsInv, Belong, FilesOf
  <2> QED
    BY <1>1, <2>1 DEF SessionInv, PageIsOfSession
<1>2. IInv => PageIsOfSession
  BY <1>1 DEF IInv, PageInv
<1> QED
  BY <1>2, IInvAlways, PTL
=============================================================================
