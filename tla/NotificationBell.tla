-------------------------- MODULE NotificationBell --------------------------
(***************************************************************************)
(* The bell in the navigation bar and the notifications it reads from      *)
(* notification-service, from the moment it is mounted.  Loads overlap:    *)
(* one starts every 8 seconds, when the list is opened and after each      *)
(* mark, none waits for another, and the list and the unread count of one  *)
(* load are two queries.  The last answer to arrive is what is shown.      *)
(***************************************************************************)
EXTENDS Browser, FiniteSets

CONSTANTS
    Total,              \* bound: notifications
    Owner,              \* Owner[n]: the account it is for
    Limit,              \* listLimit
    Calls               \* bound: asynchronous calls of the bell in flight

Notifications == 1..Total       \* in the order of created_at

ASSUME BellAssumption ==
    /\ Total \in Nat
    /\ Owner \in [Notifications -> Accounts]
    /\ Limit \in Nat

VARIABLES
    row,                \* the notifications table: "absent", "unread", "read"
    shown,              \* the list on the screen
    badge,              \* the unread count on the screen
    call                \* what each call is waiting for

bell == <<row, shown, badge, call>>
vars == <<browser, bell>>

Empty == [n \in {} |-> "absent"]
Idle == [what |-> "idle"]
Load(a) == [what |-> "load", by |-> a, parts |-> {}, list |-> Empty, count |-> 0]
MarkOf(what, a, n) == [what |-> what, by |-> a, id |-> n]

Init ==
    /\ BrowserInit
    /\ row = [n \in Notifications |-> "absent"]
    /\ shown = Empty
    /\ badge = 0
    /\ call = [c \in Calls |-> Idle]

Becomes(c, new) == call' = [call EXCEPT ![c] = new]

----------------------------------------------------------------------------
(* notification-service.                                                   *)

Of(a) == {n \in Notifications : Owner[n] = a /\ row[n] # "absent"}

\* listByOwner: the newest Limit.
List(a) ==
    [n \in {m \in Of(a) : Cardinality({k \in Of(a) : k > m}) < Limit} |-> row[n]]

UnreadCount(a) == Cardinality({n \in Of(a) : row[n] = "unread"})

\* create, by the handlers of chunk.uploaded and file.accessed.
Create(n) ==
    /\ Act
    /\ row[n] = "absent"
    /\ \A m \in 1..(n - 1) : row[m] # "absent"
    /\ row' = [row EXCEPT ![n] = "unread"]
    /\ UNCHANGED <<session, faults, shown, badge, call>>

ReadList(c) ==
    /\ call[c].what = "load" /\ call[c].by # Nobody /\ "list" \notin call[c].parts
    /\ Becomes(c, [call[c] EXCEPT !.parts = @ \union {"list"}, !.list = List(call[c].by)])
    /\ UNCHANGED <<browser, row, shown, badge>>

ReadCount(c) ==
    /\ call[c].what = "load" /\ call[c].by # Nobody /\ "count" \notin call[c].parts
    /\ Becomes(c, [call[c] EXCEPT !.parts = @ \union {"count"},
                                  !.count = UnreadCount(call[c].by)])
    /\ UNCHANGED <<browser, row, shown, badge>>

\* Slip: the update looks for the id alone.
MatchesBug(m, n) == IF m.what = "all" THEN Owner[n] = m.by ELSE n = m.id

\* The rows the WHERE of markRead or of markAllRead selects.
Matches(m, n) == Owner[n] = m.by /\ (m.what = "all" \/ n = m.id)

Update(m) == [n \in Notifications |->
                IF row[n] # "absent" /\ Matches(m, n) THEN "read" ELSE row[n]]

\* A mark that found no row is a 404: the handler of the click ends with it.
Mark(c) ==
    /\ call[c].what \in {"one", "all"} /\ call[c].by # Nobody
    /\ row' = Update(call[c])
    /\ Becomes(c, IF call[c].what = "one" /\ ~ Matches(call[c], call[c].id)
                  THEN Idle ELSE [what |-> "marked"])
    /\ UNCHANGED <<browser, shown, badge>>

----------------------------------------------------------------------------
(* The component.                                                          *)

\* Slip: the bell loads once, when it is mounted.
StartBug(c) ==
    /\ call[c] = Idle
    /\ shown = Empty /\ badge = 0
    /\ Becomes(c, Load(session))
    /\ UNCHANGED <<browser, row, shown, badge>>

\* load: on mount, every 8 seconds, on opening the list.
Start(c) ==
    /\ call[c] = Idle
    /\ Becomes(c, Load(session))
    /\ UNCHANGED <<browser, row, shown, badge>>

Show(c) ==
    /\ call[c].what = "load" /\ call[c].parts = {"list", "count"}
    /\ shown' = call[c].list
    /\ badge' = call[c].count
    /\ Becomes(c, Idle)
    /\ UNCHANGED <<browser, row>>

\* The catch of load keeps the bell quiet, with what it showed before.
LoadFails(c) ==
    /\ call[c].what = "load"
    /\ Fails(call[c].by)
    /\ Becomes(c, Idle)
    /\ UNCHANGED <<session, actions, row, shown, badge>>

\* handleMarkAll: the button is there while the badge is.
MarkAll(c) ==
    /\ Act
    /\ call[c] = Idle /\ badge > 0
    /\ Becomes(c, MarkOf("all", session, 0))
    /\ UNCHANGED <<session, faults, row, shown, badge>>

\* A notification of the list, with its dot.
Unread(n) == n \in DOMAIN shown /\ shown[n] = "unread"

\* Slip: the badge is counted down before the answer.
ClickBug(c, n) ==
    /\ Act
    /\ call[c] = Idle /\ Unread(n)
    /\ Becomes(c, MarkOf("one", session, n))
    /\ badge' = badge - 1
    /\ UNCHANGED <<session, faults, row, shown>>

\* handleClickNotification.
Click(c, n) ==
    /\ Act
    /\ call[c] = Idle /\ Unread(n)
    /\ Becomes(c, MarkOf("one", session, n))
    /\ UNCHANGED <<session, faults, row, shown, badge>>

\* The answer to a mark: the call goes on with a load.
Marked(c) ==
    /\ call[c].what = "marked"
    /\ Becomes(c, Load(session))
    /\ UNCHANGED <<browser, row, shown, badge>>

\* A mark that fails, or whose answer is lost, ends its call without a load.
MarkFails(c) ==
    /\ \/ call[c].what \in {"one", "all"} /\ Fails(call[c].by)
       \/ call[c].what = "marked" /\ Fault
    /\ Becomes(c, Idle)
    /\ UNCHANGED <<session, actions, row, shown, badge>>

----------------------------------------------------------------------------
\* Another tab logs in or out: the bell stays, and later requests are sent with what is
\* stored then.
SessionChanges(a) ==
    /\ Act
    /\ session' = a
    /\ UNCHANGED <<faults, bell>>

Answer(c) == ReadList(c) \/ ReadCount(c) \/ Mark(c) \/ Show(c) \/ Marked(c)
Refuse(c) == call[c] # Idle /\ (LoadFails(c) \/ MarkFails(c))

Next ==
    \/ \E n \in Notifications : Create(n)
    \/ \E c \in Calls :
        \/ Start(c) \/ ReadList(c) \/ ReadCount(c) \/ Show(c) \/ LoadFails(c)
        \/ MarkAll(c) \/ Mark(c) \/ Marked(c) \/ MarkFails(c)
        \/ \E n \in Notifications : Click(c, n)
    \/ \E a \in Accounts \union {Nobody} : SessionChanges(a)

Spec == Init /\ [][Next]_vars

\* The interval keeps firing and requests are answered.
FairSpec ==
    /\ Spec
    /\ WF_vars(\E c \in Calls : Start(c))
    /\ \A c \in Calls : WF_vars(Answer(c) \/ Refuse(c))

----------------------------------------------------------------------------
TypeOK ==
    /\ BrowserTypeOK
    /\ row \in [Notifications -> {"absent", "unread", "read"}]
    /\ DOMAIN shown \subseteq Notifications
    /\ \A n \in DOMAIN shown : shown[n] \in {"unread", "read"}
    /\ badge \in 0..Cardinality(Notifications)
    /\ \A c \in Calls : call[c].what \in {"idle", "load", "one", "all", "marked"}

\* A notification is marked read only for its owner: by a request that carries the
\* owner's token and names it or all, whatever list the tab still shows.
OnlyOwnersMark ==
    [][\A n \in Notifications :
        row[n] = "unread" /\ row'[n] = "read"
            => \E c \in Calls :
                /\ call[c].what \in {"one", "all"}
                /\ call[c].by = Owner[n]
                /\ call[c].what = "one" => call[c].id = n]_vars

\* Once nothing changes any more, the bell comes to show the list and the unread
\* count of the account that is logged in, although answers overtake each other and
\* the two numbers of one answer may not fit.
BellConverges ==
    <>[](session \in Accounts =>
            shown = List(session) /\ badge = UnreadCount(session))
=============================================================================
