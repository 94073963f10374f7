---------------------- MODULE NotificationBell_proofs ----------------------
(***************************************************************************)
(* Proofs about NotificationBell, for any accounts, notifications, limit   *)
(* of the list and calls in flight.  That the bell converges is a liveness *)
(* property and stays with TLC.                                            *)
(***************************************************************************)
EXTENDS NotificationBell, FiniteSetTheorems, TLAPS

RowsTyped == row \in [Notifications -> {"absent", "unread", "read"}]

\* The table changes by an insert, or by the update of a mark.
LEMMA RowsStep ==
    ASSUME RowsTyped, [Next]_vars
    PROVE  /\ RowsTyped'
           /\ \/ UNCHANGED row
              \/ \E n \in Notifications : row[n] = "absent" /\ row' = [row EXCEPT ![n] = "unread"]
              \/ \E c \in Calls : call[c].what \in {"one", "all"} /\ row' = Update(call[c])
<1>1. ASSUME NEW n \in Notifications, Create(n)
      PROVE  row[n] = "absent" /\ row' = [row EXCEPT ![n] = "unread"]
  BY <1>1 DEF Create
<1>2. ASSUME NEW c \in Calls, Mark(c)
      PROVE  call[c].what \in {"one", "all"} /\ row' = Update(call[c])
  BY <1>2 DEF Mark
<1>3. ASSUME NEW c \in Calls,
             \/ Start(c) \/ ReadList(c) \/ ReadCount(c) \/ Show(c) \/ LoadFails(c)
             \/ MarkAll(c) \/ Marked(c) \/ MarkFails(c)
             \/ \E n \in Notifications : Click(c, n)
      PROVE  UNCHANGED row
  BY <1>3 DEF Start, ReadList, ReadCount, Show, LoadFails, MarkAll, Marked, MarkFails, Click
<1>4. ASSUME NEW a, SessionChanges(a)
      PROVE  UNCHANGED row
  BY <1>4 DEF SessionChanges, bell
<1>5. ASSUME UNCHANGED vars
      PROVE  UNCHANGED row
  BY <1>5 DEF vars, bell
<1>6. \/ UNCHANGED row
      \/ \E n \in Notifications : row[n] = "absent" /\ row' = [row EXCEPT ![n] = "unread"]
      \/ \E c \in Calls : call[c].what \in {"one", "all"} /\ row' = Update(call[c])
  BY <1>1, <1>2, <1>3, <1>4, <1>5 DEF Next
<1>7. RowsTyped'
  BY <1>6 DEF RowsTyped, Update
<1> QED
  BY <1>6, <1>7

\* A notification is marked read only by a request with its owner's token that names it or
\* all of them (the WHERE clauses of markRead and markAllRead), for any number of accounts
\* and of overlapping calls.
THEOREM MarksAreOwners == Spec => OnlyOwnersMark
<1> DEFINE ByOwner(n) ==
      row[n] = "unread" /\ row'[n] = "read"
          => \E c \in Calls :
              /\ call[c].what \in {"one", "all"}
              /\ call[c].by = Owner[n]
              /\ call[c].what = "one" => call[c].id = n
<1>1. Init => RowsTyped
  BY DEF Init, RowsTyped
<1>2. RowsTyped /\ [Next]_vars => RowsTyped'
  BY RowsStep
<1>3. RowsTyped /\ [Next]_vars => [\A n \in Notifications : ByOwner(n)]_vars
  <2> SUFFICES ASSUME RowsTyped, [Next]_vars, NEW n \in Notifications,
                      row[n] = "unread", row'[n] = "read"
               PROVE  \E c \in Calls :
                        /\ call[c].what \in {"one", "all"}
                        /\ call[c].by = Owner[n]
                        /\ call[c].what = "one" => call[c].id = n
    OBVIOUS
  <2>1. PICK c \in Calls : call[c].what \in {"one", "all"} /\ row' = Update(call[c])
    BY RowsStep DEF RowsTyped
  <2>2. Matches(call[c], n)
    BY <2>1 DEF Update
  <2> QED
    BY <2>1, <2>2 DEF Matches
<1> QED
  BY <1>1, <1>2, <1>3, PTL DEF Spec, OnlyOwnersMark

----------------------------------------------------------------------------
(* Types.                                                                  *)

Tokens == Accounts \union {Nobody}
Lists == UNION {[S -> {"unread", "read"}] : S \in SUBSET Notifications}
Loads == [what : {"load"}, by : Tokens, parts : SUBSET {"list", "count"},
          list : Lists, count : 0..Cardinality(Notifications)]
Marks == [what : {"one", "all"}, by : Tokens, id : 0..Total]
CallStates == {Idle, [what |-> "marked"]} \union Loads \union Marks

\* What an answer carries can be shown: the list and the count of a load are those of some
\* account at some moment.  The inductive invariant.
CallsFit == shown \in Lists /\ call \in [Calls -> CallStates]
IInv == TypeOK /\ CallsFit

LEMMA CallKinds ==
    ASSUME NEW m \in CallStates
    PROVE  /\ m.what \in {"idle", "load", "one", "all", "marked"}
           /\ m.what = "load" => m \in Loads
           /\ m.what \in {"one", "all"} => m \in Marks
BY DEF CallStates, Idle, Loads, Marks

\* The answers of the service.
LEMMA Answers ==
    ASSUME IInv, NEW a
    PROVE  List(a) \in Lists /\ UnreadCount(a) \in 0..Cardinality(Notifications)
<1>1. List(a) \in Lists
  <2> DEFINE S == {m \in Of(a) : Cardinality({k \in Of(a) : k > m}) < Limit}
  <2>1. S \in SUBSET Notifications /\ \A n \in S : row[n] \in {"unread", "read"}
    BY DEF Of, IInv, TypeOK
  <2>2. List(a) = [n \in S |-> row[n]]
    BY DEF List
  <2> HIDE DEF S
  <2>3. List(a) \in [S -> {"unread", "read"}]
    BY <2>1, <2>2
  <2> QED
    BY <2>1, <2>3 DEF Lists
<1>2. UnreadCount(a) \in 0..Cardinality(Notifications)
  <2> DEFINE U == {n \in Of(a) : row[n] = "unread"}
  <2>1. U \in SUBSET Notifications
    BY DEF Of
  <2>2. IsFiniteSet(Notifications)
    BY BellAssumption, FS_Interval DEF Notifications
  <2> HIDE DEF U
  <2>3. Cardinality(U) \in Nat /\ Cardinality(Notifications) \in Nat
        /\ Cardinality(U) <= Cardinality(Notifications)
    BY <2>1, <2>2, FS_Subset, FS_CardinalityType
  <2> QED
    BY <2>3 DEF UnreadCount, U
<1> QED
  BY <1>1, <1>2

LEMMA CallStep ==
    ASSUME IInv, NEW c \in Calls, NEW new \in CallStates, Becomes(c, new)
    PROVE  call' \in [Calls -> CallStates]
BY DEF Becomes, IInv, CallsFit

\* A load that starts, for whoever is logged in.
LEMMA LoadFits == ASSUME IInv PROVE Load(session) \in CallStates
<1>1. Empty \in Lists
  <2> DEFINE none == {}
  <2>1. Empty \in [none -> {"unread", "read"}] /\ none \in SUBSET Notifications
    BY DEF Empty
  <2> HIDE DEF none
  <2> QED
    BY <2>1 DEF Lists
<1>2. 0 \in 0..Cardinality(Notifications)
  BY BellAssumption, FS_Interval, FS_CardinalityType DEF Notifications
<1>3. session \in Tokens
  BY DEF IInv, TypeOK, BrowserTypeOK, Tokens
<1> QED
  BY <1>1, <1>2, <1>3 DEF Load, CallStates, Loads

LEMMA BellFitsStep ==
    ASSUME IInv, [Next]_vars
    PROVE  CallsFit' /\ badge' \in 0..Cardinality(Notifications)
<1> DEFINE Fit == CallsFit' /\ badge' \in 0..Cardinality(Notifications)
<1> SUFFICES Fit
  OBVIOUS
<1>0. shown \in Lists /\ call \in [Calls -> CallStates] /\ badge \in 0..Cardinality(Notifications)
      /\ session \in Tokens
  BY DEF IInv, CallsFit, TypeOK, BrowserTypeOK, Tokens
<1>1. ASSUME NEW c \in Calls, NEW new \in CallStates, Becomes(c, new), UNCHANGED <<shown, badge>>
      PROVE  Fit
  BY <1>0, <1>1, CallStep DEF CallsFit
<1>2. Idle \in CallStates /\ [what |-> "marked"] \in CallStates
  BY DEF CallStates
<1>3. ASSUME UNCHANGED <<shown, badge, call>> PROVE Fit
  BY <1>0, <1>3 DEF CallsFit
<1>4. ASSUME NEW n \in Notifications, Create(n) PROVE Fit
  BY <1>3, <1>4 DEF Create
<1>5. ASSUME NEW c \in Calls, Start(c) \/ Marked(c) PROVE Fit
  BY <1>1, <1>5, LoadFits DEF Start, Marked
<1>6. ASSUME NEW c \in Calls, ReadList(c) PROVE Fit
  <2> DEFINE new == [call[c] EXCEPT !.parts = @ \union {"list"}, !.list = List(call[c].by)]
  <2>1. call[c] \in Loads
    BY <1>0, <1>6, CallKinds DEF ReadList
  <2>2. List(call[c].by) \in Lists
    BY Answers
  <2>3. new \in Loads
    BY <2>1, <2>2 DEF Loads
  <2>4. Becomes(c, new) /\ UNCHANGED <<shown, badge>>
    BY <1>6 DEF ReadList
  <2> HIDE DEF new
  <2> QED
    BY <1>1, <2>3, <2>4 DEF CallStates
<1>7. ASSUME NEW c \in Calls, ReadCount(c) PROVE Fit
  <2> DEFINE new == [call[c] EXCEPT !.parts = @ \union {"count"},
                                    !.count = UnreadCount(call[c].by)]
  <2>1. call[c] \in Loads
    BY <1>0, <1>7, CallKinds DEF ReadCount
  <2>2. UnreadCount(call[c].by) \in 0..Cardinality(Notifications)
    BY Answers
  <2>3. new \in Loads
    BY <2>1, <2>2 DEF Loads
  <2>4. Becomes(c, new) /\ UNCHANGED <<shown, badge>>
    BY <1>7 DEF ReadCount
  <2> HIDE DEF new
  <2> QED
    BY <1>1, <2>3, <2>4 DEF CallStates
<1>8. ASSUME NEW c \in Calls, Show(c) PROVE Fit
  <2>1. call[c] \in Loads
    BY <1>0, <1>8, CallKinds DEF Show
  <2>2. shown' \in Lists /\ badge' \in 0..Cardinality(Notifications)
    BY <1>8, <2>1 DEF Show, Loads
  <2>3. call' \in [Calls -> CallStates]
    BY <1>2, <1>8, CallStep DEF Show
  <2> QED
    BY <2>2, <2>3 DEF CallsFit
<1>9. ASSUME NEW c \in Calls, LoadFails(c) \/ MarkFails(c) PROVE Fit
  BY <1>1, <1>2, <1>9 DEF LoadFails, MarkFails
<1>10. ASSUME NEW c \in Calls, MarkAll(c) PROVE Fit
  <2>1. MarkOf("all", session, 0) \in CallStates
    BY <1>0, BellAssumption DEF MarkOf, CallStates, Marks
  <2> QED
    BY <1>1, <1>10, <2>1 DEF MarkAll
<1>11. ASSUME NEW c \in Calls, NEW n \in Notifications, Click(c, n) PROVE Fit
  <2>1. MarkOf("one", session, n) \in CallStates
    BY <1>0, BellAssumption DEF MarkOf, CallStates, Marks, Notifications
  <2> QED
    BY <1>1, <1>11, <2>1 DEF Click
<1>12. ASSUME NEW c \in Calls, Mark(c) PROVE Fit
  BY <1>1, <1>2, <1>12 DEF Mark
<1>13. ASSUME NEW a, SessionChanges(a) PROVE Fit
  BY <1>3, <1>13 DEF SessionChanges, bell
<1>14. ASSUME UNCHANGED vars PROVE Fit
  BY <1>3, <1>14 DEF vars, bell
<1> QED
  BY <1>4, <1>5, <1>6, <1>7, <1>8, <1>9, <1>10, <1>11, <1>12, <1>13, <1>14 DEF Next

LEMMA BrowserStep == ASSUME IInv, [Next]_vars PROVE BrowserTypeOK'
<1>1. MaxActions \in Nat /\ MaxFaults \in Nat
  BY BrowserAssumption
<1>2. ASSUME Act PROVE actions' \in 0..MaxActions
  BY <1>1, <1>2 DEF Act, IInv, TypeOK, BrowserTypeOK
<1>3. ASSUME Fault \/ UNCHANGED faults PROVE faults' \in 0..MaxFaults
  BY <1>1, <1>3 DEF Fault, IInv, TypeOK, BrowserTypeOK
<1>4. /\ session' \in Accounts \union {Nobody}
      /\ Act \/ UNCHANGED actions
      /\ Fault \/ UNCHANGED faults
  BY DEF Next, Create, Start, ReadList, ReadCount, Show, LoadFails, MarkAll, Mark, Marked,
     MarkFails, Click, SessionChanges, Fails, browser, vars, IInv, TypeOK, BrowserTypeOK
<1> QED
  BY <1>2, <1>3, <1>4 DEF IInv, TypeOK, BrowserTypeOK

LEMMA InvariantStep == ASSUME IInv, [Next]_vars PROVE IInv'
<1>1. BrowserTypeOK'
  BY BrowserStep
<1>2. RowsTyped'
  BY RowsStep DEF IInv, TypeOK, RowsTyped
<1>3. CallsFit' /\ badge' \in 0..Cardinality(Notifications)
  BY BellFitsStep
<1>4. DOMAIN shown' \subseteq Notifications /\ \A n \in DOMAIN shown' : shown'[n] \in {"unread", "read"}
  BY <1>3 DEF CallsFit, Lists
<1>5. \A c \in Calls : call'[c].what \in {"idle", "load", "one", "all", "marked"}
  BY <1>3, CallKinds DEF CallsFit
<1> QED
  BY <1>1, <1>2, <1>3, <1>4, <1>5 DEF IInv, TypeOK, RowsTyped

LEMMA InitFits == Init => IInv
<1> SUFFICES ASSUME Init PROVE IInv
  OBVIOUS
<1>1. BrowserTypeOK
  BY BrowserAssumption DEF Init, BrowserInit, BrowserTypeOK
<1>2. Empty \in Lists
  <2> DEFINE none == {}
  <2>1. Empty \in [none -> {"unread", "read"}] /\ none \in SUBSET Notifications
    BY DEF Empty
  <2> HIDE DEF none
  <2> QED
    BY <2>1 DEF Lists
<1>3. CallsFit
  BY <1>2 DEF Init, CallsFit, CallStates
<1>4. 0 \in 0..Cardinality(Notifications)
  BY BellAssumption, FS_Interval, FS_CardinalityType DEF Notifications
<1>5. TypeOK
  BY <1>1, <1>4 DEF Init, TypeOK, Empty, Idle
<1> QED
  BY <1>3, <1>5 DEF IInv

\* However loads overlap and in whatever order their two parts are answered, what the bell
\* shows are notifications, read or unread, and the badge, which each mark counts down by
\* one, neither becomes negative nor exceeds their number (setNotifications,
\* setUnreadCount).
THEOREM TypeCorrect == Spec => []TypeOK
<1>1. IInv => TypeOK
  BY DEF IInv
<1> QED
  BY <1>1, InitFits, InvariantStep, PTL DEF Spec
=============================================================================
