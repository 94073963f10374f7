------------------------------ MODULE Browser ------------------------------
(***************************************************************************)
(* What the tabs of one browser share: the session in localStorage.  A     *)
(* page keeps no copy of the tokens: each request reads the session at the *)
(* moment it is sent.                                                      *)
(***************************************************************************)
EXTENDS Naturals

CONSTANTS
    Accounts,
    Nobody,             \* no session
    MaxActions,         \* bound: what users do
    MaxFaults           \* bound: failed or lost requests

ASSUME BrowserAssumption ==
    /\ Nobody \notin Accounts
    /\ MaxActions \in Nat /\ MaxFaults \in Nat

VARIABLES
    session,            \* whose access token authHeader() sends
    actions, faults

browser == <<session, actions, faults>>

BrowserInit ==
    /\ session \in Accounts \union {Nobody}
    /\ actions = 0
    /\ faults = 0

BrowserTypeOK ==
    /\ session \in Accounts \union {Nobody}
    /\ actions \in 0..MaxActions
    /\ faults \in 0..MaxFaults

\* A user does something.
Act == actions < MaxActions /\ actions' = actions + 1

\* A service, the gateway or the network fails a request.
Fault == faults < MaxFaults /\ faults' = faults + 1

\* A request without a token is answered 401; any other can fail, an expired token
\* included.
Fails(by) == (by = Nobody /\ UNCHANGED faults) \/ Fault
=============================================================================
