----------------------------- MODULE WebClient -----------------------------
(***************************************************************************)
(* One tab of the web client: the login page, the navigation bar and the   *)
(* dashboard, next to the login pages of other tabs of the same browser.   *)
(* The tabs share the session; what a tab shows it read earlier.           *)
(***************************************************************************)
EXTENDS Dashboard, Accounts

CONSTANT Own            \* the login form of this tab; the others are other tabs'

ASSUME OwnAssumption == Own \in Forms

VARIABLES
    nav,                \* the user TopNav shows
    going,              \* where the last router.push goes, until the page is there
    overtaken           \* was the session written under the mounted page? (auxiliary)

tab == <<nav, going, overtaken>>
vars == <<browser, dashboard, accounts, tab>>

Init ==
    /\ BrowserInit
    /\ AccountsInit
    /\ DashboardInit
    /\ session # Nobody => password[session] # NoPassword
    /\ nav = session
    /\ going = "nowhere"
    /\ overtaken = FALSE

Open == page # "closed"

\* TopNav shows a name, and with it the button to log out.
LoggedIn == nav # Nobody

\* Slip: the effect of TopNav runs once, not for each path.
FollowBug(a) == nav' = IF nav = Nobody THEN a ELSE nav

\* The effect of TopNav on a new path.
Follow(a) == nav' = a

----------------------------------------------------------------------------
(* Navigation: router.push and the links change the page some time later,  *)
(* and a later one takes the place of one under way.                       *)

\* A link of TopNav or of the home page.
Click(to) ==
    /\ Act
    /\ going' = to
    /\ UNCHANGED <<session, faults, accounts, dashboard, nav, overtaken>>

\* The dashboard is mounted. Without a session it pushes /login.
EnterDashboard ==
    /\ going = "dashboard" /\ ~ Open
    /\ Follow(session)
    /\ overtaken' = FALSE
    /\ IF session = Nobody
       THEN MountBarred /\ going' = "elsewhere"
       ELSE Mount(session) /\ going' = "nowhere"
    /\ UNCHANGED <<browser, accounts>>

\* The path stays the same: no effect runs.
StayOnDashboard ==
    /\ going = "dashboard" /\ Open
    /\ going' = "nowhere"
    /\ UNCHANGED <<browser, accounts, dashboard, nav, overtaken>>

LeaveDashboard ==
    /\ going = "elsewhere" /\ Open
    /\ Unmount /\ Follow(session)
    /\ going' = "nowhere" /\ overtaken' = FALSE
    /\ UNCHANGED <<browser, accounts>>

\* From the home page or /login to one of them, perhaps the same one.
GoElsewhere ==
    /\ going = "elsewhere" /\ ~ Open
    /\ going' = "nowhere"
    /\ nav' \in {nav, session}
    /\ UNCHANGED <<browser, accounts, dashboard, overtaken>>

\* handleLogout: the page stays mounted until its push has been followed.
Logout ==
    /\ Act
    /\ LoggedIn
    /\ session' = Nobody
    /\ nav' = Nobody
    /\ going' = "elsewhere"
    /\ overtaken' = FALSE
    /\ UNCHANGED <<faults, accounts, dashboard>>

\* The rest of handleSubmit.
LogIn ==
    /\ Welcome(Own)
    /\ going' = "dashboard"
    /\ overtaken' = Open
    /\ UNCHANGED <<dashboard, nav>>

\* Another tab logs in, or logs out.
Elsewhere ==
    /\ \/ \E f \in Forms \ {Own} : Welcome(f)
       \/ Act /\ session # Nobody /\ session' = Nobody /\ UNCHANGED <<faults, accounts>>
    /\ overtaken' = Open
    /\ UNCHANGED <<dashboard, nav, going>>

SubmitForm(f) ==
    /\ f = Own => ~ Open
    /\ \E mode \in {"register", "login"}, a \in Accounts, p \in Passwords :
        Submit(f, mode, a, p)

Next ==
    \/ DashboardNext /\ UNCHANGED <<accounts, tab>>
    \/ \E f \in Forms : (SubmitForm(f) \/ Serve(f)) /\ UNCHANGED <<dashboard, tab>>
    \/ \E to \in {"dashboard", "elsewhere"} : Click(to)
    \/ EnterDashboard \/ StayOnDashboard \/ LeaveDashboard \/ GoElsewhere
    \/ Logout \/ LogIn \/ Elsewhere

Spec == Init /\ [][Next]_vars

TypeOK ==
    /\ BrowserTypeOK /\ AccountsTypeOK /\ DashboardTypeOK
    /\ nav \in Accounts \union {Nobody}
    /\ going \in {"nowhere", "dashboard", "elsewhere"}
    /\ overtaken \in BOOLEAN

\* The rows of the table belong to one account, whoever used the tab before and however
\* its navigations overlap, and this account is the one of the navigation bar and of the
\* token of the next request. Two things are excused: a session written under the open
\* page by another tab or by an answer to a submission of this tab the user did not wait
\* for; and the rows of the account that has just logged out, which are shown until the
\* page is left.
PageIsOfSession ==
    /\ \A f, g \in view.rows : owner[f] = owner[g]
    /\ Open /\ ~ overtaken =>
        /\ nav = session
        /\ session # Nobody => \A f \in view.rows : owner[f] = session
=============================================================================
