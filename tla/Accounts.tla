------------------------------ MODULE Accounts ------------------------------
(***************************************************************************)
(* auth-service and the login pages that call it.  A registration looks    *)
(* the e-mail address up, hashes the password and inserts, with nothing    *)
(* held in between but the unique constraint.                              *)
(*                                                                         *)
(* Not covered: the contents of tokens; refresh and /me, which read only   *)
(* and which no page calls.                                                *)
(***************************************************************************)
EXTENDS Browser

CONSTANTS
    Passwords,
    NoPassword,         \* no account has this address
    Forms               \* login pages, each with one submission at a time

ASSUME AccountsAssumption == NoPassword \notin Passwords

VARIABLES
    password,           \* the users table: whose hash each address has
    form,               \* the submission of each login page
    granted             \* addresses and passwords answered with tokens (auxiliary)

accounts == <<password, form, granted>>

Unsent == [what |-> "idle"]
Submission(what, a, p) == [what |-> what, for |-> a, with |-> p]

AccountsInit ==
    /\ password \in [Accounts -> Passwords \union {NoPassword}]
    /\ form = [f \in Forms |-> Unsent]
    /\ granted = {}

----------------------------------------------------------------------------
(* auth-service.                                                           *)

\* findByEmail.
Exists(a) == password[a] # NoPassword

Goes(f, what) ==
    /\ form' = [form EXCEPT ![f].what = what]
    /\ UNCHANGED <<browser, granted>>

\* register: findByEmail.
LookUp(f) ==
    /\ form[f].what = "register"
    /\ Goes(f, IF Exists(form[f].for) THEN "refused" ELSE "free")
    /\ UNCHANGED password

\* Slip: the insert replaces the row that is there.
InsertBug(f) ==
    /\ form[f].what = "free"
    /\ password' = [password EXCEPT ![form[f].for] = form[f].with]
    /\ Goes(f, "welcome")

\* register, after bcrypt.hash: create.  UNIQUE (email) turns the second insert into an
\* error, answered 500.
Insert(f) ==
    /\ form[f].what = "free"
    /\ IF Exists(form[f].for)
       THEN Goes(f, "refused") /\ UNCHANGED password
       ELSE /\ password' = [password EXCEPT ![form[f].for] = form[f].with]
            /\ Goes(f, "welcome")

\* login: one answer for an unknown address and for a wrong password.
Compare(f) ==
    /\ form[f].what = "login"
    /\ Goes(f, IF password[form[f].for] = form[f].with THEN "welcome" ELSE "refused")
    /\ UNCHANGED password

----------------------------------------------------------------------------
(* The login page.                                                         *)

\* handleSubmit, in either mode: the button is disabled until the answer.
Submit(f, mode, a, p) ==
    /\ Act
    /\ form[f] = Unsent
    /\ form' = [form EXCEPT ![f] = Submission(mode, a, p)]
    /\ UNCHANGED <<session, faults, password, granted>>

\* The answer has tokens: setStoredSession.
Welcome(f) ==
    /\ form[f].what = "welcome"
    /\ session' = form[f].for
    /\ granted' = granted \union {<<form[f].for, form[f].with>>}
    /\ form' = [form EXCEPT ![f] = Unsent]
    /\ UNCHANGED <<actions, faults, password>>

\* The answer is an error, or none comes: auth-service ends, or only the answer is lost.
Refused(f) ==
    /\ form[f] # Unsent
    /\ (form[f].what = "refused" /\ UNCHANGED faults) \/ Fault
    /\ form' = [form EXCEPT ![f] = Unsent]
    /\ UNCHANGED <<session, actions, password, granted>>

Serve(f) == LookUp(f) \/ Insert(f) \/ Compare(f) \/ Refused(f)

AccountsTypeOK ==
    /\ password \in [Accounts -> Passwords \union {NoPassword}]
    /\ granted \subseteq Accounts \X Passwords
    /\ form \in [Forms -> {Unsent} \union
                          [what : {"register", "login", "free", "welcome", "refused"},
                           for : Accounts, with : Passwords]]

\* Whoever was answered with tokens can log in again with the same password: of two
\* registrations of one address that both found it free, only the one whose password
\* was stored is answered with them.
GrantedCanReturn == \A g \in granted : password[g[1]] = g[2]
=============================================================================
