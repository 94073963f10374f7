SPECIFICATION Spec
CONSTANTS
    f1 = f1  f2 = f2  q1 = q1  q2 = q2
    Accounts = {ann, bob}
    Nobody = Nobody
    Passwords = {p1, p2}
    NoPassword = NoPassword
    Forms = {own, other}
    Own = own
    Files = {f1, f2}
    Queries = {q1, q2}
    NoQuery = NoQuery
    Match <- MCMatch
    Searches = {s1, s2}
    MaxActions = 4
    MaxFaults = 1
SYMMETRY AccountSymmetry
INVARIANTS TypeOK ResultsFitQuery UploadedIsListed PageIsOfSession GrantedCanReturn
CHECK_DEADLOCK FALSE
