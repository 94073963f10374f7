SPECIFICATION FairSpec
CONSTANTS
    f1 = f1  u1 = u1  u2 = u2  r1 = r1  a1 = a1  a2 = a2  d1 = d1  d2 = d2
    Files = {f1}
    Users = {u1, u2}
    Registrations = {r1}
    Additions = {a1, a2}
    Deletions = {d1, d2}
    FileOf <- MCFileOf
    Caller <- MCCaller
    MaxFaults = 2
INVARIANTS TypeOK NumberIsOwn LosersHaveWinners NoEmptyFiles
PROPERTIES KeepsCatalog RequestsAnswered
CHECK_DEADLOCK FALSE
