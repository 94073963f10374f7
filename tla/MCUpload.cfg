SPECIFICATION FairSpec
CONSTANTS
    f1 = f1  f2 = f2  u1 = u1  u2 = u2  u3 = u3  k1 = k1  k2 = k2
    Files = {f1, f2}
    Calls = {u1, u2, u3}
    FileOf <- MCFileOf
    Keys = {k1, k2}
    Content <- MCContent
    NewFiles = {u1, u3}
    MaxFaults = 1
INVARIANTS TypeOK MissingWasRewritten NothingLeftBehind AnswersAreTrue
PROPERTY RegisteredIsAnnounced
CHECK_DEADLOCK FALSE
