SPECIFICATION Spec
CONSTANTS
    f1 = f1  f2 = f2  u1 = u1  u2 = u2  u3 = u3  k1 = k1  k2 = k2
    Files = {f1, f2}
    Calls = {u1, u2}
    FileOf <- MCFileOf
    Keys = {k1, k2}
    Content <- MCContent
    NewFiles = {u1}
    MaxFaults = 0
INVARIANT RegisteredIsStored
CHECK_DEADLOCK FALSE
