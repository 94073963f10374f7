SPECIFICATION Spec
CONSTANTS
    Nodes = {n1, n2}
    Sweeps = {s1, s2}
    Interval = 1
    Stale = 4
    SweepEvery = 2
    MaxDelay = 1
    MaxStarts = 1
    MaxFaults = 0
PROPERTY OnlySilentRetired
