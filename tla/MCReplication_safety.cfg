SPECIFICATION Spec
CONSTANTS
    n1 = n1  n2 = n2  n3 = n3  c1 = c1  c2 = c2  e1 = e1
    Nodes = {n1, n2, n3}
    Chunks = {c1, c2}
    Events = {e1}
    Batch <- MCTwoChunks
    SizeBytes <- MCSizes
    StorageKey <- MCDistinctKeys
    Consumer = consumer
    Sweeps = {s1}
    ReplicationFactor = 2
    MaxFaults = 2
SYMMETRY NodeSymmetry
INVARIANTS TypeOK RowIsStored AckedIsTracked TrackedInOrder UsedBytesCoverReplicas UsedBytesAreBounded
PROPERTY KeepsLedger
