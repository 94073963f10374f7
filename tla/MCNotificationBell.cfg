SPECIFICATION FairSpec
CONSTANTS
    ann = ann  bob = bob
    Accounts = {ann, bob}
    Nobody = Nobody
    MaxActions = 5
    MaxFaults = 1
    Total = 3
    Owner <- MCOwner
    Limit = 1
    Calls = {c1, c2}
INVARIANT TypeOK
PROPERTIES OnlyOwnersMark BellConverges
