SPECIFICATION FairSpec
CONSTANTS
    v1 = v1
    v2 = v2
    Values <- MCValues
    Base <- MCBase
    Short <- MCShort
    Seeded <- MCSeeded
    Suffixes = 1
    Workers = {w1, w2}
    Clients = {b1}
    ComplaintTables = {"species"}
    CaseTables = {"drugs"}
    MaxChanges = 2
    MaxFaults = 1
INVARIANTS CodesAreNotShared CachedIsCurrent
PROPERTY ChangesArrive
CHECK_DEADLOCK FALSE
