SPECIFICATION FairSpec
CONSTANTS
    ann = ann
    bob = bob
    query = query
    write = write
    Nobody = Nobody
    Users = {ann}
    Queries = {query}
    Writes = {write}
    Retries = 1
    MaxExpiries = 1
    MaxFaults = 1
INVARIANTS
    NobodyStranded
    WritesOnce
    NoLateData
PROPERTIES
    EveryCallSettles
    LoadersEnd
    RemovedLeaves
CHECK_DEADLOCK FALSE
