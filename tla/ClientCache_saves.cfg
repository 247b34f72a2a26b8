CONSTANTS
    Pairs <- AllPairs
    None = None
    MaxSaves = 1
    MaxOthers = 1
    MaxLost = 1
    MaxReloads = 1

SPECIFICATION CacheSpec

INVARIANT OwnWriteShows
PROPERTY SaveShows
