SPECIFICATION FairSpec
CONSTANTS
    Readers = {x1, x2}
    Spp = 2
    Epr = 3
    PagesPerBlock = 2
    TotalPages = 4
    PpaPages = 2
    PpaSpan = 8
    Invalid = Invalid
    MapPages <- MCMapPages
    RegionTables <- MCRegionTables
INVARIANTS MapComplete CacheHonest MemoryOwned
PROPERTIES DiskImplemented UnbindEnds
