SPECIFICATION CacheSpec
CONSTANTS
    Token = {t1, t2, t3}
    Identity = {i1, i2}
    NoIdentity = NoIdentity
    MaxSize = 2
    TTL = 1
    MaxClock = 3
    MaxUses = 5
INVARIANTS
    CacheIsConsistent
PROPERTIES
    OnlyTheOldestIsEvicted
    ImplementsBoundedCache
