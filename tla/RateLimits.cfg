SPECIFICATION LimiterSpec
CONSTANTS
    Client = {c1}
    Call = {r1, r2, r3}
    Limiter = {o1, o2, o3, o4}
    Rate = 1
    Burst = 2
    StaleAfter = 1
    MaxTime = 5
    None = None
SYMMETRY Symmetry
INVARIANTS
    OneBucketUnlessRaced
