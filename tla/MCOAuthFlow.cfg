SPECIFICATION Spec
CONSTANTS
    Browser = {b1, b2}
    State = {s1, s2, s3}
    Handler = {h1, h2}
    Lifetime = 1
    MaxTime = 3
    None = None
SYMMETRY Symmetry
INVARIANTS
    OneExchangePerState
    TokenToTheStarter
PROPERTIES
    KeptForItsLifetime
