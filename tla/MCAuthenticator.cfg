SPECIFICATION Spec
CONSTANTS
    t1 = t1  t2 = t2  t3 = t3
    alice = alice  bob = bob  carol = carol
    None = None
    Request = {r1, r2}
    Token = {t1, t2, t3}
    Client = {alice, bob, carol}
    SessionId = {s1, s2}
    Owner <- ClientsOwner
    Denied = {carol}
    MaxSize = 1
    TokenTTL = 1
    SessionTTL = 2
    MaxDelay = 1
    MaxTime = 3
SYMMETRY Symmetry
INVARIANTS
    AcceptedIsTheClient
PROPERTIES
    AcceptedOnRecentAnswer
