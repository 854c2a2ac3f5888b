SPECIFICATION Spec
CONSTANTS
    Tool = {t1, t2, t3}
    Session = {s1, s2}
    Call = {c1, c2}
    Level = {0, 1, 2}
    UserRoles <- Policies
    Assignments <- AllAssignments
    None = None
SYMMETRY Symmetry
INVARIANTS
    FloorIsPeak
    
    CallableIsListed
PROPERTIES
    SettledFloorsRise
