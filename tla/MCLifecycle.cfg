SPECIFICATION LifeSpec
CONSTANTS
    SessionId = {s1, s2}
    Client = {alice}
    SessionTTL = 1
    MaxTime = 2
    Request = {r1, r2}
INVARIANTS
    DeletedStaysDeleted
    LoggedBeforeClose
PROPERTIES
    SaveIsComplete
    
    SignalEndsTheProcess
    
