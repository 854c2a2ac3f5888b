SPECIFICATION FileSpec
CONSTANTS
    MaxSize = 3
    MaxAge = 1
    MaxBackups = 2
    MaxEntries = 9
    MaxTime = 3
    MaxCrashes = 2
    Absent = Absent
CHECK_DEADLOCK FALSE
INVARIANTS
    FilesAreTheTail

    
