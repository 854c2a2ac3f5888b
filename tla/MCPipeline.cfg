SPECIFICATION Spec
CONSTANTS
    MaxItems = 3
CHECK_DEADLOCK FALSE
INVARIANTS
    AuditIsTrue
    OnlyAllowedIsForwarded
    
