SPECIFICATION Spec
CHECK_DEADLOCK FALSE
CONSTANTS
    Name <- MCName
    Files <- MCFiles
    Path = {"files", "mail", "default", "docs"}
    Identity <- MCIdentity
    Tool = {"get_a", "get_b", "put"}
    Matching <- MCMatching
    Text <- MCText
    Pattern = {"number", "code", "letter"}
    Words <- MCWords
    ShowFirst <- MCShowFirst
    ShowLast <- MCShowLast
    Part <- MCPart
    Listing <- MCListing
    MaxDepth = 2
    Nesting = 4
INVARIANTS
    
    
    
    ShownNamesDiffer
    LimitIsExact
