SPECIFICATION Spec
CHECK_DEADLOCK FALSE
CONSTANTS
    Server = {"files", "mail"}
    Name = {"a", "b"}
    Lists <- MCLists
    Restarts = 1
    Fetch = {f1, f2}
    CacheTTL = 1
    FetchTime = 1
INVARIANTS
    CatalogIsOneAnswer
    ListedIsRecent
PROPERTIES
    CatalogNeverGoesBack
    GoesBackOnlyWhenOvertaken
    
