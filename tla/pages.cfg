CONSTANTS
    Row <- MCRow
    Filters <- MCFilters
    AnyUser = AnyUser
    Limits <- MCLimits
    MaxLimit = 3
    EditTime = 9
    NoCursor = NoCursor
SPECIFICATION FairSpec
CHECK_DEADLOCK FALSE
INVARIANTS
    PageTypeOK
    NothingSkipped
    PagesDescend
    StoresAgree
PROPERTIES
    WalkEnds
