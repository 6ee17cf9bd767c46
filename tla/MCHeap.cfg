SPECIFICATION Spec
CHECK_DEADLOCK FALSE
CONSTANTS
    Pages <- MCPages
    PageSize = 12
    PageCount = 2
    MajorHead = 3
    MinorHead = 3
    Alignment = 2
    Requests = {1, 3, 17}
    MaxHeld = 3
INVARIANTS BlocksDisjoint BooksRight
PROPERTIES GrowsOnlyWhenFull
