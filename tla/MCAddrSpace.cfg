\* A machine out of frames stops in pmalloc, and the calls of a run are bounded.
SPECIFICATION Spec
CHECK_DEADLOCK FALSE
CONSTANTS
    StackBytes = 8192
    MaxArgs = 64
    MaxTasks = 3
    MaxFrame = 40
    Levels = 2
    Fan = 4
    Span <- MCSpan
    Top = 12
    MmapBase = 7
    Shell <- MCShell
    Images <- MCImages
    Programs <- MCPrograms
    Places = {2, 7}
    Lengths = {2}
    Breaks = {7, 9}
    MmapEnd = 9
    MaxCalls = 4
INVARIANTS TypeOK NoDangling NothingShared 
PROPERTIES OnlyOverwritingLoses CommitFreesOwn
