\* A call through a dead pointer ends a run, and the calls of a run are bounded.
SPECIFICATION Spec
CHECK_DEADLOCK FALSE
CONSTANTS
    MaxTasks = 2
    Fds = {3, 4}
    Clusters = {1, 2, 3, 4}
    Names = {"a", "b"}
    Answers <- MCOwnName
    Paths <- MCPaths
    Moves <- MCMoves
    Wrap = 4
    MaxSize = 2
    MaxCalls = 5
INVARIANTS LookupAgreesWithDisk FdSound CwdResolves WildNeedsSharing
