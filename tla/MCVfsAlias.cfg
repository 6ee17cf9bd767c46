SPECIFICATION Spec
CHECK_DEADLOCK FALSE
CONSTANTS
    MaxTasks = 1
    Fds = {3, 4}
    Clusters = {1, 2, 3}
    Names = {"a", "A"}
    Answers <- MCBothCases
    Paths <- MCCasePaths
    Moves = {}
    Wrap = 4
    MaxSize = 0
    MaxCalls = 5
INVARIANT NoDeletedInode
