SPECIFICATION Spec
CONSTANTS
    Limit = 6
    PerSector = 2
    PerCluster = 2
    Names = {"a", "long"}
    LongNames = {"long"}
    DirNames = {"a", "long"}
    Values = {v}
    MaxSize = 1
    MaxCrashes = 0
INVARIANTS Findable
