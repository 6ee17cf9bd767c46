SPECIFICATION Spec
CONSTANTS
    Limit = 6
    PerSector = 2
    PerCluster = 2
    Names = {"a", "long"}
    LongNames = {"long"}
    DirNames = {"long"}
    Values = {v}
    MaxSize = 2
    MaxCrashes = 1
INVARIANTS ChainsSound NoLostCluster Intact Synced SizeCovered ShortFindable
