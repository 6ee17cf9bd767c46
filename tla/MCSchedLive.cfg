SPECIFICATION FairSpec
CONSTANTS
    MaxId = 3
    Status = {s0}
    NoStatus = none
    Readers = {3}
    NoHang = {FALSE}
PROPERTIES RunnableRuns ZombieCollected
