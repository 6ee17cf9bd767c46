\* pmalloc stops the machine when it runs out of memory.
SPECIFICATION Spec
CHECK_DEADLOCK FALSE
CONSTANTS
    MaxPages = 7
    LastBit = 7
    Usable <- MCUsable
    Sizes = {1, 2, 3}
    Wrap = 4
INVARIANTS TypeOK RunsDisjoint NoLeak FreeMemExact
PROPERTIES HaltJustified
