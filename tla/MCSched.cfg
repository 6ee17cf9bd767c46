SPECIFICATION Spec
CONSTANTS
    MaxId = 3
    Status = {s0, s1}
    NoStatus = none
    Readers = {1, 3}
    NoHang = {TRUE, FALSE}
INVARIANTS TypeOK SoleRunner NoLostWakeup OwnFrame OwnContext
PROPERTIES ZombieFinal FreedOffCpu Lifecycle
