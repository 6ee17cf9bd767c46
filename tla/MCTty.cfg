SPECIFICATION Spec
CONSTANTS
    Ttys = {0}
    Procs = {p1, p2}
    Size = 3
    Ordinary <- Editing
    Specials <- CursorKeys
    Lens = {2}
INVARIANTS TypeOK ReadyMeansInput
PROPERTIES Lines
