\* The steps of a run are bounded.
SPECIFICATION Spec
CHECK_DEADLOCK FALSE
CONSTANTS
    Ttys = {0, 1}
    Width = 3
    Height = 2
    TabStop = 2
    Wrap = 8
    MaxArgs = 2
    Texts <- MCTexts
    Typed = {"a", "b"}
    LineSize = 4
    MaxSteps = 5
INVARIANTS CursorOnScreen EchoInStep
PROPERTIES PositionObeyed
