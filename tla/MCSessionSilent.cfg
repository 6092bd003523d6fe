SPECIFICATION Spec
CONSTANTS
    c1 = c1
    left = left
    shift = shift
    Conns = {c1}
    Buttons = {left}
    Keys = {shift}
    Unmapped = {}
    MaxPending = 1
    MayRefuse = FALSE
    MaySilence = TRUE
    MayDie = FALSE
PROPERTY SilentLetsGo
\* A silent connection stops its task for good, which is the point of the run.
CHECK_DEADLOCK FALSE
