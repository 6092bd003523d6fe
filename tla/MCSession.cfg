SPECIFICATION Spec
CONSTANTS
    c1 = c1
    c2 = c2
    left = left
    shift = shift
    Conns = {c1, c2}
    Buttons = {left}
    Keys = {shift}
    Unmapped = {}
    MaxPending = 1
    MayRefuse = TRUE
    MaySilence = TRUE
    MayDie = TRUE
INVARIANTS TypeOK OnlyServedSessionsHold Accounted HeldIsDown
PROPERTY ClosedLetsGo
