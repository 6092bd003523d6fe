SPECIFICATION Spec
CONSTANTS
    w1 = w1
    s1 = s1
    s2 = s2
    left = left
    a = a
    Windows = {w1}
    Located = {w1}
    Buttons = {left}
    Keys = {a}
    Spots = {s1, s2}
    MaxRequests = 2
    MayRefuse = FALSE
    MayDie = FALSE
CHECK_DEADLOCK FALSE
PROPERTY ClickLands
