SPECIFICATION HSpec
CONSTANTS
    Left <- NegativeLeft
    Width = 7
    RemoteWidth = 3
    Motion <- UnevenMotion
    MaxBacklog = 2
    MaxPresses = 1
    WarpCanFail = TRUE
INVARIANTS TypeOK GrabPhases OneStrayMove
PROPERTIES ImplementsControl CaptureFollowsLeaving HotkeyReleases SessionEnds
