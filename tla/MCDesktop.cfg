SPECIFICATION Spec
CONSTANTS
    Apps = {"a", "b"}
    Older = "older"
    Here = "a"
    Projections = {"p", "q"}
    None = "none"
    Half = 1024
    Screens <- Elements
    Source <- Square
INVARIANTS
    TypeOK
    Welcome
    PictureIsTrue
PROPERTIES
    UiOpens
    CaptureEnds
CHECK_DEADLOCK FALSE
