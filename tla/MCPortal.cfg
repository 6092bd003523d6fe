SPECIFICATION Spec
CONSTANTS
    MaxCalls = 4
    Offers <- Desktops
    Layouts <- PluggedIn
INVARIANTS
    TypeOK
    ResponseHeard
    OutcomeHonest
    ZonesOfOneSet
    OnlyStaleSetsFail
    ProbePromises
PROPERTIES
    CallsReturn
    LateGrantWithdrawn
CHECK_DEADLOCK FALSE
