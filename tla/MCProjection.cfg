SPECIFICATION Spec
CONSTANTS
    MaxLag = 2
INVARIANTS
    MirrorAgrees
    LiveWasSetUp
PROPERTIES
    ImplementsPhases
