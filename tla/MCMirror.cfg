SPECIFICATION Spec
CONSTANTS
    Width = 3
    RemoteWidth = 3
    PeerWidth = 3
    Hands <- TwoHands
    Short <- OneShort
    Origin = 1
    Side = 1
    HomeDelta = 10
    Half = 1024
    Unknown = Unknown
INVARIANTS
    TypeOK
    BeliefIsTruth
PROPERTIES
    FollowsHand
