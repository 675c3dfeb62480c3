SPECIFICATION LineFairSpec
CONSTANTS
    free = free
    States <- MCStates
    NoState = NoState
    PubSubCapacity = 1
    MinInterval = 1
    MaxMisread = 7
INVARIANTS
    LineTypeOK
    ControllerIsUpToDate
    ControllerObeys
    ReaderRecovers
PROPERTIES
    MovesAreApart
    DamageIsHarmless
    ControllerFollows
CHECK_DEADLOCK FALSE
