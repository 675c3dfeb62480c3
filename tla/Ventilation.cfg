SPECIFICATION FairSpec
CONSTANTS
    LockTimeout = 3
    LocalAuthToken = TRUE
INVARIANTS
    TypeOK
    FanHasSomeDamper
    LockHasTimer
PROPERTIES
    LaserKeepsExhaust
    OLGAKeepsDampers
    LocksGo
