CONSTANTS
    c1 = c1
    c2 = c2
    s1 = s1
    d0 = d0
    d1 = d1
    d2 = d2
    NoCmd = NoCmd
    N = 4
    Dampers <- MCDampers
    InstalledAt <- MCLadder
    DamperCmds <- MCTwo
    SettingsCmds <- MCSettings
    FanOf <- MCFanOf
    LaminaOf <- MCLaminaOf
    OpensLamina <- MCOpensLamina
    Injectors <- MCConsole
    Destinations <- MCToFirst
    Faults <- MCNone
    MaxPackets = 4
    PJON_MSGBUF_LEN = 3
SPECIFICATION FairSpec
INVARIANTS QuietMeansAgreed
PROPERTIES EventuallyQuiet
CHECK_DEADLOCK FALSE
