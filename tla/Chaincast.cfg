CONSTANTS
    c1 = c1
    c2 = c2
    s1 = s1
    d0 = d0
    d1 = d1
    d2 = d2
    NoCmd = NoCmd
    N = 2
    Dampers <- MCDampers
    InstalledAt <- MCDeployed
    DamperCmds <- MCTwo
    SettingsCmds <- MCSettings
    FanOf <- MCFanOf
    LaminaOf <- MCLaminaOf
    OpensLamina <- MCOpensLamina
    Injectors <- MCConsole
    Destinations <- MCToAll
    Faults <- MCAllFaults
    MaxPackets = 2
    PJON_MSGBUF_LEN = 2
SPECIFICATION Spec
INVARIANTS TypeOK ReachIsTrue
PROPERTIES PromiseKept
CHECK_DEADLOCK FALSE
