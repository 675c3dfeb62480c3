CONSTANTS
    NUM_DAMPER = 1
    LAMINA_DAMPER_ID = 0
    WRAP = 6
    Installed <- MCFirst
    OpenPositions <- MCOpen
    Fragile <- MCFirst
    Glitchy <- MCFirst
    MinTurn = 4
    MaxTurn = 4
    Window = 1
SPECIFICATION FairSpec
PROPERTIES EventuallySettled BrokenBarrierIsReported
CHECK_DEADLOCK FALSE
