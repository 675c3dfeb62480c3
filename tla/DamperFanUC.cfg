CONSTANTS
    NUM_DAMPER = 2
    LAMINA_DAMPER_ID = 1
    WRAP = 8
    Installed <- MCFirst
    OpenPositions <- MCOpen
    Fragile <- MCNone
    Glitchy <- MCNone
    MinTurn = 4
    MaxTurn = 5
    Window = 1
SPECIFICATION Spec
PROPERTIES FanNeedsOpenDamper
CHECK_DEADLOCK FALSE
