CONSTANTS
    NUM_DAMPER = 2
    LAMINA_DAMPER_ID = 1
    WRAP = 8
    Installed <- MCBoth
    OpenPositions <- MCOpen
    Fragile <- MCNone
    Glitchy <- MCNone
    MinTurn = 4
    MaxTurn = 5
    Window = 1
SPECIFICATION Spec
INVARIANTS TypeOK ClosedIsAtEndstop NoFalseAlarm CounterTracksDisk LaminaNeedsFan
PROPERTIES FanStartsAtTarget FanNeedsOpenDamper
CHECK_DEADLOCK FALSE
