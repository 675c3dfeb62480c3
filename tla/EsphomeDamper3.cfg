SPECIFICATION Spec
CONSTANTS
    N = 3
    Positions = {0, 70, 100}
    Turn = 6
    Window = 1
    CalTimeout = 7
    LongTimeout = 8
    DefaultTurn = 4
    MaxStamp = 10
    MaxRequests = 1
INVARIANTS
    MotorHasScript
