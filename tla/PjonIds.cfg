SPECIFICATION IdsSpec
CONSTANTS
    a = a
    b = b
    PJON_MSGBUF_LEN = 3
    Accepted <- MCAccepted
    Refused <- MCRefused
    Empty = Empty
    Others <- MCOthers
    AssignedIds <- MCIds
    OpenPositions <- MCOpen
    InstalledSets <- MCInstalled
    PJON_ID_LIST_LEN = 2
    ForeignMessages <- MCForeign
    MaxRequests = 3
SYMMETRY MCSymmetry
INVARIANTS IdsTypeOK SettingsAreSomebodys SavedIsInForce
PROPERTIES RenumberingLeavesOneMaster BufferIsQueue
CHECK_DEADLOCK FALSE
