SPECIFICATION Spec
CONSTANTS
    Clients = {c1, c2}
    Mqtt = Mqtt
    Capacity = 2
    ReplyCapacity = 1
    MaxChanges = 3
INVARIANTS
    NoCrash
CHECK_DEADLOCK FALSE
