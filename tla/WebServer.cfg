SPECIFICATION FairSpec
CONSTANTS
    Clients = {c1}
    Mqtt = Mqtt
    Capacity = 1
    ReplyCapacity = 2
    MaxChanges = 2
INVARIANTS
    TypeOK
    NoUpdateMissed
PROPERTIES
    KeepsServing
CHECK_DEADLOCK FALSE
