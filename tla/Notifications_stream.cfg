\* Two events, of one guarded type or not; two clients, two connections.
CONSTANTS
    Ids = {1, 2}
    Clients = {c1, c2}
    Fans = {1, 2}
    MaxOpens = 2
    MaxFailures = 1
    MaxDeliveries = 2
SPECIFICATION FairSpec
CHECK_DEADLOCK FALSE
INVARIANTS
    NoLostWakeUp
    OneOfEach
PROPERTIES
    DeliveredUnlessPassed
    SubscriptionReleased
