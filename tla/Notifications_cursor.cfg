\* As the stream run: two events whose identifiers are not in creation order.
CONSTANTS
    Ids = {1, 2}
    Clients = {c1, c2}
    Fans = {1, 2}
    MaxOpens = 2
    MaxFailures = 1
    MaxDeliveries = 2
SPECIFICATION FairSpec
CHECK_DEADLOCK FALSE
PROPERTIES
    NothingPassedOver
