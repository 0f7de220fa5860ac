SPECIFICATION Spec
CONSTANTS
    r1 = r1
    r2 = r2
    w1 = w1
    w2 = w2
    k1 = k1
    k2 = k2
    Relays <- TwoRelays
    Writers <- TwoWriters
    LockingWriters = {w1}
    Keys <- TwoKeys
    Refused = {k1}
    RefusedDlq = {k2}
    MaxRows = 2
    BatchSize = 2
    PUBLISH_ATTEMPTS_PER_CYCLE = 1
    MaxAttempts = 2
    AttemptsLimit = 2
    MaxFaults = 2
    MaxCrashes = 1
    MaxLapses = 1
CHECK_DEADLOCK FALSE
INVARIANTS
    PublishedInOrder
