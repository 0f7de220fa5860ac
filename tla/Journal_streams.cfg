SPECIFICATION FairSpec
CONSTANTS
    m1 = m1
    c1 = c1
    p1 = p1
    p2 = p2
    e1 = e1
    e2 = e2
    Members = {m1}
    Clients = {c1}
    Plants <- TwoPlants
    Established = {p2}
    ClientIds = {e1, e2}
    CareMoments = {2}
    SNAPSHOT_EVERY = 2
    MaxAttempts = 2
    MaxWaterings = 1
    MaxChanges = 1
    MaxCommands = 2
    MaxFaults = 1
CHECK_DEADLOCK FALSE
INVARIANTS
    ReadsAreHistory
PROPERTIES
    ImplementsJournal
    RefsFollowGarden
    EveryWateringSettles
