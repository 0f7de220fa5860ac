SPECIFICATION Spec
CONSTANTS
    Requests = {r1, r2}
    Keys = {k1}
    Locations = {sill, shelf}
    Households = {h1, h2}
    Plants = {p1, p2}
    Home = h1
    FirstPlant = p1
    MaxPlants = 1
    MinInterval = 2
    Interval = 1
    MaxNow = 2
    MaxBackground = 2
SYMMETRY Symmetry
CHECK_DEADLOCK FALSE
INVARIANTS
    RulesHold
    SameAnswer
    ReadsAsWritten
