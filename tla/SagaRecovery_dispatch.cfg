SPECIFICATION MCFairSpec
CONSTANTS
  MaxAttempts = 1
  MaxFailures = 3
  MaxCrashes = 2
  MaxResets = 1
  MaxReplays = 1
    d1 = d1
    d2 = d2
    DelegatingSteps = {2}
    Dispatchers <- TwoDispatchers
    BatchSize = 2
    IntentMaxAttempts = 2
    MaxFaults = 3
    MaxDispatcherCrashes = 2
    MaxLapses = 2
CHECK_DEADLOCK FALSE
INVARIANTS
    AllOrNothing
    RetriesBounded
    ExecutedOnce
    StatusesTellTheTruth
PROPERTIES
    EventuallyAtRest
    EventuallyDecided
