\* Two runs over a listing that repeats a species, each retried once; one failure, one crash.
CONSTANTS
    a = a
    Listing <- ListedTwice
    Syncs = {s1, s2}
    failure_threshold = 1
    species_limit = 5
    max_attempts = 1
    MaxEdition = 2
    MaxRequests = 2
    MaxFailures = 1
    MaxCrashes = 1
SPECIFICATION Spec
CHECK_DEADLOCK FALSE
SYMMETRY Runs
INVARIANTS
    FailedRunUndone
    StaleOnlyKnownWays
