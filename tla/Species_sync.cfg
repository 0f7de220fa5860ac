\* Two runs at a time, two requests, two editions, one failure, one crash.
CONSTANTS
    a = a
    Listing <- ListedOnce
    Syncs = {s1, s2}
    failure_threshold = 2
    species_limit = 5
    max_attempts = 0
    MaxEdition = 2
    MaxRequests = 2
    MaxFailures = 1
    MaxCrashes = 1
SPECIFICATION FairSpec
CHECK_DEADLOCK FALSE
INVARIANT
    BreakerHolds
PROPERTY
    SettlesDown
