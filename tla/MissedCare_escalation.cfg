SPECIFICATION FairSpec
CONSTANTS
  Interval = 3
  GRACE_PERIOD = 2
  WATERING_HORIZON = 2
  MIN_WATERING_INTERVAL = 2
  Deployments <- FiveDeployments
  MaxTime = 5
  MaxChanges = 2
INVARIANTS
    OnTimeNeverMissed
    OncePerDueMoment
    WateringKept
    MissesAreEarned
PROPERTIES
    WindowsEnd
