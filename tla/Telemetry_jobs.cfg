SPECIFICATION MCFairSpec
CONSTANTS
  Sensors = {s1}
  Ingesters = {i1}
  SilenceJobs = {j1, j2}
  Measurements <- MCMeasurements
  MOISTURE_LOW_THRESHOLD = 2
  MOISTURE_HIGH_THRESHOLD = 3
  TEMPERATURE_LOW_THRESHOLD = 0
  TEMPERATURE_HIGH_THRESHOLD = 6
  OFFLINE_AFTER = 1
  ROLLUP_WINDOW = 2
  MaxTime = 3
  MaxReports = 2
  MaxCommands = 2
  MaxCrashes = 1
  MONTHS_PER_YEAR = 3
  MONTHS_AHEAD = 1
  RETENTION_MONTHS = 2
  Readings = {r1}
  MaxYears = 2
  MaxOutages = 1
  MaxStray = 1
CHECK_DEADLOCK FALSE
INVARIANTS
    AnnouncedOnce
    ReadSideExact
    ReadingsKept
PROPERTIES
    SilenceAnnounced
    EventuallyRetired
