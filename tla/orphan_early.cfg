CONSTANTS
  t1 = t1
  t2 = t2
  w1 = w1
  w2 = w2
  None = None
  Tasks = {t1}
  Workers = {w1, w2}
  Keys = {}
  Times <- ClockTimes
  Attempts = {1, 2, 3}
  FirstAttempts = {0}
  AckStatuses = {"Done", "Failed", "Killed"}
  LongMetadata = FALSE
  BatchSize = 2
  HeartbeatInterval = 1
  MissedHeartbeats = 3
  IdempotencyTtl = 1
  MaxTtl = 1
  RetryLimit = 2
  AckLimit = 2
  UnpackLimit = 2
  Faults = {"crash"}
  LockTasks = TRUE
  EmitEvents = FALSE
  TaskTracking = TRUE
  LastFault = 5
  MaxTime = 6
CHECK_DEADLOCK FALSE
SPECIFICATION FleetSpec
PROPERTIES OrphanedOnlyAfterDuration
