CONSTANTS
  t1 = t1
  t2 = t2
  w1 = w1
  w2 = w2
  None = None
  Tasks = {t1}
  Workers = {w1, w2}
  Keys = {}
  Times <- ClockTimes
  Attempts = {1, 2, 3}
  FirstAttempts = {0}
  AckStatuses = {"Done", "Failed", "Killed"}
  LongMetadata = FALSE
  BatchSize = 2
  HeartbeatInterval = 1
  MissedHeartbeats = 2
  IdempotencyTtl = 1
  MaxTtl = 1
  RetryLimit = 2
  AckLimit = 2
  UnpackLimit = 2
  Faults = {"crash", "lostReply", "stall", "failure"}
  LockTasks = TRUE
  EmitEvents = TRUE
  TaskTracking = FALSE
  LastFault = 4
  MaxTime = 9
CHECK_DEADLOCK FALSE
SPECIFICATION FairSpec
INVARIANTS NoStranded LeaseUnlessSwept OneExecution
PROPERTIES EverySettles ReportsAreCounted
