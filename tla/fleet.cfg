CONSTANTS
  t1 = t1
  t2 = t2
  w1 = w1
  w2 = w2
  None = None
  Tasks = {t1, t2}
  Workers = {w1, w2}
  Keys = {}
  Times <- ClockTimes
  Attempts = {1, 2, 3}
  FirstAttempts = {0, 2}
  AckStatuses = {"Done", "Failed", "Killed"}
  LongMetadata = FALSE
  BatchSize = 2
  HeartbeatInterval = 1
  MissedHeartbeats = 2
  IdempotencyTtl = 1
  MaxTtl = 1
  RetryLimit = 2
  AckLimit = 2
  UnpackLimit = 1
  Faults = {"crash", "lostReply", "pause", "failure"}
  LockTasks = TRUE
  EmitEvents = FALSE
  TaskTracking = TRUE
  LastFault = 4
  MaxTime = 5
SYMMETRY Symmetry
CHECK_DEADLOCK FALSE
SPECIFICATION FleetSpec
INVARIANTS FleetTypeOK LeaseIsHeld NoTwoExecutors GivenUpAtLimit
PROPERTIES StaysWedged
