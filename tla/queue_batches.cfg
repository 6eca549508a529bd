CONSTANTS
  t1 = t1
  t2 = t2
  w1 = w1
  w2 = w2
  k1 = k1
  None = None
  Tasks = {t1, t2}
  Workers = {w1, w2}
  Keys = {k1}
  Times = {0, 1}
  Attempts = {0}
  FirstAttempts = {0}
  AckStatuses = {"Done", "Failed", "Pending", "Killed"}
  LongMetadata = TRUE
  BatchSize = 2
  HeartbeatInterval = 1
  MissedHeartbeats = 1
  IdempotencyTtl = 1
  MaxTtl = 0
  RetryLimit = 1
  AckLimit = 2
  UnpackLimit = 1
SYMMETRY Symmetry
SPECIFICATION Spec
INVARIANTS OnePlace NeverLost
PROPERTIES ImplementsTaskQueue
