CONSTANTS
  t1 = t1
  t2 = t2
  w1 = w1
  w2 = w2
  k1 = k1
  None = None
  Tasks = {t1, t2}
  Workers = {w1, w2}
  Keys = {k1}
  Times = {0, 1}
  Attempts = {0, 1}
  FirstAttempts = {0}
  AckStatuses = {"Done", "Failed", "Killed"}
  LongMetadata = FALSE
  BatchSize = 1
  HeartbeatInterval = 1
  MissedHeartbeats = 1
  IdempotencyTtl = None
  MaxTtl = 1
  RetryLimit = 1
  AckLimit = 1
  UnpackLimit = 2
SPECIFICATION Spec
INVARIANTS UniquePerKey
