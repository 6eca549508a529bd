CONSTANTS
  t1 = t1
  t2 = t2
  w1 = w1
  w2 = w2
  k1 = k1
  None = None
  Tasks = {t1, t2}
  Workers = {w1, w2}
  Keys = {k1}
  Times = {0, 1}
  Attempts = {1, 2}
  FirstAttempts = {0}
  AckStatuses = {"Done", "Failed", "Pending", "Killed", "Running"}
  LongMetadata = FALSE
  BatchSize = 1
  HeartbeatInterval = 1
  MissedHeartbeats = 1
  IdempotencyTtl = 1
  MaxTtl = 1
  RetryLimit = 2
  AckLimit = 1
  UnpackLimit = 2
SYMMETRY Symmetry
SPECIFICATION Spec
INVARIANTS TypeOK OnePlace NeverLost Recoverable SignalInv StatusMatchesPlace
PROPERTIES OutcomeIsFinal
