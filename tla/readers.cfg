CONSTANTS
  t1 = t1
  t2 = t2
  w1 = w1
  None = None
  Tasks = {t1, t2}
  Workers = {w1}
  Keys = {}
  Times = {1}
  Attempts = {0}
  FirstAttempts = {0}
  AckStatuses = {"Done", "Failed", "Killed"}
  LongMetadata = TRUE
  BatchSize = 2
  HeartbeatInterval = 1
  MissedHeartbeats = 1
  IdempotencyTtl = 1
  MaxTtl = 1
  RetryLimit = 1
  AckLimit = 1
  UnpackLimit = 2
  Undecodable = {t2}
  MaxFailures = 1
  IdOrder <- Sorted
  PageSize = 1
SPECIFICATION ReadersSpec
INVARIANTS WaitTypeOK AnsweredOnce FinalAnswers AcceptedTasksDecode NoneSkipped
PROPERTIES EveryAnswered
