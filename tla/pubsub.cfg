CONSTANTS
  p1 = p1
  p2 = p2
  q1 = q1
  q2 = q2
  q3 = q3
  None = None
  Pubsubs = {p1, p2}
  Queues = {q1, q2, q3}
  PathQueues = {q3}
  MessageLimit = 2
SPECIFICATION PubsubFairSpec
INVARIANTS NoLostWakeup
PROPERTIES Notified
