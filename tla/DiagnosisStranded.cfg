\* The retry limit of queue.go and one exit more.
CONSTANTS
  Items = {r1}
  Workers = {w1}
  Callers = {}
  MaxRetry = 3
  MaxCrashes = 4
  MaxFaults = 0
  FaultKinds = {}
  NIncidents = 1
  NHits = 1
  JudgeConfigured = FALSE
  WebhookSet = FALSE
SPECIFICATION Spec
INVARIANT AcceptedRunRecoverable
CHECK_DEADLOCK FALSE
