\* Exits and lost enqueue calls, as many as asynq has retries.
CONSTANTS
  Items = {r1, r2}
  Workers = {w1}
  Callers = {}
  MaxRetry = 1
  MaxCrashes = 1
  MaxFaults = 1
  FaultKinds = {"enqueue"}
  NIncidents = 1
  NHits = 1
  JudgeConfigured = FALSE
  WebhookSet = FALSE
SPECIFICATION FairSpec
PROPERTY EventuallyFinal
CHECK_DEADLOCK FALSE
