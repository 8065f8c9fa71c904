\* One run that an asynq goroutine and a /plan request take from one another, an exit, and
\* two failures of any kind, so that the deferred finish can fail as well.
CONSTANTS
  Items = {r1}
  Workers = {w1}
  Callers = {c1}
  MaxRetry = 1
  MaxCrashes = 1
  MaxFaults = 2
  FaultKinds <- AllFaults
  NIncidents = 1
  NHits = 1
  JudgeConfigured = TRUE
  WebhookSet = TRUE
SPECIFICATION Spec
INVARIANT TypeOK
INVARIANT AttemptsAreExclusive
INVARIANT CitationsOfCurrentAttempt
INVARIANT OneReportPerRun
INVARIANT EvidenceMatchesCitations
PROPERTY ImplementsLifecycle
PROPERTY FinalStaysFinal
PROPERTY RevisionRises
PROPERTY TimelineInAttemptOrder
CHECK_DEADLOCK FALSE
