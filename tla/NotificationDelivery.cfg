\* Two notifications, an exit and three failures of any kind, with one retry; a restart
\* may lose the webhook.
CONSTANTS
  Items = {n1, n2}
  MaxRetry = 1
  MaxCrashes = 1
  MaxFaults = 3
  FaultKinds <- AllFaults
  HookConfigs = {TRUE, FALSE}
SPECIFICATION FairSpec
INVARIANT SentWasDelivered
INVARIANT DuplicatesNeedDoubt
PROPERTY SentIsFinal
PROPERTY NotificationSettles
CHECK_DEADLOCK FALSE
