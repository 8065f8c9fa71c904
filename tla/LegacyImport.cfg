\* Three webhooks over a ring of two reports, two workers, so that an execution may go on
\* beside its retry, two failures of any kind, the timeout of a task among them, an exit
\* and two commands.  Every diagnosis scores low, so that there are many notices.
CONSTANTS
  Payloads = {p1}
  Workers = {w1, w2}
  Concurrency = 2
  MaxReports = 3
  MaxInFlight = 1
  RingCap = 2
  Outcomes = {"low"}
  MaxRetry = 1
  MaxFaults = 2
  FaultKinds <- AllFaults
  MaxExits = 1
  Commands = {c1, c2}
  CommandKinds = {"import", "backup"}
SYMMETRY LegacySymmetry
SPECIFICATION Spec
CONSTRAINT FewAtOnce
INVARIANT OneEntryPerReport
INVARIANT NoticeAgrees
INVARIANT ArchiveIsOriginal
PROPERTY BackupNeverOverwritten
CHECK_DEADLOCK FALSE
