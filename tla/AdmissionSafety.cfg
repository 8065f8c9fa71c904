\* Repeated, regrouped, unmatched and late observations over two windows.
CONSTANTS
  Labels = {"a", "b"}
  Stamps = {0, 4, 6, 7}
  Windows = {0, 600}
  Batches <- MCBatches
  Keys = {k1}
  Bodies = {b1}
  MaxManual = 2
SPECIFICATION Spec
INVARIANT LatestRunCovers
INVARIANT RunsHaveAlertEvidence
INVARIANT ResolvedIsAudited
PROPERTY RecoveryNeverRolledBack
PROPERTY ReplaysAreStable
CHECK_DEADLOCK FALSE
