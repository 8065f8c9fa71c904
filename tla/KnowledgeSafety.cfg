\* Two requests, a diagnosis and the cleanup around one document; every failure but that of the
\* index, after which a request goes as after a failure of SQL.
CONSTANTS
  Docs = {d1}
  Demo = {d1}
  Bodies = {b1, b2}
  Keys = {}
  Requests = {q1, q2}
  Kinds = {"reindex", "delete"}
  Readers = {r1}
  NChunks = 1
  MaxCleanups = 1
  Failures = {"purge", "sql", "probe", "exit"}
SYMMETRY KnowledgeSymmetry
SPECIFICATION Spec
INVARIANT PublishedIsServable
INVARIANT ProjectionFollowsSQL
INVARIANT HitsResolve
INVARIANT CitesWhatIsCurrent
PROPERTY ImplementsStore
CHECK_DEADLOCK FALSE
