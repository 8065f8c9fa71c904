\* Creates, updates, uploads and deletions of one document with failures, exits and
\* retried cleanups.
CONSTANTS
  Docs = {d1}
  Demo = {}
  Bodies = {b1}
  Keys = {k1}
  Requests = {q1, q2}
  Kinds = {"create", "update", "upload", "delete"}
  Readers = {}
  NChunks = 2
  MaxCleanups = 1
  Failures = {"index", "purge", "sql", "exit"}
SPECIFICATION FairSpec
PROPERTY CleanupCompletes
CHECK_DEADLOCK FALSE
