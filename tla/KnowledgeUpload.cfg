\* Uploads and deletes one after the other; nothing fails.
CONSTANTS
  Docs = {d1}
  Demo = {}
  Bodies = {b1, b2}
  Keys = {}
  Requests = {q1}
  Kinds = {"upload", "delete"}
  Readers = {}
  NChunks = 1
  MaxCleanups = 1
  Failures = {}
SPECIFICATION Spec
INVARIANT UploadIsServed
CHECK_DEADLOCK FALSE
