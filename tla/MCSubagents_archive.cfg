\* Three calls side by side over a document older than the archive.
CONSTANTS
  spawn = spawn
  send = send
  wait = wait
  old1 = old1
  old2 = old2
  old3 = old3
  a = a
  b = b
  x = x
  Agents = {a, b, x}
  Calls = {spawn, send, wait}
  Script <- WaitFinished
  Legacy <- OldDocument
  MaxKept = 3
  MaxFailures = 1
SPECIFICATION Spec
INVARIANTS
    ProjectionInv
    DroppedIsArchived
CHECK_DEADLOCK FALSE
