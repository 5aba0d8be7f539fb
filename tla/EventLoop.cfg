SPECIFICATION Spec
CONSTANTS
  Threads = {t1, t2}
  Servers = {s1}
  Port <- OnePort
  Kinds = {"connect", "read", "read_some", "write", "sleep"}
  Loops = {"run", "once", "timed", "poll"}
  MaxTransfers = 2
  MAX_EVT_MSG = 3
INVARIANTS TypeOK QueueBound EventFits NoLostWakeup AcceptArmed Addressed SingleWakeup
PROPERTY StopsWhenIdle
