SPECIFICATION Spec
CONSTANTS
  Threads = {t1}
  Servers = {}
  Port <- OnePort
  Kinds = {"sleep"}
  Loops = {"run"}
  MaxTransfers = 1
  MAX_EVT_MSG = 3
INVARIANT RunsToCompletion
