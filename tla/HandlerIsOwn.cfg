SPECIFICATION Spec
CONSTANTS
  Threads = {t1}
  Servers = {s1, s2}
  Port <- OnePort
  Kinds = {"sleep"}
  Loops = {"run"}
  MaxTransfers = 1
  MAX_EVT_MSG = 3
INVARIANT HandlerIsOwn
