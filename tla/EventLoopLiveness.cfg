SPECIFICATION FairSpec
CONSTANTS
  Threads = {t1, t2}
  Servers = {s1}
  Port <- OnePort
  Kinds = {"read_some", "write"}
  Loops = {"run", "timed"}
  MaxTransfers = 2
  MAX_EVT_MSG = 3
PROPERTY Resumed
