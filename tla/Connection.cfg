SPECIFICATION FairSpec
CONSTANTS
  Users = {t1, t2}
  Readers = {t1}
  Writers = {t1, t2}
  Sizes = {0, 1, 3}
  Lengths = {2}
  MAX_BUFF_SIZE = 2
  CloseErrors = TRUE
  MaxIn = 4
  MaxWrites = 1
INVARIANTS TypeOK OpKeepsObject NothingWaitsOnClosed OpHasCaller CallsReturn WritesComplete
PROPERTIES ImplementsStream Wakes Freed
CHECK_DEADLOCK FALSE
