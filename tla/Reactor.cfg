SPECIFICATION FairSpec
CONSTANTS
  Readers = {t1, t2}
  Writers = {t1}
  Sizes = {2}
  MaxBuffer = 2
  MaxSockets = 2
INVARIANTS TypeOK WorkExact NoLostEdge TaskBehindDescriptors
PROPERTY Served
CHECK_DEADLOCK FALSE
