SPECIFICATION FairSpec
CONSTANTS
  Threads = {t1, t2, t3, t4}
  Durations <- CutDurations
  Milli = 2
  MaxWait = 1
  ClockSteps <- BackAndForth
  MaxSteps = 1
  LastStart = 1
  MaxTime = 4
INVARIANTS TypeOK HeapSound ArmedInTime NotEarly
PROPERTIES ExpiresInOrder Awakes
CHECK_DEADLOCK FALSE
