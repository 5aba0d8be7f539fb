SPECIFICATION TableSpec
CONSTANT Threads = {t1, t2, t3, t4}
INVARIANTS TableType TwoWay FreeStackSound NoGaps
PROPERTIES ReusesFirst ImplementsAllocator
