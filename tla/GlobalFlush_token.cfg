SPECIFICATION FlushSpec
CONSTANTS
  Workers = {t1, t2, t3}
  MaxClock = 3
  MaxOps = 2
INVARIANT WaitsForFlush
CHECK_DEADLOCK FALSE
