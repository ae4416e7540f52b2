SPECIFICATION FlushSpec
CONSTANTS
  Workers = {t1, t2, t3}
  MaxClock = 3
  MaxOps = 1
PROPERTY FlushEnds
CHECK_DEADLOCK FALSE
