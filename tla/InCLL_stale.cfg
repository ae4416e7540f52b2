SPECIFICATION MCSpec
CONSTANTS
  KEY_LW = 2
  KEY_MID = 1
  EpochMask = 8
  v1 = v1
  v2 = v2
  Vals <- MCVals
  Absent = Absent
  MaxEpoch = 4
  MaxLocks = 2
SYMMETRY MCSymmetry
INVARIANT CrashRecoverable
CHECK_DEADLOCK FALSE
