CONSTANTS
  \* Two logs with room for a record of each of two sizes (a third wraps), epochs
  \* 1 to 3.
  Threads = {"t1", "t2"}
  Nodes = {"n1", "n2"}
  Values = {"a", "b"}
  ContentSize <- TwoSizes
  BufSize = 5
  LogEpochs = 3
  MaxFailures = 2
  \* Three threads, two leaves in one bucket, a failure in epoch 2.
  Recoverers = {"t1", "t2", "t3"}
  Leaves = {"l1", "l2"}
  Bucket <- OneBucket
  OldKeys = {"old"}
  LostKeys = {"lost"}
  NewKey <- OwnKey
  Failed = 2
  LazyEpochs = 4
  \* Null and two pointers; epochs 2 to 7, of which 4 and 5 lack the region's bit
  \* and do not decode beside a pointer.
  Pointers = {"null", "p", "q"}
  Null = "null"
  EpochRange = 8
  RegionBit = 2
  StartEpoch = 2
  PtrEpochs = 7
  \* Two objects, limbo groups of two objects, at most two freed at a time.
  LastAddress = 2
  Superpage = 1
  Capacity = 4
  FreeCount = 2
  RcuEpochs = 3
  \* Three threads, epochs 1 to 3, one operation each.
  Workers = {t1, t2, t3}
  MaxClock = 3
  MaxOps = 1
SPECIFICATION EpochsSpec
INVARIANTS TypeOK UndoRestores ReadsRecovered ReadsValue PtrRecoverable
INVARIANTS GroupsInOrder NoEarlyReuse CheckpointKept
INVARIANTS FlushTypeOK Quiescent WaitsForFlush LogIsFresh
PROPERTIES UndoEnds OperationsEnd FlushEnds Termination
\* Operations and threads end; a behaviour stops where the node logs slip.
CHECK_DEADLOCK FALSE
