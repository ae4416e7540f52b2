SPECIFICATION CoreSpec
CONSTANTS
  \* A leaf of two slots, one in each value line.
  KEY_LW = 2
  KEY_MID = 1
  EpochMask = 8
  v1 = v1
  v2 = v2
  Vals <- MCVals
  Absent = Absent
  MaxEpoch = 5
  MaxLocks = 2
  \* The programs of MCTree.
  Threads <- AllThreads  Main = "main"  Collector = "gc"
  Slices <- LayerSlices  Keys <- LayerKeys  Leaves <- LayerLeaves  Programs <- LayerPrograms
SYMMETRY MCSymmetry
INVARIANTS TypeOK CrashRecoverable RecordedOnce
INVARIANTS TreeTypeOK GetsAreCurrent ScansAreComplete ParentKnowsChild TreeAtRest StuckOnlyInSplit
INVARIANTS LayerGetsAreCurrent NothingLost StuckOnlyInDeletedLayer NoEmptyLayer
PROPERTY DurableRefinement
\* Operations and threads end, or wait for ever where the StuckOnly properties say.
CHECK_DEADLOCK FALSE
