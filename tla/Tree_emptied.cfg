SPECIFICATION EmptiedSpec
CONSTANTS
  Threads <- AllThreads  Main = "main"  Collector = "gc"
  Slices <- LayerSlices  Keys <- LayerKeys  Leaves <- LayerLeaves  Programs <- LayerPrograms
INVARIANT EmptiedGetsAreCurrent
CHECK_DEADLOCK FALSE
