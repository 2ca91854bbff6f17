SPECIFICATION Spec
CONSTANTS
  h = h  k = k
  Procs = {"p", "q"}
  Sessions = {1, 2}
  Handles = {h}
  Indexes <- MCIndexes
  InitFiles <- MCFiles
  Faults = {"unreadable", "raise", "crash"}
  Users = {"p", "q"}
INVARIANTS TypeOK MigrationExact MarkerMeansDone FailsClosed
