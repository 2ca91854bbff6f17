SPECIFICATION Spec
CONSTANTS
  t1 = t1  t2 = t2  t3 = t3
  Threads = {t1, t2, t3}
  Calls <- MCCalls
  MaxCalls = 3
  None = None
SYMMETRY ThreadSymmetry
INVARIANTS TypeOK CountersBounded SnapshotBounded
