SPECIFICATION Spec
CONSTANTS
  t1 = t1  t2 = t2  t3 = t3
  Threads = {t1, t2, t3}
  Sessions = {"s", "u"}
  Sights = {"a", "b"}
  Requests <- MCRequests
  Limits = {0, 2}
  None = None
SYMMETRY ThreadSymmetry
INVARIANTS TypeOK OwnView OnlyRacesRaise Capacity RecentKept
