SPECIFICATION Spec
CONSTANTS
  p1 = p1  p2 = p2  s1 = s1  s2 = s2  c1 = c1  c2 = c2  c3 = c3  h1 = h1  h2 = h2
  Procs = {p1, p2}
  Sessions = {s1, s2}
  Contents = {c1, c2}
  Handles = {h1}
  HandleOf <- MCOneHandle
  Size <- MCOneSize
  Roles <- MCClientAndKeeper
  Faults = {"raise", "crash", "damage"}
  TTL = 0
  TombTTL = 0
  MaxBytes = 0
  MaxRetries = 0
  MaxClock = 1
  MaxDamage = 1
  None = None
  Damaged = Damaged
SYMMETRY SessionSymmetry
INVARIANTS TypeOK FetchExact Provenance
PROPERTY ImplementsContract
