SPECIFICATION Spec
CONSTANTS
  p1 = p1  p2 = p2  s1 = s1  s2 = s2  c1 = c1  c2 = c2  c3 = c3  h1 = h1  h2 = h2
  Procs = {p1, p2}
  Sessions = {s1}
  Contents = {c1, c3}
  Handles = {h1, h2}
  HandleOf <- MCTwoHandles
  Size <- MCUnevenSizes
  Roles <- MCPutAndSweep
  Faults = {}
  TTL = 0
  TombTTL = 0
  MaxBytes = 1
  MaxRetries = 0
  MaxClock = 1
  MaxDamage = 0
  None = None
  Damaged = Damaged
PROPERTY SweepEnforcesCap
