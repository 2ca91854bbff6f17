SPECIFICATION Spec
CONSTANTS
  Messages <- MCMessages
  Hosts <- MCHosts
  MaxMessages = 4
  MaxPasses = 4
  None = None
INVARIANTS TypeOK ExemptExact CutsSettle
PROPERTY PrefixStable
