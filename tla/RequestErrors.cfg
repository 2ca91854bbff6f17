SPECIFICATION Spec
CONSTANTS
  Messages <- MCMessages
  Hosts <- MCHosts
  MaxMessages = 3
  MaxPasses = 1
  None = None
INVARIANT ErrorsStayExact
