SPECIFICATION Spec
CONSTANTS
  Calls <- MCAllCalls
  Classes = {"terminal_tool_output"}
  MinSaved = 1
  CacheTTL = 5
  ProtectMessages = 1
  ProtectTools = 1
  TriggerRatio = None
  TargetRatio = 60
  SoftRatio = None
  HardRatio = 60
  ExcerptTokens = 2
  None = None
INVARIANTS TypeOK ProtectedKept AtomicGroups FitsThreshold ExcerptsStored LatestPrefix
PROPERTY CallEnds
