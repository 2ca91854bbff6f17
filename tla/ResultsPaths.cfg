SPECIFICATION Spec
CONSTANTS
  Configs <- MCConfigs
  Payloads <- MCPayloads
INVARIANTS TypeOK HandleUsable ErrorsExact
CHECK_DEADLOCK FALSE
