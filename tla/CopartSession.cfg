SPECIFICATION Spec
CONSTANTS
  Requests = {r1}
  Calls = {c1}
  Configs <- CopartConfigs
  Limit = 2
  Window = 1
  MaxSessions = 2
  MaxVersion = 3
INVARIANTS
  TypeOK
PROPERTIES
  StatusEarned
  LimitLifts
