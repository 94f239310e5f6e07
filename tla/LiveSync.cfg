SPECIFICATION LiveSpec
CONSTANTS
  Keys = {"stale"}
  Unlisted = "other"
  TypeOf <- MCTypeOf
  Low <- MCLow
  High <- MCHigh
  MaxItems = 2
  Default <- MCDefault
  Raws <- MCRaws
  Admins = {a1, a2}
  MaxChanges = 2
  StaleKey = "stale"
  Requests = {r1}
  MaxTime = 2
INVARIANTS
  LiveTypeOK
  AnsweredIsInEffect
  CycleUpToDate
PROPERTY
  Recovers
CHECK_DEADLOCK FALSE
