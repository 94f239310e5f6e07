SPECIFICATION Spec
CONSTANTS
  Copart = copart
  Iaai = iaai
  Lots <- SearchLots
  Pages = 2
  Requests = {}
  MaxChanges = 0
  MaxTroubles = 1
INVARIANT NewMeansNew
CHECK_DEADLOCK FALSE
