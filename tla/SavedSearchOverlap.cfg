SPECIFICATION FairSpec
CONSTANTS
  Copart = copart
  Iaai = iaai
  Lots <- SearchLots
  Pages = 2
  Requests = {q1}
  MaxChanges = 1
  MaxTroubles = 1
INVARIANTS
  TypeOK
  NoSilentMatch
  AnnouncedOnce
PROPERTY CacheConverges
CHECK_DEADLOCK FALSE
