SPECIFICATION FairSpec
CONSTANTS
  Requests = {}
  Etags = {TRUE, FALSE}
  MaxRevision = 3
  MaxCrashes = 2
INVARIANTS
  TypeOK
  HistoryKeepsUp
  PushedOnce
  EtagTrusted
PROPERTIES
  ContentConverges
  LastChangeAnnounced
CHECK_DEADLOCK FALSE
