SPECIFICATION FairSpec
CONSTANTS
  Requests = {q1}
  Etags = {TRUE}
  MaxRevision = 3
  MaxCrashes = 1
PROPERTIES
  UnseenUntilAcked
  HealsAtQuietChange
CHECK_DEADLOCK FALSE
