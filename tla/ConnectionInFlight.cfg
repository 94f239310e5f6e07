SPECIFICATION FairSpec
CONSTANTS
  Users = {u1}
  Ops = {o1, o2}
  MaxLogins = 2
  MaxVersion = 3
INVARIANTS
  TypeOK
  BundleMatchesVersion
  SessionsStayHome
PROPERTIES
  RotationsChain
  DeadSessionNoticed
CHECK_DEADLOCK FALSE
