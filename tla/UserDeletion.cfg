SPECIFICATION Spec
CONSTANTS
  Emails = {admin, other}
  BootstrapEmail = admin
  Invites = {i1}
  Requests = {r1, r2}
  Ops <- DataOps
  MaxUsers = 2
  MaxCalls = 3
  MaxDocs = 1
SYMMETRY RequestSymmetry
INVARIANTS
  NothingLeft
CHECK_DEADLOCK FALSE
