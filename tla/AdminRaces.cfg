SPECIFICATION Spec
CONSTANTS
  Emails = {admin, other}
  BootstrapEmail = admin
  Invites = {i1}
  Requests = {r1, r2}
  Ops <- AccountOps
  MaxUsers = 3
  MaxCalls = 4
  MaxDocs = 0
SYMMETRY RequestSymmetry
INVARIANTS
  TypeOK
  AdminRemains
  OneAccountPerInvite
CHECK_DEADLOCK FALSE
