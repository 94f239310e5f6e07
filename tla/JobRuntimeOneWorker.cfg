SPECIFICATION Spec
CONSTANTS
  Workers = {w1}
  Jobs = {j1, j2}
  Lease = 2
  Backoff = 1
  MaxLag = 3
  MaxAborts = 2
INVARIANTS
  TypeOK
  SkipExplained
PROPERTIES
  GateKept
  StuckLeaseRecovered

