\* Every use the interface allows.
CONSTANTS
  Conns = {c1, c2}
  Proxies = {p1, p2, p3}
  None = None
  ReportsHealth = TRUE
  ConnectMayFail = TRUE
  ExplicitRelease = TRUE
  Overwrites = TRUE
SPECIFICATION Spec
INVARIANT Conserved
