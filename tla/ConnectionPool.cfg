\* Proxies are let go by their destructor and never assigned over, and
\* connect() succeeds or throws, as in TcpConnection and TestConnection.
CONSTANTS
  Conns = {c1, c2}
  Proxies = {p1, p2, p3}
  None = None
  ReportsHealth = TRUE
  ConnectMayFail = FALSE
  ExplicitRelease = FALSE
  Overwrites = FALSE
SPECIFICATION FairSpec
INVARIANTS
  TypeOK
  ExclusiveUse
  UsedIsBusy
  BusyForAReason
PROPERTY ImplementsLease
