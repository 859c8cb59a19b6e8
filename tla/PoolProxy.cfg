\* Three clients, one more than there are connections, of which one may go
\* away; one of the connections may be lost.
CONSTANTS
  Clients = {c1, c2, c3}
  Conns = {r1, r2}
  MayHangUp = {c1}
  Unreliable = {r1}
  None = None
SPECIFICATION FairSpec
INVARIANTS
  LeasesMatchThreads
  

  
  
\* Every client may be done, or the process gone.
CHECK_DEADLOCK FALSE
