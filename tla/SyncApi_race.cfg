\* Two clients at once that race on the map.
CONSTANTS
  Clients = {c1, c2}
  Workers = {w1, w2, w3, w4}
  Late = {}
  Garbage = Garbage
  None = None
SPECIFICATION FairSpec
PROPERTY PollingEnds
\* Every client may be done.
CHECK_DEADLOCK FALSE
