\* One worker for three connections.
CONSTANTS
  Listeners = {l1}
  Clients = {c1, c2, c3}
  Workers = {w1}
  Spawners = {}
  PollLimit = 1
  Background = Background
  None = None
SPECIFICATION FairSpec
PROPERTY EveryConnectionEnds
CHECK_DEADLOCK FALSE
