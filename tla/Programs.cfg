CONSTANTS
  \* Streams of two bytes through buffers for one: a write waits for a read.
  MaxBytes = 2
  Room = 1
  \* One client more than there are slots.
  Users = {u1, u2, u3}
  NumSlots = 2
  MaxSaid = 1
  MaxLines = 3
  MaxNews = 1
  Callers = {u1, u2}
  RequestChunks = 2
  MaxTyped = 2
  Uploaders = {u1, u2}
  BodyLen = 2
  MaxTurns = 3
  Threads = {h1, h2}
  MaxLog = 2
  Tasks = {k1, k2}
  Weights <- TwoAndOne
  MaxPicks = 5
  Objects = {o1, o2, o3}
  NumDescriptors = 2
  MaxCounters = 2
  MaxCount = 3
SPECIFICATION FairSpec
INVARIANTS
  NothingIsLost
  StreamsKeepOrder
  TableIsSound
  WireIsTyped
  
  FileIsOneUpload
  TurnsAlternate
  LinesAreKept
  SharesAreKept
  
PROPERTIES
  EndsAreRelayed
  EveryoneIsServed
  
\* Every program ends: when its peers have, or its bounds are reached.
CHECK_DEADLOCK FALSE
