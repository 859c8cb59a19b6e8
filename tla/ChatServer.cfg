\* Three clients for two slots, one of which may go and make room.
CONSTANTS
  Clients = {c1, c2, c3}
  NumSlots = 2
  MaxMessages = 2
  MayVanish = {c1}
  None = None
SPECIFICATION FairSpec
INVARIANTS
  MapsAgree
  InOrderOnce
PROPERTIES
  GoneClientsAreRemoved
  
\* The server waits when nobody says anything, and may be killed.
CHECK_DEADLOCK FALSE
