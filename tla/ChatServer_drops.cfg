\* Two clients that stay.
CONSTANTS
  Clients = {c1, c2}
  NumSlots = 2
  MaxMessages = 2
  MayVanish = {}
  None = None
SPECIFICATION Spec
PROPERTY ReadIsQueued
\* The server waits when nobody says anything, and may be killed.
CHECK_DEADLOCK FALSE
