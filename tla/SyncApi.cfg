\* Two clients at once, one of which may be late.
CONSTANTS
  Clients = {c1, c2}
  Workers = {w1, w2, w3, w4}
  Late = {c2}
  Garbage = Garbage
  None = None
SPECIFICATION FairSpec
INVARIANTS
  CompletedIsTrue
  PendingIsWorkedOn
PROPERTIES
  PromptClientsFinish
\* Every client may be done.
CHECK_DEADLOCK FALSE
