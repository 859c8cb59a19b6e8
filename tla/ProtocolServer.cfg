\* Two connections on two ports, one of which makes its handler push a task,
\* and a worker for every task.
CONSTANTS
  Listeners = {l1, l2}
  Clients = {c1, c2}
  Workers = {w1, w2, w3}
  Spawners = {c1}
  PollLimit = 2
  Background = Background
  None = None
SPECIFICATION FairSpec
INVARIANTS
  ServedAlone
  AnswersGoHome
PROPERTIES
  EveryConnectionEnds
  PromptClientsAreAnswered
\* The server waits for connections for ever.
CHECK_DEADLOCK FALSE
