\* Three threads, so that a Stop can be taken by the wrong one while another
\* sleeps, and three tasks, pushed before or during the destructor.
CONSTANTS
  NumThreads = 3
  Tasks = {t1, t2, t3}
  Stop = Stop
  None = None
SPECIFICATION FairSpec
INVARIANTS
  TypeOK
  NoLostWakeup
  ExactlyOnePlace
  DestructorDrains
PROPERTIES
  DestructorReturns
  ImplementsWorkQueue
\* The program ends when the pool is gone.
CHECK_DEADLOCK FALSE
