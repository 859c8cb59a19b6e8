--------------------------- MODULE ThreadPoolProofs ---------------------------
(***************************************************************************)
(* Proofs that the thread pool has the safety properties of                *)
(* ThreadPoolProps for every number of threads and every set of tasks.     *)
(***************************************************************************)
EXTENDS ThreadPoolProps, FiniteSetTheorems, SequenceTheorems, TLAPS

\* While the destructor waits for a thread, its index names one.
TypeInv == TypeOK /\ (phase = "join" => idx \in Workers)

LEMMA TypeInvariance == Spec => []TypeInv
<1>1. Init => TypeInv
  BY NumThreadsAssumption DEF Init, TypeInv, TypeOK, Workers
<1>2. TypeInv /\ [Next]_vars => TypeInv'
  <2> SUFFICES ASSUME TypeInv, [Next]_vars PROVE TypeInv'
    OBVIOUS
  <2> USE NumThreadsAssumption DEF TypeInv, TypeOK, Workers
  <2>1. ASSUME NEW x \in Tasks \cup {Stop}, Push(x)
        PROVE  /\ queue' \in Seq(Tasks \cup {Stop})
               /\ pc' \in [Workers -> {"new", "pop", "wait", "run", "exited"}]
    BY <2>1, AppendProperties DEF Push, NotifyOne, Waiting
  <2>2. CASE Spawn
    BY <2>2 DEF Spawn
  <2>3. CASE Constructed
    BY <2>3 DEF Constructed
  <2>4. ASSUME NEW t \in Tasks, Submit(t) PROVE TypeInv'
    BY <2>1, <2>4 DEF Submit
  <2>5. CASE BeginDestroy
    BY <2>5 DEF BeginDestroy
  <2>6. CASE PushStop
    BY <2>1, <2>6 DEF PushStop
  <2>7. CASE Join
    BY <2>7 DEF Join
  <2>8. CASE Destroyed
    BY <2>8 DEF Destroyed
  <2>9. ASSUME NEW w \in Workers, Pop(w) PROVE TypeInv'
    BY <2>9, HeadTailProperties DEF Pop
  <2>10. ASSUME NEW w \in Workers, Wait(w) PROVE TypeInv'
    BY <2>10 DEF Wait
  <2>11. ASSUME NEW w \in Workers, SpuriousWakeup(w) PROVE TypeInv'
    BY <2>11 DEF SpuriousWakeup
  <2>12. ASSUME NEW w \in Workers, Execute(w) PROVE TypeInv'
    BY <2>12 DEF Execute
  <2>13. ASSUME NEW w \in Workers, Exit(w) PROVE TypeInv'
    BY <2>13 DEF Exit
  <2>14. CASE UNCHANGED vars
    BY <2>14 DEF vars
  <2> QED BY <2>2, <2>3, <2>4, <2>5, <2>6, <2>7, <2>8, <2>9, <2>10, <2>11,
             <2>12, <2>13, <2>14 DEF Next, Pool, Thread
<1> QED BY <1>1, <1>2, PTL DEF Spec

(***************************************************************************)
(* Every variable of the pool keeps to its type: in particular the loop    *)
(* index of the constructor and of the destructor (thread_pool.cpp:22-34)  *)
(* stays within the vector of threads while it is used.                    *)
(***************************************************************************)
THEOREM TypeCorrect == Spec => []TypeOK
BY TypeInvariance, PTL DEF TypeInv

----------------------------------------------------------------------------
(***************************************************************************)
(* The wake-ups                                                            *)
(***************************************************************************)

LEMMA ThreadsAreFinite ==
  ASSUME NEW S \in SUBSET Workers
  PROVE  IsFiniteSet(S) /\ Cardinality(S) \in Nat
<1>1. IsFiniteSet(Workers)
  BY NumThreadsAssumption, FS_Interval DEF Workers
<1> QED BY <1>1, FS_Subset, FS_CardinalityType

LEMMA PoppingIsFinite ==
  IsFiniteSet(Popping) /\ Cardinality(Popping) \in Nat
BY ThreadsAreFinite DEF Popping

\* A thread that is not on its way to the queue sets out for it.
LEMMA PoppingGains ==
  ASSUME TypeOK, NEW w \in Workers, pc[w] # "pop",
         pc' = [pc EXCEPT ![w] = "pop"]
  PROVE  /\ Cardinality(Popping') = Cardinality(Popping) + 1
         /\ Waiting' = Waiting \ {w}
<1>1. Popping' = Popping \cup {w}
  BY DEF Popping, TypeOK
<1>2. w \notin Popping
  BY DEF Popping
<1>3. Waiting' = Waiting \ {w}
  BY DEF Waiting, TypeOK
<1> QED BY <1>1, <1>2, <1>3, PoppingIsFinite, FS_AddElement

\* A thread on its way to the queue arrives there.
LEMMA PoppingLoses ==
  ASSUME TypeOK, NEW w \in Workers, pc[w] = "pop",
         NEW l \in {"run", "wait"}, pc' = [pc EXCEPT ![w] = l]
  PROVE  Cardinality(Popping') = Cardinality(Popping) - 1
<1>1. Popping' = Popping \ {w}
  BY DEF Popping, TypeOK
<1>2. w \in Popping
  BY DEF Popping
<1> QED BY <1>1, <1>2, PoppingIsFinite, FS_RemoveElement

\* notify_one wakes a thread for every element that is added.
LEMMA PushKeepsUp ==
  ASSUME TypeOK, NoLostWakeup, NEW x \in Tasks \cup {Stop}, Push(x)
  PROVE  NoLostWakeup'
<1>1. Len(queue') = Len(queue) + 1 /\ Len(queue) \in Nat
  BY AppendProperties, LenProperties DEF Push, TypeOK
<1>2. CASE Waiting = {} /\ UNCHANGED pc
  BY <1>2 DEF NoLostWakeup, Waiting
<1>3. ASSUME NEW w \in Waiting, pc' = [pc EXCEPT ![w] = "pop"]
      PROVE  NoLostWakeup'
  <2>1. w \in Workers /\ pc[w] = "wait"
    BY DEF Waiting
  <2>2. Cardinality(Popping') = Cardinality(Popping) + 1
    BY <1>3, <2>1, PoppingGains
  <2> QED BY <1>1, <2>2, PoppingIsFinite DEF NoLostWakeup
<1> QED BY <1>2, <1>3 DEF Push, NotifyOne

(***************************************************************************)
(* No wake-up is lost in ThreadSafeQueue::push and pop, whatever the       *)
(* number of threads, spurious wake-ups and departures included: see       *)
(* NoLostWakeup.                                                           *)
(***************************************************************************)
THEOREM WakeupsAreNotLost == Spec => []NoLostWakeup
<1>1. Init => NoLostWakeup
  BY DEF Init, NoLostWakeup, Waiting
<1>2. TypeInv /\ NoLostWakeup /\ [Next]_vars => NoLostWakeup'
  <2> SUFFICES ASSUME TypeOK, TypeInv, NoLostWakeup, [Next]_vars
               PROVE  NoLostWakeup'
    BY DEF TypeInv
  <2> USE PoppingIsFinite
  <2>0. Len(queue) \in Nat
    BY LenProperties DEF TypeOK
  <2>1. ASSUME UNCHANGED <<queue, pc>> PROVE NoLostWakeup'
    BY <2>1 DEF NoLostWakeup, Waiting, Popping
  <2>2. ASSUME NEW w \in Workers, pc[w] # "pop",
               pc' = [pc EXCEPT ![w] = "pop"], UNCHANGED queue
        PROVE  NoLostWakeup'
    <3>1. Cardinality(Popping') = Cardinality(Popping) + 1
      BY <2>2, PoppingGains
    <3>2. Waiting' = Waiting \ {w}
      BY <2>2, PoppingGains
    <3>3. Len(queue') = Len(queue)
      BY <2>2
    <3>4. Waiting' # {} => Waiting # {}
      BY <3>2
    <3> QED BY <2>0, <3>1, <3>3, <3>4 DEF NoLostWakeup
  <2>3. CASE Spawn
    <3>1. idx \in Workers /\ pc' = [pc EXCEPT ![idx] = "pop"] /\ queue' = queue
      BY <2>3, NumThreadsAssumption DEF Spawn, TypeOK, Workers
    <3>2. CASE pc[idx] = "pop"
      <4>1. pc' = pc
        BY <3>1, <3>2 DEF TypeOK
      <4> QED BY <2>1, <3>1, <4>1
    <3> QED BY <2>2, <3>1, <3>2
  <2>4. ASSUME NEW t \in Tasks, Submit(t) PROVE NoLostWakeup'
    BY <2>4, PushKeepsUp DEF Submit
  <2>5. CASE PushStop
    BY <2>5, PushKeepsUp DEF PushStop
  <2>6. ASSUME NEW w \in Workers, Pop(w) PROVE NoLostWakeup'
    <3>1. Len(queue') = Len(queue) - 1
      BY <2>6, HeadTailProperties DEF Pop, TypeOK
    <3>2. Cardinality(Popping') = Cardinality(Popping) - 1
      BY <2>6, PoppingLoses DEF Pop
    <3>3. Waiting' \subseteq Waiting
      BY <2>6 DEF Pop, Waiting, TypeOK
    <3> QED BY <2>0, <3>1, <3>2, <3>3 DEF NoLostWakeup
  <2>7. ASSUME NEW w \in Workers, Wait(w) PROVE NoLostWakeup'
    <3>1. Len(queue') = 0
      BY <2>7 DEF Wait
    <3>2. Cardinality(Popping') \in Nat
      <4>1. Popping' \in SUBSET Workers
        BY DEF Popping, Workers
      <4> QED BY <4>1, ThreadsAreFinite
    <3> QED BY <3>1, <3>2 DEF NoLostWakeup
  <2>8. ASSUME NEW w \in Workers, SpuriousWakeup(w) PROVE NoLostWakeup'
    BY <2>2, <2>8 DEF SpuriousWakeup
  <2>9. ASSUME NEW w \in Workers, Execute(w) PROVE NoLostWakeup'
    BY <2>2, <2>9 DEF Execute
  <2>10. ASSUME NEW w \in Workers, Exit(w) PROVE NoLostWakeup'
    <3>1. Waiting' = Waiting /\ Popping' = Popping
      BY <2>10 DEF Exit, Waiting, Popping, TypeOK
    <3> QED BY <2>10, <3>1 DEF Exit, NoLostWakeup
  <2>11. CASE Constructed \/ BeginDestroy \/ Join \/ Destroyed \/ UNCHANGED vars
    BY <2>1, <2>11 DEF Constructed, BeginDestroy, Join, Destroyed, vars
  <2> QED BY <2>3, <2>4, <2>5, <2>6, <2>7, <2>8, <2>9, <2>10, <2>11
          DEF Next, Pool, Thread
<1> QED BY <1>1, <1>2, TypeInvariance, PTL DEF Spec

----------------------------------------------------------------------------
(***************************************************************************)
(* Draining                                                                *)
(***************************************************************************)

\* What a thread holds follows from where it is.
HeldMatchesPc ==
  /\ \A w \in Workers :
       /\ pc[w] \in {"new", "pop", "wait"} => elem[w] = None
       /\ pc[w] = "run" => elem[w] # None
       /\ pc[w] = "exited" => elem[w] = Stop
  /\ phase = "ctor" => \A w \in Workers : w >= idx => pc[w] = "new"

LEMMA HeldMatchesPcInvariance == Spec => []HeldMatchesPc
<1>1. Init => HeldMatchesPc
  BY DEF Init, HeldMatchesPc
<1>2. TypeInv /\ HeldMatchesPc /\ [Next]_vars => HeldMatchesPc'
  <2> SUFFICES ASSUME TypeInv, TypeOK, HeldMatchesPc, [Next]_vars
               PROVE  HeldMatchesPc'
    BY DEF TypeInv
  <2> USE NumThreadsAssumption, TasksAssumption DEF TypeOK, HeldMatchesPc, Workers
  <2>1. ASSUME phase # "ctor", phase' # "ctor", NotifyOne, elem' = elem
        PROVE  HeldMatchesPc'
    BY <2>1 DEF NotifyOne, Waiting
  <2>2. CASE Spawn
    BY <2>2 DEF Spawn
  <2>3. ASSUME NEW t \in Tasks, Submit(t) PROVE HeldMatchesPc'
    BY <2>1, <2>3 DEF Submit, Push
  <2>4. CASE PushStop
    BY <2>1, <2>4 DEF PushStop, Push
  <2>5. ASSUME NEW w \in Workers, Pop(w) PROVE HeldMatchesPc'
    <3>1. Head(queue) \in Tasks \cup {Stop}
      BY <2>5, HeadTailProperties DEF Pop
    <3> QED BY <2>5, <3>1 DEF Pop
  <2>6. ASSUME NEW w \in Workers, Wait(w) PROVE HeldMatchesPc'
    BY <2>6 DEF Wait
  <2>7. ASSUME NEW w \in Workers, SpuriousWakeup(w) PROVE HeldMatchesPc'
    BY <2>7 DEF SpuriousWakeup
  <2>8. ASSUME NEW w \in Workers, Execute(w) PROVE HeldMatchesPc'
    BY <2>8 DEF Execute
  <2>9. ASSUME NEW w \in Workers, Exit(w) PROVE HeldMatchesPc'
    BY <2>9 DEF Exit
  <2>10. CASE Constructed \/ BeginDestroy \/ Join \/ Destroyed \/ UNCHANGED vars
    BY <2>10 DEF Constructed, BeginDestroy, Join, Destroyed, vars
  <2> QED BY <2>2, <2>3, <2>4, <2>5, <2>6, <2>7, <2>8, <2>9, <2>10
          DEF Next, Pool, Thread
<1> QED BY <1>1, <1>2, TypeInvariance, PTL DEF Spec

\* The threads that the destructor has joined have exited.
JoinedHaveExited ==
  /\ phase \in {"stop", "join"} => \A w \in Workers : w < idx => pc[w] = "exited"
  /\ phase = "gone" => \A w \in Workers : pc[w] = "exited"

LEMMA JoinedHaveExitedInvariance == Spec => []JoinedHaveExited
<1>1. Init => JoinedHaveExited
  BY DEF Init, JoinedHaveExited
<1>2. TypeInv /\ JoinedHaveExited /\ [Next]_vars => JoinedHaveExited'
  <2> SUFFICES ASSUME TypeInv, TypeOK, JoinedHaveExited, [Next]_vars
               PROVE  JoinedHaveExited'
    BY DEF TypeInv
  <2> USE NumThreadsAssumption DEF TypeOK, JoinedHaveExited, Workers
  <2>1. ASSUME UNCHANGED idx,
               \/ phase' = phase
               \/ phase' = "join" /\ phase = "stop",
               \A w \in Workers : pc[w] = "exited" => pc'[w] = "exited"
        PROVE  JoinedHaveExited'
    BY <2>1
  <2>2. ASSUME NotifyOne, NEW w \in Workers, pc[w] = "exited"
        PROVE  pc'[w] = "exited"
    BY <2>2 DEF NotifyOne, Waiting
  <2>3. ASSUME NEW t \in Tasks, Submit(t) PROVE JoinedHaveExited'
    BY <2>1, <2>2, <2>3 DEF Submit, Push
  <2>4. CASE PushStop
    BY <2>1, <2>2, <2>4 DEF PushStop, Push
  <2>5. ASSUME NEW w \in Workers, Thread(w) PROVE JoinedHaveExited'
    BY <2>1, <2>5 DEF Thread, Pop, Wait, SpuriousWakeup, Execute, Exit
  <2>6. CASE Spawn \/ Constructed \/ BeginDestroy \/ Join \/ Destroyed \/ UNCHANGED vars
    BY <2>6 DEF Spawn, Constructed, BeginDestroy, Join, Destroyed, vars
  <2> QED BY <2>3, <2>4, <2>5, <2>6 DEF Next, Pool
<1> QED BY <1>1, <1>2, TypeInvariance, PTL DEF Spec

(***************************************************************************)
(* First-in first-out puts every Stop behind every early task: in the      *)
(* queue no early task follows a Stop, and none is left once a Stop has    *)
(* been taken.                                                             *)
(***************************************************************************)
EarlyFirst ==
  /\ phase \in {"ctor", "open"} =>
       /\ \A i \in 1..Len(queue) : queue[i] # Stop
       /\ \A w \in Workers : elem[w] # Stop
  /\ \A i, j \in 1..Len(queue) : i < j /\ queue[i] = Stop => queue[j] \notin early
  /\ (\E w \in Workers : elem[w] = Stop) =>
       \A i \in 1..Len(queue) : queue[i] \notin early

LEMMA EarlyFirstInvariance == Spec => []EarlyFirst
<1>1. Init => EarlyFirst
  BY TasksAssumption DEF Init, EarlyFirst
<1>2. TypeInv /\ EarlyFirst /\ [Next]_vars => EarlyFirst'
  <2> SUFFICES ASSUME TypeInv, TypeOK, EarlyFirst, [Next]_vars
               PROVE  EarlyFirst'
    BY DEF TypeInv
  <2> USE TasksAssumption DEF TypeOK, EarlyFirst
  <2>0. Len(queue) \in Nat
    BY LenProperties
  <2>1. ASSUME NEW x \in Tasks \cup {Stop}, queue' = Append(queue, x)
        PROVE  /\ Len(queue') = Len(queue) + 1
               /\ \A i \in 1..Len(queue') :
                    queue'[i] = IF i = Len(queue) + 1 THEN x ELSE queue[i]
    BY <2>1, AppendProperties
  <2>2. ASSUME NEW t \in Tasks, Submit(t) PROVE EarlyFirst'
    <3>1. Len(queue') = Len(queue) + 1
      BY <2>1, <2>2 DEF Submit, Push
    <3>2. \A i \in 1..Len(queue') :
            queue'[i] = IF i = Len(queue) + 1 THEN t ELSE queue[i]
      BY <2>1, <2>2 DEF Submit, Push
    <3>3. CASE phase = "open"
      <4>1. \A i \in 1..Len(queue') : queue'[i] # Stop
        BY <2>0, <3>1, <3>2, <3>3
      <4> QED BY <2>2, <3>3, <4>1 DEF Submit
    <3>4. CASE phase # "open"
      <4>1. early' = early /\ t \notin early /\ elem' = elem /\ phase' = phase
        BY <2>2, <3>4 DEF Submit
      <4>2. phase' \notin {"ctor", "open"}
        BY <2>2, <3>4 DEF Submit
      <4> QED BY <2>0, <3>1, <3>2, <4>1, <4>2
    <3> QED BY <3>3, <3>4
  <2>3. CASE PushStop
    <3>1. Len(queue') = Len(queue) + 1
      BY <2>1, <2>3 DEF PushStop, Push
    <3>2. \A i \in 1..Len(queue') :
            queue'[i] = IF i = Len(queue) + 1 THEN Stop ELSE queue[i]
      BY <2>1, <2>3 DEF PushStop, Push
    <3>3. Stop \notin early /\ early' = early /\ elem' = elem /\ phase' = "join"
      BY <2>3 DEF PushStop
    <3>4. ASSUME NEW i \in 1..Len(queue'), NEW j \in 1..Len(queue'),
                 i < j, queue'[i] = Stop
          PROVE  queue'[j] \notin early'
      BY <2>0, <3>1, <3>2, <3>3, <3>4
    <3>5. ASSUME NEW w \in Workers, elem'[w] = Stop, NEW i \in 1..Len(queue')
          PROVE  queue'[i] \notin early'
      BY <2>0, <3>1, <3>2, <3>3, <3>5
    <3> QED BY <3>3, <3>4, <3>5
  <2>4. ASSUME NEW w \in Workers, Pop(w) PROVE EarlyFirst'
    <3>1. /\ Len(queue) > 0 
          /\ Len(queue') = Len(queue) - 1
          /\ \A i \in 1..Len(queue') : queue'[i] = queue[i + 1]
          /\ Head(queue) = queue[1]
      BY <2>0, <2>4, HeadTailProperties, EmptySeq DEF Pop
    <3>2. early' = early /\ phase' = phase
      BY <2>4 DEF Pop
    <3>3. \A v \in Workers : elem'[v] = IF v = w THEN queue[1] ELSE elem[v]
      BY <2>4, <3>1 DEF Pop
    <3>4. ASSUME phase' \in {"ctor", "open"}
          PROVE  /\ \A i \in 1..Len(queue') : queue'[i] # Stop
                 /\ \A v \in Workers : elem'[v] # Stop
      BY <2>0, <3>1, <3>2, <3>3, <3>4
    <3>5. ASSUME NEW i \in 1..Len(queue'), NEW j \in 1..Len(queue'),
                 i < j, queue'[i] = Stop
          PROVE  queue'[j] \notin early'
      <4>1. i + 1 \in 1..Len(queue) /\ j + 1 \in 1..Len(queue) /\ i + 1 < j + 1
        BY <2>0, <3>1, <3>5
      <4> QED BY <3>1, <3>2, <3>5, <4>1
    <3>6. ASSUME NEW v \in Workers, elem'[v] = Stop, NEW i \in 1..Len(queue')
          PROVE  queue'[i] \notin early'
      <4>1. 1 \in 1..Len(queue) /\ i + 1 \in 1..Len(queue) /\ 1 < i + 1
        BY <2>0, <3>1
      <4> QED BY <3>1, <3>2, <3>3, <3>6, <4>1
    <3> QED BY <3>4, <3>5, <3>6
  <2>5. ASSUME NEW w \in Workers, Execute(w) PROVE EarlyFirst'
    BY <2>5 DEF Execute
  <2>6. ASSUME NEW w \in Workers, Wait(w) \/ SpuriousWakeup(w) \/ Exit(w)
        PROVE  EarlyFirst'
    BY <2>6 DEF Wait, SpuriousWakeup, Exit
  <2>7. CASE Spawn \/ Constructed \/ BeginDestroy \/ Join \/ Destroyed \/ UNCHANGED vars
    BY <2>7 DEF Spawn, Constructed, BeginDestroy, Join, Destroyed, vars
  <2> QED BY <2>2, <2>3, <2>4, <2>5, <2>6, <2>7 DEF Next, Pool, Thread
<1> QED BY <1>1, <1>2, TypeInvariance, PTL DEF Spec

\* A pushed task does not disappear before it is executed.
Somewhere ==
  \A t \in submitted : \/ t \in executed
                       \/ \E w \in Workers : elem[w] = t
                       \/ \E i \in 1..Len(queue) : queue[i] = t

LEMMA SomewhereInvariance == Spec => []Somewhere
<1>1. Init => Somewhere
  BY DEF Init, Somewhere
<1>2. TypeInv /\ HeldMatchesPc /\ Somewhere /\ [Next]_vars => Somewhere'
  <2> SUFFICES ASSUME TypeInv, TypeOK, HeldMatchesPc, Somewhere, [Next]_vars
               PROVE  Somewhere'
    BY DEF TypeInv
  <2> USE TasksAssumption DEF TypeOK, Somewhere
  <2>0. Len(queue) \in Nat
    BY LenProperties
  <2>1. ASSUME NEW x \in Tasks \cup {Stop}, queue' = Append(queue, x),
               submitted' \subseteq submitted \cup {x}, UNCHANGED <<elem, executed>>
        PROVE  Somewhere'
    <3>1. /\ Len(queue') = Len(queue) + 1
          /\ queue'[Len(queue) + 1] = x
          /\ \A i \in 1..Len(queue) : queue'[i] = queue[i]
      BY <2>0, <2>1, AppendProperties
    <3>2. Len(queue) + 1 \in 1..Len(queue') /\ 1..Len(queue) \subseteq 1..Len(queue')
      BY <2>0, <3>1
    <3> QED BY <2>1, <3>1, <3>2
  <2>2. ASSUME NEW t \in Tasks, Submit(t) PROVE Somewhere'
    BY <2>1, <2>2 DEF Submit, Push
  <2>3. CASE PushStop
    BY <2>1, <2>3 DEF PushStop, Push
  <2>4. ASSUME NEW w \in Workers, Pop(w) PROVE Somewhere'
    <3>1. /\ Len(queue') = Len(queue) - 1
          /\ \A i \in 1..Len(queue') : queue'[i] = queue[i + 1]
          /\ Head(queue) = queue[1]
      BY <2>0, <2>4, HeadTailProperties, EmptySeq DEF Pop
    <3>2. elem[w] = None /\ None \notin submitted
      BY <2>4 DEF Pop, HeldMatchesPc
    <3>3. \A v \in Workers : elem'[v] = IF v = w THEN queue[1] ELSE elem[v]
      BY <2>4, <3>1 DEF Pop
    <3>4. submitted' = submitted /\ executed' = executed
      BY <2>4 DEF Pop
    <3>5. ASSUME NEW t \in submitted, NEW i \in 1..Len(queue), queue[i] = t
          PROVE  \/ elem'[w] = t
                 \/ \E j \in 1..Len(queue') : queue'[j] = t
      <4>1. CASE i = 1
        BY <3>3, <3>5, <4>1
      <4>2. CASE i # 1
        <5>1. i - 1 \in 1..Len(queue') /\ queue'[i - 1] = t
          BY <2>0, <3>1, <3>5, <4>2
        <5> QED BY <5>1
      <4> QED BY <4>1, <4>2
    <3> QED BY <3>2, <3>3, <3>4, <3>5
  <2>5. ASSUME NEW w \in Workers, Execute(w) PROVE Somewhere'
    BY <2>5 DEF Execute
  <2>6. ASSUME NEW w \in Workers, Wait(w) \/ SpuriousWakeup(w) \/ Exit(w)
        PROVE  Somewhere'
    BY <2>6 DEF Wait, SpuriousWakeup, Exit
  <2>7. CASE Spawn \/ Constructed \/ BeginDestroy \/ Join \/ Destroyed \/ UNCHANGED vars
    BY <2>7 DEF Spawn, Constructed, BeginDestroy, Join, Destroyed, vars
  <2> QED BY <2>2, <2>3, <2>4, <2>5, <2>6, <2>7 DEF Next, Pool, Thread
<1> QED BY <1>1, <1>2, TypeInvariance, HeldMatchesPcInvariance, PTL DEF Spec

(***************************************************************************)
(* A pool that has a thread executes, before its destructor returns, every *)
(* task pushed before the destructor was entered.  Without a thread (the   *)
(* size ThreadPoolSingleton.h:6 computes on a one-core machine) it does    *)
(* not: nobody pops.                                                       *)
(***************************************************************************)
THEOREM DestructorDrainsTheQueue ==
  ASSUME NumThreads > 0
  PROVE  Spec => []DestructorDrains
<1>1. /\ TypeOK /\ HeldMatchesPc /\ JoinedHaveExited
      /\ EarlyFirst /\ Somewhere
      => DestructorDrains
  <2> SUFFICES ASSUME TypeOK, HeldMatchesPc, JoinedHaveExited, EarlyFirst,
                      Somewhere, phase = "gone", NEW t \in early
               PROVE  t \in executed
    BY DEF DestructorDrains
  <2>1. 1 \in Workers
    BY NumThreadsAssumption DEF Workers
  <2>2. \A w \in Workers : elem[w] = Stop
    BY DEF JoinedHaveExited, HeldMatchesPc
  <2>3. t # Stop /\ t \in submitted
    BY TasksAssumption DEF TypeOK
  <2> QED BY <2>1, <2>2, <2>3 DEF EarlyFirst, Somewhere
<1> QED BY <1>1, TypeCorrect, HeldMatchesPcInvariance,
           JoinedHaveExitedInvariance, EarlyFirstInvariance,
           SomewhereInvariance, PTL

----------------------------------------------------------------------------
(***************************************************************************)
(* One place for a task                                                    *)
(***************************************************************************)

\* No task is in two places, and only pushed ones are anywhere.
Once ==
  /\ \A i, j \in 1..Len(queue) : queue[i] \in Tasks /\ queue[i] = queue[j] => i = j
  /\ \A v, w \in Workers : elem[v] \in Tasks /\ elem[v] = elem[w] => v = w
  /\ \A i \in 1..Len(queue), w \in Workers : queue[i] \in Tasks => elem[w] # queue[i]
  /\ \A i \in 1..Len(queue) : queue[i] \in Tasks => queue[i] \in submitted \ executed
  /\ \A w \in Workers : elem[w] \in Tasks => elem[w] \in submitted \ executed
  /\ executed \subseteq submitted

LEMMA OnceInvariance == Spec => []Once
<1>1. Init => Once
  BY TasksAssumption DEF Init, Once
<1>2. TypeInv /\ HeldMatchesPc /\ Once /\ [Next]_vars => Once'
  <2> SUFFICES ASSUME TypeInv, TypeOK, HeldMatchesPc, Once, [Next]_vars
               PROVE  Once'
    BY DEF TypeInv
  <2> USE TasksAssumption DEF TypeOK, Once
  <2>0. Len(queue) \in Nat
    BY LenProperties
  <2>1. ASSUME NEW x \in Tasks \cup {Stop}, queue' = Append(queue, x)
        PROVE  /\ \A i \in 1..Len(queue') : i \in 1..Len(queue) \/ i = Len(queue) + 1
               /\ \A i \in 1..Len(queue) : queue'[i] = queue[i]
               /\ queue'[Len(queue) + 1] = x
    BY <2>0, <2>1, AppendProperties
  <2>2. ASSUME NEW t \in Tasks, Submit(t) PROVE Once'
    <3>1. /\ queue' = Append(queue, t) /\ t \notin submitted
          /\ submitted' = submitted \cup {t} /\ UNCHANGED <<elem, executed>>
      BY <2>2 DEF Submit, Push
    <3> QED BY <2>1, <3>1
  <2>3. CASE PushStop
    <3>1. queue' = Append(queue, Stop) /\ UNCHANGED <<submitted, elem, executed>>
      BY <2>3 DEF PushStop, Push
    <3> QED BY <2>1, <3>1
  <2>4. ASSUME NEW w \in Workers, Pop(w) PROVE Once'
    <3>1. /\ 1 \in 1..Len(queue)
          /\ \A i \in 1..Len(queue') :
               i + 1 \in 1..Len(queue) /\ i + 1 # 1 /\ queue'[i] = queue[i + 1]
          /\ Head(queue) = queue[1]
      BY <2>0, <2>4, HeadTailProperties, EmptySeq DEF Pop
    <3>2. /\ \A v \in Workers \ {w} : elem'[v] = elem[v]
          /\ elem'[w] = queue[1]
      BY <2>4, <3>1 DEF Pop
    <3>3. submitted' = submitted /\ executed' = executed
      BY <2>4 DEF Pop
    <3>4. ASSUME NEW i \in 1..Len(queue'), NEW j \in 1..Len(queue'),
                 queue'[i] \in Tasks, queue'[i] = queue'[j]
          PROVE  i = j
      <4>1. i + 1 = j + 1
        BY <3>1, <3>4
      <4> QED BY <4>1
    <3>5. \A u, v \in Workers : elem'[u] \in Tasks /\ elem'[u] = elem'[v] => u = v
      BY <3>1, <3>2
    <3>6. \A i \in 1..Len(queue'), v \in Workers : queue'[i] \in Tasks => elem'[v] # queue'[i]
      BY <3>1, <3>2
    <3> QED BY <3>1, <3>2, <3>3, <3>4, <3>5, <3>6
  <2>5. ASSUME NEW w \in Workers, Execute(w) PROVE Once'
    BY <2>5 DEF Execute
  <2>6. ASSUME NEW w \in Workers, Wait(w) \/ SpuriousWakeup(w) \/ Exit(w)
        PROVE  Once'
    BY <2>6 DEF Wait, SpuriousWakeup, Exit
  <2>7. CASE Spawn \/ Constructed \/ BeginDestroy \/ Join \/ Destroyed \/ UNCHANGED vars
    BY <2>7 DEF Spawn, Constructed, BeginDestroy, Join, Destroyed, vars
  <2> QED BY <2>2, <2>3, <2>4, <2>5, <2>6, <2>7 DEF Next, Pool, Thread
<1> QED BY <1>1, <1>2, TypeInvariance, HeldMatchesPcInvariance, PTL DEF Spec

LEMMA OneOrNone ==
  ASSUME NEW S, \A x, y \in S : x = y
  PROVE  S = {} \/ Cardinality(S) = 1
<1>1. ASSUME NEW x \in S PROVE Cardinality(S) = 1
  <2>1. S = {x}
    OBVIOUS
  <2> QED BY <2>1, FS_Singleton
<1> QED BY <1>1

(***************************************************************************)
(* Whatever the number of threads, a task that ThreadPool::push was given  *)
(* is in the queue, with one thread, or executed: once, and only there.    *)
(***************************************************************************)
THEOREM TasksHaveOnePlace == Spec => []ExactlyOnePlace
<1>1. TypeOK /\ Once /\ Somewhere => ExactlyOnePlace
  <2> SUFFICES ASSUME TypeOK, Once, Somewhere, NEW t \in Tasks
               PROVE  /\ t \in submitted =>
                           \/ /\ Cardinality(Queued(t)) = 1
                              /\ Holders(t) = {}
                              /\ t \notin executed
                           \/ /\ Queued(t) = {}
                              /\ Cardinality(Holders(t)) = 1
                              /\ t \notin executed
                           \/ /\ Queued(t) = {}
                              /\ Holders(t) = {}
                              /\ t \in executed
                      /\ t \notin submitted => Queued(t) = {} /\ Holders(t) = {}
    BY DEF ExactlyOnePlace
  <2>1. Queued(t) # {} => Holders(t) = {} /\ t \in submitted \ executed
    BY DEF Queued, Holders, Once
  <2>2. Holders(t) # {} => t \in submitted \ executed
    BY DEF Holders, Once
  <2>3. Queued(t) = {} \/ Cardinality(Queued(t)) = 1
    <3>1. \A i, j \in Queued(t) : i = j
      BY DEF Queued, Once
    <3> QED BY <3>1, OneOrNone
  <2>4. Holders(t) = {} \/ Cardinality(Holders(t)) = 1
    <3>1. \A v, w \in Holders(t) : v = w
      BY DEF Holders, Once
    <3> QED BY <3>1, OneOrNone
  <2>5. t \in submitted => t \in executed \/ Holders(t) # {} \/ Queued(t) # {}
    BY DEF Somewhere, Queued, Holders
  <2> QED BY <2>1, <2>2, <2>3, <2>4, <2>5
<1> QED BY <1>1, TypeCorrect, OnceInvariance, SomewhereInvariance, PTL

----------------------------------------------------------------------------
(***************************************************************************)
(* The refinement                                                          *)
(***************************************************************************)

(***************************************************************************)
(* Every step of the threads, the mutex and the condition variable is a    *)
(* step of the atomic work queue or leaves it unchanged.  This is the      *)
(* safety part of ImplementsWorkQueue.                                     *)
(***************************************************************************)
THEOREM ImplementsAtomicQueue == Spec => WQ!Spec
<1>1. Init => WQ!Init
  BY DEF Init, WQ!Init
<1>2. TypeOK /\ HeldMatchesPc /\ [Next]_vars => [WQ!Next]_(WQ!wqVars)
  <2> SUFFICES ASSUME TypeOK, HeldMatchesPc, [Next]_vars
               PROVE  WQ!Next \/ UNCHANGED <<queue, elem>>
    BY DEF WQ!wqVars
  <2> USE DEF WQ!Next
  <2>1. ASSUME NEW t \in Tasks, Submit(t) PROVE WQ!Submit
    BY <2>1 DEF Submit, Push, WQ!Submit
  <2>2. ASSUME PushStop PROVE WQ!Submit
    BY <2>2 DEF PushStop, Push, WQ!Submit
  <2>3. ASSUME NEW w \in Workers, Pop(w) PROVE WQ!Take(w)
    BY <2>3 DEF Pop, WQ!Take, HeldMatchesPc
  <2>4. ASSUME NEW w \in Workers, Execute(w) PROVE WQ!Finish(w)
    BY <2>4, TasksAssumption DEF Execute, WQ!Finish
  <2>5. ASSUME NEW w \in Workers, Wait(w) \/ SpuriousWakeup(w) \/ Exit(w)
        PROVE  UNCHANGED <<queue, elem>>
    BY <2>5 DEF Wait, SpuriousWakeup, Exit
  <2>6. CASE Spawn \/ Constructed \/ BeginDestroy \/ Join \/ Destroyed \/ UNCHANGED vars
    BY <2>6 DEF Spawn, Constructed, BeginDestroy, Join, Destroyed, vars
  <2> QED BY <2>1, <2>2, <2>3, <2>4, <2>5, <2>6 DEF Next, Pool, Thread
<1> QED BY <1>1, <1>2, TypeCorrect, HeldMatchesPcInvariance, PTL
        DEF Spec, WQ!Spec
=============================================================================
