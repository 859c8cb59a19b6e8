------------------------------ MODULE ThreadPool ------------------------------
(***************************************************************************)
(* thread_pool::ThreadPool over thread_pool::ThreadSafeQueue               *)
(* (protocol-server/src/utils/thread_pool, .../thread_safe_queue): a pool  *)
(* of NumThreads threads popping tasks from one queue that is guarded by a *)
(* mutex and a condition variable.                                         *)
(*                                                                         *)
(* push() is a single critical section.  pop() is one critical section     *)
(* when the queue is not empty; otherwise cv.wait releases the mutex and   *)
(* blocks in one step, and a thread that wakes up, because it was notified *)
(* or spuriously, takes the mutex again and re-evaluates the predicate.    *)
(* Every critical section is one action.                                   *)
(***************************************************************************)
EXTENDS Naturals, Sequences, FiniteSets

CONSTANTS NumThreads,  \* n_threads of the constructor
          Tasks,       \* the tasks of type Execute; each is pushed at most once
          Stop,        \* the task of type Stop that the destructor pushes
          None         \* "no task"

ASSUME NumThreadsAssumption == NumThreads \in Nat
ASSUME TasksAssumption == Stop \notin Tasks /\ None \notin Tasks /\ Stop # None

Workers == 1..NumThreads

VARIABLES queue,      \* _queue
          pc,         \* where each thread is in its loop
          elem,       \* elem: the task popped last, None once it has returned
          phase,      \* the pool's life: constructor, open, destructor, gone
          idx,        \* i, the loop index of the constructor and destructor
          submitted,  \* tasks pushed so far
          early,      \* tasks pushed before the destructor was entered
          executed    \* tasks whose function has returned

vars == <<queue, pc, elem, phase, idx, submitted, early, executed>>

(***************************************************************************)
(* "new": not created;  "pop": in pop(), about to take the mutex;          *)
(* "wait": blocked in cv.wait;  "run": holding a popped task;              *)
(* "exited": the thread function has returned.                             *)
(***************************************************************************)
Waiting == {w \in Workers : pc[w] = "wait"}
Popping == {w \in Workers : pc[w] = "pop"}

Init == /\ queue = <<>>
        /\ pc = [w \in Workers |-> "new"]
        /\ elem = [w \in Workers |-> None]
        /\ phase = "ctor"
        /\ idx = 1
        /\ submitted = {}
        /\ early = {}
        /\ executed = {}

----------------------------------------------------------------------------
(***************************************************************************)
(* The queue                                                               *)
(***************************************************************************)

\* _queue_cv.notify_one(): one blocked thread, if there is any, is woken.
NotifyOne == \/ /\ Waiting = {}
                /\ UNCHANGED pc
             \/ \E w \in Waiting : pc' = [pc EXCEPT ![w] = "pop"]

\* Mutant of Push: without the notification.
PushSilently(x) == queue' = Append(queue, x) /\ UNCHANGED pc

Push(x) == /\ queue' = Append(queue, x)
           /\ NotifyOne

\* Mutant of Pop: _queue.front() without _queue.pop().
PopKeepsFront(w) == /\ pc[w] = "pop"
                    /\ queue # <<>>
                    /\ elem' = [elem EXCEPT ![w] = Head(queue)]
                    /\ pc' = [pc EXCEPT ![w] = "run"]
                    /\ UNCHANGED <<queue, phase, idx, submitted, early, executed>>

\* Mutant of Pop: the last element is taken instead of the first.
PopLast(w) == /\ pc[w] = "pop"
              /\ queue # <<>>
              /\ elem' = [elem EXCEPT ![w] = queue[Len(queue)]]
              /\ queue' = SubSeq(queue, 1, Len(queue) - 1)
              /\ pc' = [pc EXCEPT ![w] = "run"]
              /\ UNCHANGED <<phase, idx, submitted, early, executed>>

Pop(w) == /\ pc[w] = "pop"
          /\ queue # <<>>
          /\ elem' = [elem EXCEPT ![w] = Head(queue)]
          /\ queue' = Tail(queue)
          /\ pc' = [pc EXCEPT ![w] = "run"]
          /\ UNCHANGED <<phase, idx, submitted, early, executed>>

Wait(w) == /\ pc[w] = "pop"
           /\ queue = <<>>
           /\ pc' = [pc EXCEPT ![w] = "wait"]
           /\ UNCHANGED <<queue, elem, phase, idx, submitted, early, executed>>

\* cv.wait may return although nobody notified the thread.
SpuriousWakeup(w) ==
  /\ pc[w] = "wait"
  /\ pc' = [pc EXCEPT ![w] = "pop"]
  /\ UNCHANGED <<queue, elem, phase, idx, submitted, early, executed>>

----------------------------------------------------------------------------
(***************************************************************************)
(* The threads                                                             *)
(***************************************************************************)

\* case TaskType::Execute: the task's function runs and the loop goes on.
Execute(w) == /\ pc[w] = "run"
              /\ elem[w] \in Tasks
              /\ executed' = executed \cup {elem[w]}
              /\ elem' = [elem EXCEPT ![w] = None]
              /\ pc' = [pc EXCEPT ![w] = "pop"]
              /\ UNCHANGED <<queue, phase, idx, submitted, early>>

\* Mutant of Exit: the Stop case breaks out of the switch and loops on.
StopLoopsOn(w) == /\ pc[w] = "run"
                  /\ elem[w] = Stop
                  /\ elem' = [elem EXCEPT ![w] = None]
                  /\ pc' = [pc EXCEPT ![w] = "pop"]
                  /\ UNCHANGED <<queue, phase, idx, submitted, early, executed>>

\* case TaskType::Stop: the thread returns.
Exit(w) == /\ pc[w] = "run"
           /\ elem[w] = Stop
           /\ pc' = [pc EXCEPT ![w] = "exited"]
           /\ UNCHANGED <<queue, elem, phase, idx, submitted, early, executed>>

----------------------------------------------------------------------------
(***************************************************************************)
(* The pool object                                                         *)
(***************************************************************************)

\* Mutant of Spawn: i <= n_threads.
SpawnOneTooMany == /\ phase = "ctor"
                   /\ idx <= NumThreads + 1
                   /\ pc' = [w \in Workers |-> IF w = idx THEN "pop" ELSE pc[w]]
                   /\ idx' = idx + 1
                   /\ UNCHANGED <<queue, elem, phase, submitted, early, executed>>

\* One turn of the constructor's loop: the new thread runs at once.
Spawn == /\ phase = "ctor"
         /\ idx <= NumThreads
         /\ pc' = [pc EXCEPT ![idx] = "pop"]
         /\ idx' = idx + 1
         /\ UNCHANGED <<queue, elem, phase, submitted, early, executed>>

Constructed == /\ phase = "ctor"
               /\ idx > NumThreads
               /\ phase' = "open"
               /\ UNCHANGED <<queue, pc, elem, idx, submitted, early, executed>>

\* ThreadPool::push, called by a listener thread or by a running task.
\* Nothing keeps a caller out while the destructor is running.
Submit(t) == /\ phase \in {"open", "join", "stop"}
             /\ t \notin submitted
             /\ Push(t)
             /\ submitted' = submitted \cup {t}
             /\ early' = IF phase = "open" THEN early \cup {t} ELSE early
             /\ UNCHANGED <<elem, phase, idx, executed>>

BeginDestroy == /\ phase = "open"
                /\ phase' = "stop"
                /\ idx' = 1
                /\ UNCHANGED <<queue, pc, elem, submitted, early, executed>>

\* push(stop_task), for the turn of thread idx.
PushStop == /\ phase = "stop"
            /\ idx <= NumThreads
            /\ Push(Stop)
            /\ phase' = "join"
            /\ UNCHANGED <<elem, idx, submitted, early, executed>>

\* _threads[idx].join() returns once that thread has exited.
Join == /\ phase = "join"
        /\ pc[idx] = "exited"
        /\ phase' = "stop"
        /\ idx' = idx + 1
        /\ UNCHANGED <<queue, pc, elem, submitted, early, executed>>

Destroyed == /\ phase = "stop"
             /\ idx > NumThreads
             /\ phase' = "gone"
             /\ UNCHANGED <<queue, pc, elem, idx, submitted, early, executed>>

Pool == \/ Spawn
        \/ Constructed
        \/ \E t \in Tasks : Submit(t)
        \/ BeginDestroy
        \/ PushStop
        \/ Join
        \/ Destroyed

Thread(w) == \/ Pop(w)
             \/ Wait(w)
             \/ SpuriousWakeup(w)
             \/ Execute(w)
             \/ Exit(w)

Next == Pool \/ \E w \in Workers : Thread(w)

Spec == Init /\ [][Next]_vars

(***************************************************************************)
(* The operating system runs every thread that can run, tasks return, and  *)
(* the destructor goes on; nothing obliges anybody to push a task, to      *)
(* destroy the pool, or a wait to return spuriously.                       *)
(***************************************************************************)
Fairness == /\ WF_vars(Spawn \/ Constructed)
            /\ WF_vars(PushStop \/ Join \/ Destroyed)
            /\ \A w \in Workers :
                 /\ WF_vars(Pop(w) \/ Wait(w))
                 /\ WF_vars(Execute(w) \/ Exit(w))

FairSpec == Spec /\ Fairness
=============================================================================
