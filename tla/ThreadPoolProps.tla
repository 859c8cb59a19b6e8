--------------------------- MODULE ThreadPoolProps ---------------------------
(***************************************************************************)
(* What the thread pool guarantees.                                        *)
(***************************************************************************)
EXTENDS ThreadPool

TypeOK ==
  /\ queue \in Seq(Tasks \cup {Stop})
  /\ pc \in [Workers -> {"new", "pop", "wait", "run", "exited"}]
  /\ elem \in [Workers -> Tasks \cup {Stop, None}]
  /\ phase \in {"ctor", "open", "stop", "join", "gone"}
  /\ idx \in 1..(NumThreads + 1)
  /\ submitted \in SUBSET Tasks
  /\ early \in SUBSET submitted
  /\ executed \in SUBSET Tasks

(***************************************************************************)
(* No wake-up is lost.  push() notifies one thread only, spurious wake-ups *)
(* and threads that leave for good compete with the notified ones, and yet *)
(* a thread never sleeps while there are more elements in the queue than   *)
(* threads on their way to it.                                             *)
(***************************************************************************)
NoLostWakeup == Waiting # {} => Len(queue) <= Cardinality(Popping)

Queued(t) == {i \in 1..Len(queue) : queue[i] = t}
Holders(t) == {w \in Workers : elem[w] = t}

(***************************************************************************)
(* A pushed task is in exactly one place, once: waiting in the queue, held *)
(* by one thread, or executed.  No interleaving of pops runs a task twice  *)
(* or loses it.                                                            *)
(***************************************************************************)
ExactlyOnePlace ==
  \A t \in Tasks :
    /\ t \in submitted =>
         \/ /\ Cardinality(Queued(t)) = 1
            /\ Holders(t) = {}
            /\ t \notin executed
         \/ /\ Queued(t) = {}
            /\ Cardinality(Holders(t)) = 1
            /\ t \notin executed
         \/ /\ Queued(t) = {}
            /\ Holders(t) = {}
            /\ t \in executed
    /\ t \notin submitted => Queued(t) = {} /\ Holders(t) = {}

(***************************************************************************)
(* Destruction drains: when the destructor has returned, every task that   *)
(* was pushed before it was entered has been executed.  This rests on the  *)
(* queue being first-in first-out and on the join of every thread.         *)
(***************************************************************************)
DestructorDrains == phase = "gone" => early \subseteq executed

(***************************************************************************)
(* ~ThreadPool returns, unless a thread takes a Stop that was pushed for   *)
(* one with a smaller index: push(stop) does not name the thread that the  *)
(* following join waits for (thread_pool.cpp:29-34).  That is the only     *)
(* way to block it, and there is none when there is one thread.            *)
(***************************************************************************)
StopTakenAhead == phase = "join" /\ \E w \in Workers : w > idx /\ elem[w] = Stop

DestructorReturns == phase = "stop" ~> phase = "gone" \/ StopTakenAhead

(***************************************************************************)
(* The mutex, the condition variable and the wait set implement the atomic *)
(* work queue: sleeping and waking are stuttering steps of it, and the     *)
(* queue's fairness follows from that of the threads.                      *)
(***************************************************************************)
WQ == INSTANCE WorkQueue WITH
        Items <- Tasks \cup {Stop}, pending <- queue, holding <- elem

ImplementsWorkQueue == WQ!FairSpec
=============================================================================
