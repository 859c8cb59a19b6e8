------------------------------ MODULE WorkQueue ------------------------------
(***************************************************************************)
(* What the protocol server's thread pool promises to the code that pushes *)
(* tasks to it: a first-in first-out queue whose elements are taken, one   *)
(* at a time and each exactly once, by a fixed set of workers.  There is   *)
(* no lock, no condition variable and no wake-up here; ThreadPool.tla is   *)
(* the code, and implements this module.  The pool and its queue are the   *)
(* same files, byte for byte, in protocol-server and in protocol-client.   *)
(***************************************************************************)
EXTENDS Naturals, Sequences

CONSTANTS Workers,   \* the threads that take elements
          Items,     \* what may be pushed
          None       \* "no element"

VARIABLES pending,   \* the elements pushed and not yet taken, oldest first
          holding    \* the element each worker is working on, or None

wqVars == <<pending, holding>>

Init == /\ pending = <<>>
        /\ holding = [w \in Workers |-> None]

Submit == \E x \in Items : /\ pending' = Append(pending, x)
                           /\ UNCHANGED holding

Take(w) == /\ holding[w] = None
           /\ pending # <<>>
           /\ holding' = [holding EXCEPT ![w] = Head(pending)]
           /\ pending' = Tail(pending)

Finish(w) == /\ holding[w] # None
             /\ holding' = [holding EXCEPT ![w] = None]
             /\ UNCHANGED pending

Next == Submit \/ \E w \in Workers : Take(w) \/ Finish(w)

Spec == Init /\ [][Next]_wqVars

\* An element is taken as long as there is one and some worker is free.
FairSpec == Spec /\ WF_wqVars(\E w \in Workers : Take(w))
=============================================================================
