-------------------------------- MODULE Balancer --------------------------------
(***************************************************************************)
(* The load balancer (protocol-server/src/engine/load_balancer): the pool  *)
(* threads that run CProxySocket::ThreadHandler ask it for a service.  The *)
(* position of both round-robin strategies is in static variables, which   *)
(* the threads read and write without a lock, one access at a time; what a *)
(* statement has in hand is used or read again, as the build likes.        *)
(***************************************************************************)
EXTENDS Integers, FiniteSetsExt

CONSTANTS Tasks,    \* the threads that select a server
          Weights,  \* Weights[i] \in Nat: the weight of services[i], i from 0
          MaxPicks  \* bound: how many selections are begun

VARIABLES
  strategy,     \* the strategy of the proxy socket
  currentIndex, \* the static position: -1 at first
  weight,       \* the static weight that is left
  at,           \* where each task is in selectServer
  inHand,       \* the value that each task has read
  picked,       \* the indices that selections have returned, and how often each
  begun,        \* how many selections were begun
  overlapped    \* two selections have been under way at a time

balancerVars == <<strategy, currentIndex, weight, at, inHand, picked, begun, overlapped>>

Servers == DOMAIN Weights
Strategies == {"RoundRobin", "WeightedRoundRobin", "Random"}
Idle == {t \in Tasks : at[t] = "idle"}

Init == /\ strategy \in Strategies
        /\ currentIndex = -1 /\ weight = 0
        /\ at = [t \in Tasks |-> "idle"]
        /\ inHand = [t \in Tasks |-> 0]
        /\ picked = <<>>
        /\ begun = 0 /\ overlapped = FALSE

Go(t, from, to) == at[t] = from /\ at' = [at EXCEPT ![t] = to]
Have(t, v) == inHand' = [inHand EXCEPT ![t] = v]
Times(i) == IF i \in DOMAIN picked THEN picked[i] ELSE 0
Return(i) == picked' = [j \in DOMAIN picked \cup {i} |-> IF j = i THEN Times(i) + 1 ELSE picked[j]]

----------------------------------------------------------------------------

RequestServer(t) ==
  /\ begun < MaxPicks
  /\ Go(t, "idle", CASE strategy = "RoundRobin"         -> "index"
                     [] strategy = "WeightedRoundRobin" -> "positive"
                     [] strategy = "Random"             -> "random")
  /\ begun' = begun + 1
  /\ overlapped' = (overlapped \/ Idle # Tasks)
  /\ UNCHANGED <<strategy, currentIndex, weight, inHand, picked>>

\* rand() % servers.size()
Random(t) == /\ Go(t, "random", "idle")
             /\ \E i \in Servers : Return(i)
             /\ UNCHANGED <<strategy, currentIndex, weight, inHand, begun, overlapped>>

\* Mutant of TestPositive: if (weight >= 0)
TestNotNegative(t) ==
  /\ Go(t, "positive", IF weight >= 0 THEN "decrement" ELSE "zero")
  /\ Have(t, weight)
  /\ UNCHANGED <<strategy, currentIndex, weight, picked, begun, overlapped>>

\* if (weight > 0) weight--;
TestPositive(t) == /\ Go(t, "positive", IF weight > 0 THEN "decrement" ELSE "zero")
                   /\ Have(t, weight)
                   /\ UNCHANGED <<strategy, currentIndex, weight, picked, begun, overlapped>>

ReadWeight(t) == /\ Go(t, "decrement", "store")
                 /\ \E w \in {weight, inHand[t]} : Have(t, w - 1)
                 /\ UNCHANGED <<strategy, currentIndex, weight, picked, begun, overlapped>>

StoreWeight(t) == /\ Go(t, "store", "zero")
                  /\ weight' = inHand[t]
                  /\ UNCHANGED <<strategy, currentIndex, inHand, picked, begun, overlapped>>

\* if (weight == 0)
TestZero(t) == /\ \E w \in {weight, inHand[t]} :
                    Go(t, "zero", IF w = 0 THEN "index" ELSE "select")
               /\ Have(t, currentIndex)
               /\ UNCHANGED <<strategy, currentIndex, weight, picked, begun, overlapped>>

\* (currentIndex + 1) % servers.size(), and the assignment
ReadIndex(t) == /\ Go(t, "index", "advance")
                /\ Have(t, (currentIndex + 1) % Cardinality(Servers))
                /\ UNCHANGED <<strategy, currentIndex, weight, picked, begun, overlapped>>

Advance(t) == /\ Go(t, "advance", IF strategy = "RoundRobin" THEN "select" ELSE "reload")
              /\ currentIndex' = inHand[t]
              /\ UNCHANGED <<strategy, weight, inHand, picked, begun, overlapped>>

\* weight = servers[currentIndex].weight;
Reload(t) == /\ Go(t, "reload", "select")
             /\ \E i \in {currentIndex, inHand[t]} : weight' = Weights[i] /\ Have(t, i)
             /\ UNCHANGED <<strategy, currentIndex, picked, begun, overlapped>>

\* return servers[currentIndex];
Select(t) == /\ Go(t, "select", "idle")
             /\ \E i \in {currentIndex, inHand[t]} : Return(i)
             /\ UNCHANGED <<strategy, currentIndex, weight, inHand, begun, overlapped>>

Next == \E t \in Tasks :
          \/ RequestServer(t) \/ Random(t) \/ TestPositive(t) \/ ReadWeight(t)
          \/ StoreWeight(t) \/ TestZero(t) \/ ReadIndex(t) \/ Advance(t)
          \/ Reload(t) \/ Select(t)

Spec == Init /\ [][Next]_balancerVars

\* How many selections in a row return a server when nothing interferes.
Turns(i) == IF strategy = "RoundRobin" THEN 1 ELSE Max({1, Weights[i]})

(***************************************************************************)
(* However the selections interleave, none indexes outside of the list.    *)
(* As long as no two have overlapped, every server has had its whole turn  *)
(* in each round, up to the last returned, p, which may be in the middle   *)
(* of its turn.                                                            *)
(***************************************************************************)
SharesAreKept ==
  /\ DOMAIN picked \subseteq Servers
  /\ ~overlapped /\ strategy # "Random" =>
       \E rounds \in 0..MaxPicks, p \in Servers : \A i \in Servers :
         Times(i) \in
           CASE i < p -> {(rounds + 1) * Turns(i)}
             [] i > p -> {rounds * Turns(i)}
             [] i = p -> (rounds * Turns(i))..((rounds + 1) * Turns(i))
=============================================================================
