-------------------------------- MODULE Lease --------------------------------
(***************************************************************************)
(* What the connection pool promises to its users: whoever asks is given   *)
(* a resource that nobody else has, or is refused; a resource that is      *)
(* given back can be given out again; and it can be handed from one owner  *)
(* to the next.  ConnectionPool.tla is the code, and implements this.      *)
(***************************************************************************)
CONSTANTS Resources,  \* what is leased
          Owners,     \* who can have a resource
          None,       \* "nobody"
          MayRefuse   \* whether one may be refused while a resource is free

VARIABLES owner,      \* who has each resource, or None
          asking      \* the owners-to-be that wait for an answer

leaseVars == <<owner, asking>>

Has(p) == \E r \in Resources : owner[r] = p
Free == {r \in Resources : owner[r] = None}

Init == /\ owner = [r \in Resources |-> None]
        /\ asking = {}

Ask(p) == /\ p \notin asking
          /\ ~Has(p)
          /\ asking' = asking \cup {p}
          /\ UNCHANGED owner

Grant(p, r) == /\ p \in asking
               /\ r \in Free
               /\ owner' = [owner EXCEPT ![r] = p]
               /\ asking' = asking \ {p}

Refuse(p) == /\ p \in asking
             /\ MayRefuse \/ Free = {}
             /\ asking' = asking \ {p}
             /\ UNCHANGED owner

Return(r) == /\ owner[r] # None
             /\ owner' = [owner EXCEPT ![r] = None]
             /\ UNCHANGED asking

\* p, which has nothing, takes over what its previous owner had.
HandOver(p, r) == /\ owner[r] # None
                  /\ ~Has(p)
                  /\ p \notin asking
                  /\ owner' = [owner EXCEPT ![r] = p]
                  /\ UNCHANGED asking

Answer(p) == Refuse(p) \/ \E r \in Resources : Grant(p, r)

Next == \/ \E p \in Owners : Ask(p) \/ Answer(p)
        \/ \E r \in Resources : Return(r) \/ \E p \in Owners : HandOver(p, r)

Spec == Init /\ [][Next]_leaseVars

\* Whoever asks is answered.
FairSpec == Spec /\ \A p \in Owners : WF_leaseVars(Answer(p))
=============================================================================
