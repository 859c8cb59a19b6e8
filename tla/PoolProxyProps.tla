---------------------------- MODULE PoolProxyProps ----------------------------
(***************************************************************************)
(* What the proxy guarantees on top of its pool of connections.            *)
(***************************************************************************)
EXTENDS PoolProxy

TypeOK ==
  /\ alive \in BOOLEAN /\ listening \in BOOLEAN
  /\ context \in Clients \cup {None}
  /\ thread \in [Clients -> {"none", "created", "asking", "relaying", "leaving", "done"}]
  /\ sock \in [Clients -> Clients \cup {None}]
  /\ \A t \in Clients : sock[t] = None <=> thread[t] \in {"none", "created"}
  /\ owner \in [Conns -> Clients \cup {None}]
  /\ asking \in SUBSET Clients
  /\ link \in [Clients -> {"none", "open", "fin", "rst"}]
  /\ unread \in SUBSET Clients
  /\ upstream \in [Conns -> {"down", "open", "closed"}]
  /\ inFlight \in [Conns -> SUBSET Clients]
  /\ answered \in [Conns -> SUBSET Clients]
  /\ got \in SUBSET (Clients \X Clients)

(***************************************************************************)
(* Some thread read its context after the next accept() had overwritten    *)
(* it: nothing makes the listener wait (proxy.h:62-65).  Two threads then  *)
(* work with one socket, and a client is never served.                     *)
(***************************************************************************)
Misled == \E t \in Clients : sock[t] \notin {t, None}

(***************************************************************************)
(* A thread that relays has a connection, and a connection that is leased  *)
(* has a thread that will give it back: leases and threads match, so that  *)
(* the relay never runs on a connection of somebody else's.                *)
(***************************************************************************)
LeasesMatchThreads ==
  /\ TypeOK
  /\ \A t \in Clients :
       Cardinality({r \in Conns : owner[r] = t}) =
         IF thread[t] \in {"relaying", "leaving"} THEN 1 ELSE 0

(***************************************************************************)
(* Nobody gets the answer to another client's request, although the        *)
(* connections on which the answers come are used by one client after the  *)
(* other: what a client left unread must be gone.                          *)
(***************************************************************************)
NoCrossTalk == \A g \in got : g[1] = g[2]

(***************************************************************************)
(* A request of a client whose thread has started is answered, unless a    *)
(* side closes, a thread is misled or the process ends.                    *)
(***************************************************************************)
RequestsAreAnswered ==
  \A c \in Clients, r \in Conns :
    thread[c] = "relaying" /\ owner[r] = c /\ c \in unread
      ~> \/ <<c, c>> \in got
         \/ ~alive \/ Misled \/ link[c] # "open" \/ upstream[r] # "open"

(***************************************************************************)
(* A leased connection comes back once either side has closed, as long as  *)
(* the process lives, misled threads or not.                               *)
(***************************************************************************)
ConnectionsComeBack ==
  \A t \in Clients, r \in Conns :
    owner[r] = t /\ (upstream[r] # "open" \/ link[sock[t]] # "open")
      ~> owner[r] # t \/ ~alive
=============================================================================
