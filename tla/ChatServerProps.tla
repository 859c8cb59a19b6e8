---------------------------- MODULE ChatServerProps ----------------------------
(***************************************************************************)
(* What the chat server guarantees, and what it only says it does.         *)
(***************************************************************************)
EXTENDS ChatServer

TypeOK ==
  /\ slot \in [Slots -> Clients \cup {None}]
  /\ partner \in [Clients -> Clients \cup {None}]
  /\ outgoing \in [Clients -> Messages \cup {None}]
  /\ pc \in {"start", "select", "accept", "read", "write", "killed"}
  /\ i \in Slots
  /\ readable \in SUBSET Clients
  /\ writable \in SUBSET Clients
  /\ accepting \in BOOLEAN
  /\ backlog \in Seq(Clients)
  /\ link \in [Clients -> Links]
  /\ inbound \in [Clients -> Seq(Messages)]
  /\ sent \in [Clients -> 0..MaxMessages]
  /\ delivered \in [Clients -> Seq(Messages)]

(***************************************************************************)
(* The snapshot in writefds is never stale: when the server comes to write *)
(* to a client, the message that made select() watch its socket is still   *)
(* there, so that the look-up with operator[] (Server.cpp:300) finds it    *)
(* and does not make up an empty one.                                      *)
(***************************************************************************)
WritableHasMessage ==
  pc \in {"read", "write"} =>
    \A s \in Slots : s >= i /\ slot[s] \in writable => outgoing[slot[s]] # None

(***************************************************************************)
(* Relayed messages may be dropped, but they come in the order in which    *)
(* they were sent, and none comes twice.                                   *)
(***************************************************************************)
InOrderOnce ==
  \A c \in Clients : \A j, k \in 1..Len(delivered[c]) :
    /\ j < k
    /\ delivered[c][j].from = delivered[c][k].from
    /\ delivered[c][k].n # 0
    => delivered[c][j].n < delivered[c][k].n

(***************************************************************************)
(* A client sits in one slot, and is paired as soon as two are connected:  *)
(* "we will connect the second client that connects to the server to the   *)
(* first client" (Server.cpp:255).  Nothing says that the two are paired    *)
(* with each other once a slot has been reused.                            *)
(***************************************************************************)
EveryoneIsPaired ==
  /\ \A s, t \in Slots : slot[s] = slot[t] /\ slot[s] # None => s = t
  /\ Cardinality(Connected) > 1 => \A c \in Connected : partner[c] # None

(***************************************************************************)
(* The three maps of the server agree with each other and with what        *)
(* select() was asked to watch, through every turn of the loop.            *)
(***************************************************************************)
MapsAgree == TypeOK /\ WritableHasMessage /\ EveryoneIsPaired

(***************************************************************************)
(* A client that has gone loses its slot in the end, so that slots do not  *)
(* leak, unless the server has been killed.                                *)
(***************************************************************************)
GoneClientsAreRemoved ==
  \A c \in Clients :
    c \in Connected /\ link[c] # "open" ~> c \notin Connected \/ pc = "killed"

(***************************************************************************)
(* A queued message is written in the end, unless its recipient goes.      *)
(***************************************************************************)
QueuedIsWritten ==
  \A c \in Clients :
    c \in Connected /\ outgoing[c] # None
      ~> outgoing[c] = None \/ link[c] # "open" \/ pc = "killed"

(***************************************************************************)
(* What is read for a partner is queued: "We need a data structure to      *)
(* queue the messages to be written" (Server.cpp:144).                     *)
(***************************************************************************)
ReadIsQueued ==
  [][\A c \in Clients :
       inbound'[c] # inbound[c] /\ pc = "read" /\ pc' = "write" /\ partner[c] # None
         => outgoing'[partner[c]] = Head(inbound[c])]_vars
=============================================================================
