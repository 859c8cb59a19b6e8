------------------------- MODULE ProtocolServerProps -------------------------
(***************************************************************************)
(* What the protocol server should guarantee.  Every property but the type *)
(* invariant depends on a task copying clientData before the listener      *)
(* overwrites it, hence on there being a free worker for every task.       *)
(***************************************************************************)
EXTENDS ProtocolServer

Sockets == [fd : Fds \cup {0}, conn : Clients \cup {None}]

TypeOK ==
  /\ up \in BOOLEAN /\ opened \subseteq Listeners
  /\ backlog \in [Listeners -> Seq(Clients)]
  /\ listening \in [Listeners -> BOOLEAN]
  /\ slot \in [Listeners -> Sockets]
  /\ fds \in [Fds -> Clients \cup {None}]
  /\ queue \in Seq(Listeners \cup {Background})
  /\ job \in [Workers -> Listeners \cup {Background, None}]
  /\ at \in [Workers -> {"idle", "taken", "polling", "responding", "closing"}]
  /\ sock \in [Workers -> Sockets]
  /\ request \in [Workers -> SUBSET Clients]
  /\ retry \in [Workers -> 0..PollLimit]
  /\ {linked, unsent, inbox, hungUp, accepted, ended} \subseteq SUBSET Clients
  /\ replies \in SUBSET (Clients \X Clients)

Serving == {w \in Workers : at[w] \in {"polling", "responding", "closing"}}

(***************************************************************************)
(* A worker's descriptor is still that of the connection it is serving:    *)
(* nobody has closed it, and it has not been given to another connection.  *)
(***************************************************************************)
OwnDescriptor == \A w \in Serving : Peer(w) = sock[w].conn

(***************************************************************************)
(* No two workers serve one connection, sharing out its bytes between them *)
(* and each closing it.                                                    *)
(***************************************************************************)
SoleServer == \A v, w \in Serving : sock[v].conn = sock[w].conn => v = w

(***************************************************************************)
(* A connection is served by one worker, on a descriptor that is its own   *)
(* for as long as the worker uses it.                                      *)
(***************************************************************************)
ServedAlone == TypeOK /\ OwnDescriptor /\ SoleServer

(***************************************************************************)
(* Every answer goes to the client whose request it answers: a worker      *)
(* "handles incoming and outgoing messages to the socket"                  *)
(* (CServerSocket.cpp:128-129).                                            *)
(***************************************************************************)
AnswersGoHome == \A r \in replies : r[1] = r[2]

(***************************************************************************)
(* A connection that was accepted is eventually closed by the server, with *)
(* or without an answer: the listener "accepts new connections and starts  *)
(* a new client thread" for each (CServerSocket.cpp:65-66).  Nothing but   *)
(* the end of the process prevents it.                                     *)
(***************************************************************************)
EveryConnectionEnds == \A c \in Clients : c \in accepted ~> c \in ended \/ ~up

(***************************************************************************)
(* A client that has sent its request before the connection was accepted,  *)
(* gets an answer, unless the process ends: the poll limit only hits       *)
(* clients that are slow to send.                                          *)
(***************************************************************************)
PromptClientsAreAnswered ==
  \A c \in Clients :
    c \in linked /\ c \notin unsent /\ c \notin accepted
      ~> <<c, c>> \in replies \/ ~up
=============================================================================
