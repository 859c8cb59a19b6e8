------------------------------ MODULE ChatServer ------------------------------
(***************************************************************************)
(* The chat server (chat-server/Server.cpp): a single thread that selects  *)
(* on the listening socket and on the clients' sockets, and relays what a  *)
(* client writes to the client it was paired with.                         *)
(*                                                                         *)
(* One turn of main's loop is a select(), whose result is a snapshot, and  *)
(* processRequest(), which accepts at most one connection and then goes    *)
(* over the slots in order, reading one message from each readable socket  *)
(* and writing one message to each writable one.  Clients send and vanish  *)
(* at any point in between.  CloseSocket only shuts a socket down, so that *)
(* no descriptor is ever reused: a client stands for its descriptor.       *)
(***************************************************************************)
EXTENDS Naturals, Sequences, FiniteSets, FiniteSetsExt

CONSTANTS Clients,      \* connections; each is made once
          NumSlots,     \* num_of_clients, 5
          MaxMessages,  \* bound on the messages that one client sends
          MayVanish,    \* the clients that may go away
          None

ASSUME ChatAssumption == /\ NumSlots \in Nat \ {0}
                         /\ MaxMessages \in Nat
                         /\ MayVanish \subseteq Clients
                         /\ None \notin Clients

VARIABLES
  slot,      \* client_socket_fd_map: None is 0
  partner,   \* client_to_client_map: None where there is no entry
  outgoing,  \* client_messages_queue: per recipient a message, or None
  pc,        \* where the server is: before its loop, in it, or "killed" by a SIGPIPE
             \* or by an exit() on the way to the loop
  i,         \* the slot that processRequest() looks at
  readable,  \* readfds, the clients in it
  writable,  \* writefds
  accepting, \* whether the listening socket is in readfds
  backlog,   \* connections that wait to be accepted
  link,      \* the state of each client's connection
  inbound,   \* what each client has sent and the server has not read
  sent,      \* how many messages each client has sent
  delivered  \* the messages that have reached each client

slotVars == <<slot, partner>>
selectVars == <<readable, writable, accepting>>
clientVars == <<backlog, sent>>
vars == <<slot, partner, outgoing, pc, i, readable, writable, accepting,
          backlog, link, inbound, sent, delivered>>

Slots == 1..NumSlots
Connected == {c \in Clients : \E s \in Slots : slot[s] = c}

\* The n-th message of a client; its "message" 0 is an empty buffer.
Messages == [from : Clients, n : 0..MaxMessages]

(***************************************************************************)
(* A connection is "none" before the client connects, then "open".  When   *)
(* the client's process ends its side is closed ("fin"), or reset ("rst")  *)
(* if it had unread data.  On a socket that is "broken" recv() returns 0   *)
(* and send() raises SIGPIPE: a closed one becomes so by the reset that    *)
(* answers the first send(), a reset one by reporting its error once.      *)
(***************************************************************************)
Links == {"none", "open", "fin", "rst", "broken"}

Init == /\ slot = [s \in Slots |-> None]
        /\ partner = [c \in Clients |-> None]
        /\ outgoing = [c \in Clients |-> None]
        /\ pc = "start"
        /\ i = 1
        /\ readable = {}
        /\ writable = {}
        /\ accepting = FALSE
        /\ backlog = <<>>
        /\ link = [c \in Clients |-> "none"]
        /\ inbound = [c \in Clients |-> <<>>]
        /\ sent = [c \in Clients |-> 0]
        /\ delivered = [c \in Clients |-> <<>>]

----------------------------------------------------------------------------
(***************************************************************************)
(* The clients                                                             *)
(***************************************************************************)
Connect(c) == /\ pc \notin {"start", "killed"}
              /\ link[c] = "none"
              /\ link' = [link EXCEPT ![c] = "open"]
              /\ backlog' = Append(backlog, c)
              /\ UNCHANGED <<slotVars, outgoing, pc, i, selectVars, inbound, sent, delivered>>

Say(c) == /\ link[c] = "open"
          /\ sent[c] < MaxMessages
          /\ sent' = [sent EXCEPT ![c] = @ + 1]
          /\ inbound' = [inbound EXCEPT ![c] = Append(@, [from |-> c, n |-> sent[c] + 1])]
          /\ UNCHANGED <<slotVars, outgoing, pc, i, selectVars, backlog, link, delivered>>

Vanish(c) == /\ c \in MayVanish
             /\ link[c] = "open"
             /\ \E l \in {"fin", "rst"} : link' = [link EXCEPT ![c] = l]
             /\ UNCHANGED <<slotVars, outgoing, pc, i, selectVars, clientVars,
                            inbound, delivered>>

----------------------------------------------------------------------------
(***************************************************************************)
(* The server                                                              *)
(***************************************************************************)
\* main(): a socket that cannot be made, set up, bound or listened on ends it.
Start == /\ pc = "start"
         /\ pc' \in {"select", "killed"}
         /\ UNCHANGED <<slotVars, outgoing, i, selectVars, clientVars, link, inbound, delivered>>

HasInput(c) == inbound[c] # <<>> \/ link[c] # "open"

\* Mutant of Select: writefds is left empty.
SelectReaders ==
  /\ pc = "select"
  /\ readable' = {c \in Connected : HasInput(c)}
  /\ writable' = {}
  /\ accepting' = (backlog # <<>>)
  /\ accepting' \/ readable' # {}
  /\ pc' = "accept"
  /\ UNCHANGED <<slotVars, outgoing, i, clientVars, link, inbound, delivered>>

\* The sets that main builds, and what select() leaves in them.
Select == /\ pc = "select"
          /\ readable' = {c \in Connected : HasInput(c)}
          /\ writable' = {c \in Connected : outgoing[c] # None}
          /\ accepting' = (backlog # <<>>)
          /\ accepting' \/ readable' \cup writable' # {}
          /\ pc' = "accept"
          /\ UNCHANGED <<slotVars, outgoing, i, clientVars, link, inbound, delivered>>

FreeSlots == {s \in Slots : slot[s] = None}
Insert(map, key, value) == IF map[key] = None THEN [map EXCEPT ![key] = value] ELSE map

(***************************************************************************)
(* Client c, new in slot s, is paired with the client in the first other   *)
(* slot.  Entries are inserted and never overwritten, nor erased when a    *)
(* client goes.                                                            *)
(***************************************************************************)
Pair(c, s) ==
  LET others == {j \in Slots \ {s} : slot[j] # None} IN
    partner' = IF others = {} THEN partner
               ELSE LET d == slot[Min(others)] IN Insert(Insert(partner, c, d), d, c)

\* What a send() does to a connection.
AfterSend(c) == [link EXCEPT ![c] = IF @ = "open" THEN "open" ELSE "broken"]

\* A connection for which there is no slot is accepted and forgotten.
Accept == /\ pc = "accept"
          /\ accepting
          /\ backlog' = Tail(backlog)
          /\ LET c == Head(backlog) IN
               \/ /\ FreeSlots = {}
                  /\ UNCHANGED <<slotVars, link>>
               \/ /\ FreeSlots # {}
                  /\ slot' = [slot EXCEPT ![Min(FreeSlots)] = c]
                  /\ Pair(c, Min(FreeSlots))
                  /\ link' = AfterSend(c)
          /\ pc' = "read"
          /\ i' = 1
          /\ UNCHANGED <<outgoing, selectVars, inbound, sent, delivered>>

NoAccept == /\ pc = "accept"
            /\ ~accepting
            /\ pc' = "read"
            /\ i' = 1
            /\ UNCHANGED <<slotVars, outgoing, selectVars, clientVars, link,
                           inbound, delivered>>

\* insert() drops the message when one is queued for that recipient already.
Enqueue(c, m) ==
  outgoing' = IF partner[c] = None THEN outgoing ELSE Insert(outgoing, partner[c], m)

ReadMessage(c) == /\ inbound[c] # <<>>
                  /\ Enqueue(c, Head(inbound[c]))
                  /\ inbound' = [inbound EXCEPT ![c] = Tail(@)]
                  /\ UNCHANGED <<slot, link>>

\* An error other than EAGAIN is taken for an empty message.
ReadError(c) == /\ inbound[c] = <<>>
                /\ link[c] = "rst"
                /\ Enqueue(c, [from |-> c, n |-> 0])
                /\ link' = [link EXCEPT ![c] = "broken"]
                /\ UNCHANGED <<slot, inbound>>

\* Mutant of ReadEnd: the socket is shut down but its slot is kept.
ReadEndKeepsSlot(c) == /\ inbound[c] = <<>>
                       /\ link[c] \in {"fin", "broken"}
                       /\ UNCHANGED <<slot, outgoing, link, inbound>>

\* Mutant of ReadEnd: what the client has queued for its partner goes with it.
ReadEndClearsPartner(c) ==
  /\ inbound[c] = <<>>
  /\ link[c] \in {"fin", "broken"}
  /\ slot' = [s \in Slots |-> IF slot[s] = c THEN None ELSE slot[s]]
  /\ outgoing' = [d \in Clients |-> IF d = partner[c] THEN None ELSE outgoing[d]]
  /\ UNCHANGED <<link, inbound>>

\* closeClientConnection
ReadEnd(c) == /\ inbound[c] = <<>>
              /\ link[c] \in {"fin", "broken"}
              /\ slot' = [s \in Slots |-> IF slot[s] = c THEN None ELSE slot[s]]
              /\ UNCHANGED <<outgoing, link, inbound>>

Read == /\ pc = "read"
        /\ LET c == slot[i] IN
             \/ /\ c \in readable
                /\ ReadMessage(c) \/ ReadError(c) \/ ReadEnd(c)
             \/ /\ c \notin readable
                /\ UNCHANGED <<slot, outgoing, link, inbound>>
        /\ pc' = "write"
        /\ UNCHANGED <<partner, i, selectVars, clientVars, delivered>>

\* Go on with the next slot.
Advance == IF i = NumSlots THEN pc' = "select" /\ i' = 1
                           ELSE pc' = "read" /\ i' = i + 1

\* Mutant of WriteMessage: the message stays queued after it was sent.
WriteKeeps(c) == /\ link[c] # "broken"
                 /\ link' = AfterSend(c)
                 /\ delivered' = IF link[c] = "open"
                                   THEN [delivered EXCEPT ![c] = Append(@, outgoing[c])]
                                   ELSE delivered
                 /\ Advance
                 /\ UNCHANGED outgoing

WriteMessage(c) == /\ link[c] # "broken"
                   /\ outgoing' = [outgoing EXCEPT ![c] = None]
                   /\ link' = AfterSend(c)
                   /\ delivered' = IF link[c] = "open"
                                     THEN [delivered EXCEPT ![c] = Append(@, outgoing[c])]
                                     ELSE delivered
                   /\ Advance

\* SIGPIPE, which the server does not ignore.
WriteKills(c) == /\ link[c] = "broken"
                 /\ pc' = "killed"
                 /\ UNCHANGED <<outgoing, i, link, delivered>>

Write == /\ pc = "write"
         /\ LET c == slot[i] IN
              \/ /\ c \in writable
                 /\ WriteMessage(c) \/ WriteKills(c)
              \/ /\ c \notin writable
                 /\ Advance
                 /\ UNCHANGED <<outgoing, link, delivered>>
         /\ UNCHANGED <<slotVars, selectVars, clientVars, inbound>>

----------------------------------------------------------------------------
Server == Start \/ Select \/ Accept \/ NoAccept \/ Read \/ Write

Next == Server \/ \E c \in Clients : Connect(c) \/ Say(c) \/ Vanish(c)

Spec == Init /\ [][Next]_vars

\* The server runs; the clients do what they like.
FairSpec == Spec /\ WF_vars(Server)
=============================================================================
