------------------------------- MODULE SlotServer -------------------------------
(***************************************************************************)
(* The servers of src/multiple-client-single-thread, which differ in the   *)
(* call they wait with, "select" or "poll", and their client: it waits for *)
(* the welcome, then sends what is typed until it leaves.                  *)
(*                                                                         *)
(* Nothing frees a slot: the end of a client is printed in every turn, and *)
(* an error of recv() ends the server, since error() calls exit().         *)
(* Descriptors are the listener's, 0 here, and those after it in the order *)
(* of the connections, as none is ever closed.                             *)
(***************************************************************************)
EXTENDS Naturals, Sequences, FiniteSetsExt

CONSTANTS Users,    \* the clients
          NumSlots, \* num_of_clients, MAX_CONNECTIONS
          MaxSaid   \* bound: what a client says

VARIABLES
  waitsWith,  \* "select" or "poll"
  server,     \* "starting", "waiting", "serving", "exited", or "undefined"
  slots,      \* client_socket_fd_map, fds: in each slot a descriptor, or Free
  fds,        \* the connections that were accepted: descriptor f is fds[f]
  arrived,    \* the connections that were not
  ready,      \* the descriptors that select() or poll() has reported
  user,       \* "new", "waiting" for the welcome, "talking" or "gone"
  welcome,    \* the users whose welcome has come and was not read
  broken,     \* the users whose kernel has answered with a reset
  unread,     \* what each has said and the server has not read
  said        \* how much each has said

userVars == <<user, said>>
tableVars == <<slots, fds, arrived>>
slotVars == <<waitsWith, server, tableVars, ready, welcome, broken, unread, userVars>>

Slots == 1..NumSlots
Free == 0       \* 0, or -1 for poll
Invalid == Cardinality(Users) + 1  \* -1, stored by select's server
Listener == 0

Init == /\ waitsWith \in {"select", "poll"}
        /\ server = "starting"
        /\ slots = [s \in Slots |-> Free]
        /\ fds = <<>> /\ arrived = <<>>
        /\ ready = {}
        /\ user = [u \in Users |-> "new"]
        /\ welcome = {} /\ broken = {}
        /\ unread = [u \in Users |-> 0]
        /\ said = [u \in Users |-> 0]

----------------------------------------------------------------------------
(* The clients *)

Connect(u) == /\ server \in {"waiting", "serving"}
              /\ user[u] = "new"
              /\ user' = [user EXCEPT ![u] = "waiting"]
              /\ arrived' = Append(arrived, u)
              /\ UNCHANGED <<waitsWith, server, slots, fds, ready, welcome, broken, unread, said>>

ReadWelcome(u) == /\ user[u] = "waiting" /\ u \in welcome
                  /\ user' = [user EXCEPT ![u] = "talking"]
                  /\ welcome' = welcome \ {u}
                  /\ UNCHANGED <<waitsWith, server, tableVars, ready, broken, unread, said>>

Say(u) == /\ user[u] = "talking"
          /\ said[u] < MaxSaid
          /\ said' = [said EXCEPT ![u] = @ + 1]
          /\ unread' = [unread EXCEPT ![u] = @ + 1]
          /\ UNCHANGED <<waitsWith, server, tableVars, ready, welcome, broken, user>>

\* "exit", or its end.
Leave(u) == /\ user[u] \in {"waiting", "talking"}
            /\ user' = [user EXCEPT ![u] = "gone"]
            /\ UNCHANGED <<waitsWith, server, tableVars, ready, welcome, broken, unread, said>>

\* A connection that is closed before the welcome is read is reset.
Break(u) == /\ user[u] = "gone" /\ u \in welcome
            /\ broken' = broken \cup {u}
            /\ welcome' = welcome \ {u}
            /\ UNCHANGED <<waitsWith, server, tableVars, ready, unread, userVars>>

----------------------------------------------------------------------------
(* The server *)

\* socket(), setsockopt(), bind() and listen(), each of which may fail.
Start == /\ server = "starting"
         /\ server' \in {"waiting", "exited"}
         /\ UNCHANGED <<waitsWith, tableVars, ready, welcome, broken, unread, userVars>>

Slotted == {f \in DOMAIN fds : \E s \in Slots : slots[s] = f}

\* Mutant of Watched: the server's own descriptor is not counted.
WatchedTooFew == {f \in Slotted : waitsWith = "select" => f < NumSlots}

\* select() looks at the descriptors below its first argument.
Watched == {f \in Slotted : waitsWith = "select" => f < Listener + NumSlots + 1}

Readable(f) == unread[fds[f]] > 0 \/ user[fds[f]] = "gone" \/ fds[f] \in broken

\* FD_SET(-1) writes outside the set.
Wait == /\ server = "waiting"
        /\ \/ /\ \E s \in Slots : slots[s] = Invalid
              /\ server' = "undefined"
              /\ UNCHANGED ready
           \/ /\ \A s \in Slots : slots[s] # Invalid
              /\ ready' = {f \in Watched : Readable(f)}
                            \cup (IF arrived # <<>> THEN {Listener} ELSE {})
              /\ ready' # {}
              /\ server' = "serving"
        /\ UNCHANGED <<waitsWith, tableVars, welcome, broken, unread, userVars>>

\* The first free slot, if any.
Enter(f) == LET free == {s \in Slots : slots[s] = Free}
            IN slots' = IF free = {} THEN slots ELSE [slots EXCEPT ![Min(free)] = f]

\* accept(); a client without a slot is not welcomed, and hears nothing.
Accept == /\ Listener \in ready
          /\ \/ /\ fds' = Append(fds, Head(arrived))
                /\ arrived' = Tail(arrived)
                /\ Enter(Len(fds'))
                /\ welcome' = IF slots' = slots THEN welcome ELSE welcome \cup {Head(arrived)}
             \/ /\ IF waitsWith = "select" THEN Enter(Invalid) ELSE UNCHANGED slots
                /\ UNCHANGED <<fds, arrived, welcome>>

\* recv() from each of them: what was said, nothing at the end, or an error.
ReadEach ==
  LET readers == {fds[f] : f \in ready \ {Listener}}
  IN IF \E u \in readers \cap broken : unread[u] = 0
     THEN server' = "exited" /\ UNCHANGED unread
     ELSE /\ server' = "waiting"
          /\ unread' \in {n \in [Users -> 0..MaxSaid] :
                            \A u \in Users : IF u \in readers /\ unread[u] > 0
                                             THEN n[u] < unread[u] ELSE n[u] = unread[u]}

ProcessRequest == /\ server = "serving"
                  /\ Accept \/ (Listener \notin ready /\ UNCHANGED <<tableVars, welcome>>)
                  /\ ReadEach
                  /\ ready' = {}
                  /\ UNCHANGED <<waitsWith, broken, userVars>>

Server == Wait \/ ProcessRequest

Next == \/ Start \/ Server
        \/ \E u \in Users : Connect(u) \/ ReadWelcome(u) \/ Say(u) \/ Leave(u) \/ Break(u)

Spec == Init /\ [][Next]_slotVars

FairSpec == Spec /\ WF_slotVars(Server)

----------------------------------------------------------------------------
TypeOK == /\ server \in {"starting", "waiting", "serving", "exited", "undefined"}
          /\ slots \in [Slots -> 0..Invalid]
          /\ {fds[f] : f \in DOMAIN fds} \subseteq Users
          /\ ready \subseteq 0..Len(fds)
          /\ unread \in [Users -> 0..MaxSaid]

(***************************************************************************)
(* Whoever has a slot is within what select() watches, has it alone, and   *)
(* only a full table leaves a connection without one; and the server goes  *)
(* on unless a client went away before it had read its welcome, or         *)
(* accept() has failed: clients that leave in order do it no harm.         *)
(***************************************************************************)
TableIsSound ==
  /\ TypeOK
  /\ \A s, t \in Slots : slots[s] = slots[t] /\ slots[s] \notin {Free, Invalid} => s = t
  /\ \A f \in DOMAIN fds : f \notin Slotted => \A s \in Slots : slots[s] # Free
  /\ Slotted = Watched
  /\ server = "exited" => fds = <<>> \/ broken # {}

(***************************************************************************)
(* What a client with a slot says is read, as long as the server runs.     *)
(***************************************************************************)
HasSaid(u) == (\E f \in Slotted : fds[f] = u) /\ unread[u] > 0
IsHeard(u) == unread[u] = 0 \/ server \in {"exited", "undefined"}
SlottedAreHeard == \A u \in Users : HasSaid(u) ~> IsHeard(u)
=============================================================================
