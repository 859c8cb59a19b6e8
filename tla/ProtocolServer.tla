---------------------------- MODULE ProtocolServer ----------------------------
(***************************************************************************)
(* The protocol server: listener threads that accept connections and push  *)
(* a task for each to the shared thread pool (engine/socket/               *)
(* CServerSocket.cpp), and workers that run the pipeline on a connection   *)
(* (pipeline/CProtocolPipeline.cpp).                                       *)
(*                                                                         *)
(* A task captures the listener's CLIENT_DATA by reference: the loop       *)
(* variable of ListenThreadProc, one stack slot per listener, which the    *)
(* next connection overwrites.  File descriptors are numbers that the      *)
(* operating system reuses, and a Socket object goes on naming its number  *)
(* after a close.  The pool is the atomic queue that ThreadPool is shown   *)
(* to implement.                                                           *)
(***************************************************************************)
EXTENDS Naturals, Sequences, FiniteSets, FiniteSetsExt

CONSTANTS Listeners,   \* the CServerSockets (ports 8080 and 8081)
          Clients,     \* connections; each is made once
          Workers,     \* the threads of ThreadPoolSingleton::pool
          Spawners,    \* clients whose request makes the handler push a task
          PollLimit,   \* unsuccessful polls after which the pipeline gives up: 100
          Background,  \* the task that a handler pushes
          None

ASSUME ServerAssumption ==
  /\ IsFiniteSet(Clients)
  /\ Spawners \subseteq Clients
  /\ PollLimit \in Nat \ {0}
  /\ Background \notin Listeners
  /\ None \notin Clients \cup Listeners \cup {Background}

VARIABLES
  up,        \* the process runs
  opened,    \* the listeners that main() has started
  backlog,   \* per listener, the connections that wait to be accepted
  listening, \* per listener thread, whether it is in accept() or in usleep()
  slot,      \* per listener, clientData: the fd stored last, and whose it was
  fds,       \* the table of open descriptors: whose connection each is
  queue,     \* the pool's queue: the listener of each task, or Background
  job,       \* the task each worker executes, or None
  at,        \* where each worker is in the task
  sock,      \* the worker's copy of clientData
  request,   \* whose bytes are in the request each worker has read
  retry,     \* unsuccessful polls so far
  linked,    \* clients that have connected
  unsent,    \* clients that have not sent their request
  inbox,     \* connections with a request that nobody has read
  hungUp,    \* connections that the client has closed
  accepted,  \* connections that have had a descriptor
  ended,     \* connections whose descriptor the server has closed
  replies    \* <<c, d>>: an answer to c's request was sent on d's connection

clientVars == <<linked, unsent, hungUp>>
workVars == <<sock, request, retry>>
serverVars == <<up, opened>>
vars == <<serverVars, backlog, listening, slot, fds, queue, job, at, sock, request, retry,
          linked, unsent, inbox, hungUp, accepted, ended, replies>>

Fds == 1..Cardinality(Clients)
NoSocket == [fd |-> 0, conn |-> None]

Pool == INSTANCE WorkQueue WITH Items <- Listeners \cup {Background},
                                pending <- queue, holding <- job

Init == /\ up = TRUE
        /\ opened = {}
        /\ backlog = [l \in Listeners |-> <<>>]
        /\ listening = [l \in Listeners |-> TRUE]
        /\ slot = [l \in Listeners |-> NoSocket]
        /\ fds = [f \in Fds |-> None]
        /\ Pool!Init
        /\ at = [w \in Workers |-> "idle"]
        /\ sock = [w \in Workers |-> NoSocket]
        /\ request = [w \in Workers |-> {}]
        /\ retry = [w \in Workers |-> 0]
        /\ linked = {}
        /\ unsent = Clients
        /\ inbox = {}
        /\ hungUp = {}
        /\ accepted = {}
        /\ ended = {}
        /\ replies = {}

----------------------------------------------------------------------------
(***************************************************************************)
(* The clients and the network                                             *)
(***************************************************************************)
Connect(c, l) == /\ up /\ l \in opened
                 /\ c \notin linked
                 /\ linked' = linked \cup {c}
                 /\ backlog' = [backlog EXCEPT ![l] = Append(@, c)]
                 /\ UNCHANGED <<serverVars, listening, slot, fds, queue, job, at, workVars,
                                unsent, inbox, hungUp, accepted, ended, replies>>

SendRequest(c) == /\ up
                  /\ c \in linked \cap unsent
                  /\ c \notin hungUp
                  /\ unsent' = unsent \ {c}
                  /\ inbox' = IF c \in ended THEN inbox ELSE inbox \cup {c}
                  /\ UNCHANGED <<serverVars, backlog, listening, slot, fds, queue, job, at, workVars,
                                 linked, hungUp, accepted, ended, replies>>

HangUp(c) == /\ up
             /\ c \in linked \ hungUp
             /\ hungUp' = hungUp \cup {c}
             /\ UNCHANGED <<serverVars, backlog, listening, slot, fds, queue, job, at, workVars,
                            linked, unsent, inbox, accepted, ended, replies>>

----------------------------------------------------------------------------
(***************************************************************************)
(* The listener threads                                                    *)
(***************************************************************************)

\* bind() and listen(), or what they throw, which main() does not catch.
Open(l) == /\ up /\ l \notin opened
           /\ \/ opened' = opened \cup {l} /\ UNCHANGED up
              \/ up' = FALSE /\ UNCHANGED opened
           /\ UNCHANGED <<backlog, listening, slot, fds, queue, job, at, workVars, clientVars,
                          inbox, accepted, ended, replies>>

\* accept() fails, with a connection at hand; the exception is not caught, either.
AcceptThrows(l) == /\ up /\ listening[l] /\ backlog[l] # <<>>
                   /\ up' = FALSE
                   /\ UNCHANGED <<opened, backlog, listening, slot, fds, queue, job, at, workVars,
                                  clientVars, inbox, accepted, ended, replies>>

\* The lowest free descriptor is reused.
FreeFd == Min({f \in Fds : fds[f] = None})

\* Accept, fill clientData, push the task that refers to it, go to sleep.
Accept(l) == /\ up /\ listening[l]
             /\ backlog[l] # <<>>
             /\ LET c == Head(backlog[l]) IN
                  /\ fds' = [fds EXCEPT ![FreeFd] = c]
                  /\ slot' = [slot EXCEPT ![l] = [fd |-> FreeFd, conn |-> c]]
                  /\ accepted' = accepted \cup {c}
             /\ backlog' = [backlog EXCEPT ![l] = Tail(@)]
             /\ queue' = Append(queue, l)
             /\ listening' = [listening EXCEPT ![l] = FALSE]
             /\ UNCHANGED <<serverVars, job, at, workVars, clientVars, inbox, ended, replies>>

\* Mutant of SleepElapsed: the listener does not sleep.
SleepSkipped(l) ==
  /\ up /\ ~listening[l]
  /\ listening' = [listening EXCEPT ![l] = TRUE]
  /\ UNCHANGED <<serverVars, backlog, slot, fds, queue, job, at, workVars, clientVars,
                 inbox, accepted, ended, replies>>

(***************************************************************************)
(* usleep(3000).  Three milliseconds are plenty for a worker that is free  *)
(* to take the task and copy clientData, so the sleep does not end before; *)
(* but a task may well wait longer when every worker is busy.              *)
(***************************************************************************)
SleepElapsed(l) ==
  /\ up /\ ~listening[l]
  /\ \A w \in Workers : at[w] # "taken"
  /\ queue = <<>> \/ \A w \in Workers : at[w] # "idle"
  /\ listening' = [listening EXCEPT ![l] = TRUE]
  /\ UNCHANGED <<serverVars, backlog, slot, fds, queue, job, at, workVars, clientVars,
                 inbox, accepted, ended, replies>>

----------------------------------------------------------------------------
(***************************************************************************)
(* The workers                                                             *)
(***************************************************************************)
Take(w) == /\ up /\ Pool!Take(w)
           /\ at' = [at EXCEPT ![w] = "taken"]
           /\ UNCHANGED <<serverVars, backlog, listening, slot, fds, workVars, clientVars,
                          inbox, accepted, ended, replies>>

\* ClientThreadProc copies whatever the slot holds by now.
CopyClientData(w) ==
  /\ at[w] = "taken"
  /\ job[w] \in Listeners
  /\ sock' = [sock EXCEPT ![w] = slot[job[w]]]
  /\ at' = [at EXCEPT ![w] = "polling"]
  /\ UNCHANGED <<serverVars, backlog, listening, slot, fds, queue, job, request, retry,
                 clientVars, inbox, accepted, ended, replies>>

\* The connection behind the descriptor that the worker's Socket names.
Peer(w) == fds[sock[w].fd]

(***************************************************************************)
(* One turn of the pipeline's loop.  select() on a descriptor that is not  *)
(* open fails, SocketSelect swallows the error with the set unchanged, and *)
(* the descriptor counts as readable, with nothing to read.                *)
(***************************************************************************)
PollData(w) == /\ at[w] = "polling"
               /\ Peer(w) \in inbox
               /\ request' = [request EXCEPT ![w] = @ \cup {Peer(w)}]
               /\ inbox' = inbox \ {Peer(w)}
               /\ UNCHANGED <<serverVars, backlog, listening, slot, fds, queue, job, at, sock, retry,
                              clientVars, accepted, ended, replies>>

PollEnd(w) == /\ at[w] = "polling"
              /\ Peer(w) \notin inbox
              /\ Peer(w) = None \/ Peer(w) \in hungUp
              /\ at' = [at EXCEPT ![w] = "responding"]
              /\ UNCHANGED <<serverVars, backlog, listening, slot, fds, queue, job, workVars,
                             clientVars, inbox, accepted, ended, replies>>

\* Nothing yet; retry is never reset, not even by data.
PollNothing(w) == /\ at[w] = "polling"
                  /\ Peer(w) \notin inbox \cup hungUp \cup {None}
                  /\ retry' = [retry EXCEPT ![w] = @ + 1]
                  /\ at' = IF retry[w] + 1 = PollLimit
                             THEN [at EXCEPT ![w] = "responding"]
                             ELSE at
                  /\ UNCHANGED <<serverVars, backlog, listening, slot, fds, queue, job, sock, request,
                                 clientVars, inbox, accepted, ended, replies>>

\* Mutant of Respond: a request is only handled if the polls did not run out.
RespondUnlessLate(w) ==
  /\ at[w] = "responding"
  /\ LET handled == IF retry[w] = PollLimit THEN {} ELSE request[w] IN
       /\ queue' = IF handled \cap Spawners = {} THEN queue
                   ELSE Append(queue, Background)
       /\ replies' = replies \cup (handled \X ({Peer(w)} \ {None}))
  /\ at' = [at EXCEPT ![w] = "closing"]
  /\ UNCHANGED <<serverVars, backlog, listening, slot, fds, job, workVars,
                 clientVars, inbox, accepted, ended>>

\* HandleData, which may push a task, and SendBytes, unless nothing was read.
Respond(w) == /\ at[w] = "responding"
              /\ queue' = IF request[w] \cap Spawners = {} THEN queue
                          ELSE Append(queue, Background)
              /\ replies' = replies \cup (request[w] \X ({Peer(w)} \ {None}))
              /\ at' = [at EXCEPT ![w] = "closing"]
              /\ UNCHANGED <<serverVars, backlog, listening, slot, fds, job, workVars,
                             clientVars, inbox, accepted, ended>>

\* Mutant of CloseSocket: the descriptor is closed twice, the second time
\* when the number may be somebody else's.
CloseTwice(w) ==
  /\ at[w] = "closing"
  /\ fds' = [fds EXCEPT ![sock[w].fd] = None]
  /\ ended' = ended \cup ({Peer(w)} \ {None})
  /\ inbox' = inbox \ {Peer(w)}
  /\ \/ /\ Peer(w) = None
        /\ Pool!Finish(w)
        /\ at' = [at EXCEPT ![w] = "idle"]
        /\ sock' = [sock EXCEPT ![w] = NoSocket]
        /\ request' = [request EXCEPT ![w] = {}]
        /\ retry' = [retry EXCEPT ![w] = 0]
     \/ /\ Peer(w) # None
        /\ UNCHANGED <<queue, job, at, workVars>>
  /\ UNCHANGED <<serverVars, backlog, listening, slot, clientVars, accepted, replies>>

\* Mutant of CloseSocket: the buffer outlives the connection.
CloseKeepsRequest(w) ==
  /\ at[w] = "closing"
  /\ fds' = [fds EXCEPT ![sock[w].fd] = None]
  /\ ended' = ended \cup ({Peer(w)} \ {None})
  /\ inbox' = inbox \ {Peer(w)}
  /\ Pool!Finish(w)
  /\ at' = [at EXCEPT ![w] = "idle"]
  /\ sock' = [sock EXCEPT ![w] = NoSocket]
  /\ retry' = [retry EXCEPT ![w] = 0]
  /\ UNCHANGED <<serverVars, backlog, listening, slot, request, clientVars, accepted, replies>>

\* send() to a client that has reset its connection raises SIGPIPE.
SendKills(w) == /\ at[w] = "responding" /\ request[w] # {} /\ Peer(w) \in hungUp
                /\ up' = FALSE
                /\ UNCHANGED <<opened, backlog, listening, slot, fds, queue, job, at, workVars,
                               clientVars, inbox, accepted, ended, replies>>

\* client_socket->Close(): whatever has that number now is closed.
CloseSocket(w) == /\ at[w] = "closing"
                  /\ fds' = [fds EXCEPT ![sock[w].fd] = None]
                  /\ ended' = ended \cup ({Peer(w)} \ {None})
                  /\ inbox' = inbox \ {Peer(w)}
                  /\ Pool!Finish(w)
                  /\ at' = [at EXCEPT ![w] = "idle"]
                  /\ sock' = [sock EXCEPT ![w] = NoSocket]
                  /\ request' = [request EXCEPT ![w] = {}]
                  /\ retry' = [retry EXCEPT ![w] = 0]
                  /\ UNCHANGED <<serverVars, backlog, listening, slot, clientVars, accepted, replies>>

\* A handler's task, such as the SDK call that sleeps ten seconds, is done.
FinishBackground(w) ==
  /\ at[w] = "taken"
  /\ job[w] = Background
  /\ Pool!Finish(w)
  /\ at' = [at EXCEPT ![w] = "idle"]
  /\ UNCHANGED <<serverVars, backlog, listening, slot, fds, workVars, clientVars, inbox,
                 accepted, ended, replies>>

----------------------------------------------------------------------------
Work(w) == /\ up
           /\ \/ CopyClientData(w) \/ FinishBackground(w)
              \/ PollData(w) \/ PollEnd(w) \/ PollNothing(w)
              \/ Respond(w) \/ SendKills(w) \/ CloseSocket(w)

Next == \/ \E c \in Clients : \/ \E l \in Listeners : Connect(c, l)
                              \/ SendRequest(c)
                              \/ HangUp(c)
        \/ \E l \in Listeners : Open(l) \/ Accept(l) \/ AcceptThrows(l) \/ SleepElapsed(l)
        \/ \E w \in Workers : Take(w) \/ Work(w)

Spec == Init /\ [][Next]_vars

(***************************************************************************)
(* Threads run, sleeps end, and the pool hands out tasks (WorkQueue's      *)
(* fairness).  Clients do what they like.                                  *)
(***************************************************************************)
Fairness == /\ \A l \in Listeners : WF_vars(Accept(l)) /\ WF_vars(SleepElapsed(l))
            /\ WF_vars(\E w \in Workers : Take(w))
            /\ \A w \in Workers : WF_vars(Work(w))

FairSpec == Spec /\ Fairness
=============================================================================
