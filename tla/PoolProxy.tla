------------------------------- MODULE PoolProxy -------------------------------
(***************************************************************************)
(* The relaying proxy of connection-pool (src/proxy.h, src/proxy.cpp): a   *)
(* listener that accepts clients and creates a thread for each, and the    *)
(* threads, which lease an upstream connection from the pool, relay bytes  *)
(* in both directions until one side ends, and give the connection back.   *)
(*                                                                         *)
(* The pool is the Lease that ConnectionPool is shown to implement.  A     *)
(* thread is told its socket through a context on the listener's stack,    *)
(* which the next connection overwrites.  A thread is named after the      *)
(* client whose accept created it.  Two threads that share a socket also   *)
(* delete it twice, which is not followed here.                            *)
(***************************************************************************)
EXTENDS FiniteSets

CONSTANTS Clients,       \* connections to the proxy; each is made once
          Conns,         \* the pool's connections, 4 in the code
          MayHangUp,     \* the clients that may go away
          Unreliable,    \* the connections on which upstream may be unreachable,
                         \* or close
          None

ASSUME PoolProxyAssumption == /\ None \notin Clients \cup Conns
                              /\ MayHangUp \subseteq Clients
                              /\ Unreliable \subseteq Conns

VARIABLES
  alive,    \* FALSE once an exception or a signal has ended the process
  listening, \* the listening socket has been opened
  context,  \* the listener's proxyClienThreadContext.socket
  thread,   \* where each thread is
  sock,     \* the client whose socket each thread works with, or None
  owner,    \* the pool: the thread that has each connection, or None
  asking,   \* the threads inside get_connection
  link,     \* the state of each client's connection to the proxy
  unread,   \* the clients with a request that nobody has read
  upstream, \* the state of the pooled connections: never connected, or ...
  inFlight, \* the requests that upstream has received on each of them
  answered, \* the answers that wait to be read from each of them
  got       \* <<c, d>>: the answer to c's request was sent to d

clientVars == <<link, unread>>
upstreamVars == <<upstream, inFlight, answered>>
serverVars == <<listening, context>>
vars == <<alive, listening, context, thread, sock, owner, asking, link, unread,
          upstream, inFlight, answered, got>>

Pool == INSTANCE Lease WITH Resources <- Conns, Owners <- Clients, MayRefuse <- FALSE

Init == /\ alive = TRUE
        /\ listening = FALSE
        /\ context = None
        /\ thread = [t \in Clients |-> "none"]
        /\ sock = [t \in Clients |-> None]
        /\ Pool!Init
        /\ link = [c \in Clients |-> "none"]
        /\ unread = {}
        /\ upstream = [r \in Conns |-> "down"]
        /\ inFlight = [r \in Conns |-> {}]
        /\ answered = [r \in Conns |-> {}]
        /\ got = {}

----------------------------------------------------------------------------
(***************************************************************************)
(* Clients and the upstream server                                         *)
(***************************************************************************)

\* A client connects, with its request in its first packet.
Connect(c) == /\ listening
              /\ link[c] = "none"
              /\ link' = [link EXCEPT ![c] = "open"]
              /\ unread' = unread \cup {c}
              /\ UNCHANGED <<alive, serverVars, thread, sock, owner, asking, upstreamVars, got>>

\* Its side is closed, or reset if the client had unread data.
HangUp(c) == /\ c \in MayHangUp
             /\ link[c] = "open"
             /\ \E l \in {"fin", "rst"} : link' = [link EXCEPT ![c] = l]
             /\ UNCHANGED <<alive, serverVars, thread, sock, owner, asking, unread,
                            upstreamVars, got>>

Answer(r) == /\ upstream[r] = "open"
             /\ \E c \in inFlight[r] :
                  /\ inFlight' = [inFlight EXCEPT ![r] = @ \ {c}]
                  /\ answered' = [answered EXCEPT ![r] = @ \cup {c}]
             /\ UNCHANGED <<alive, serverVars, thread, sock, owner, asking, clientVars,
                            upstream, got>>

UpstreamCloses(r) == /\ r \in Unreliable
                     /\ upstream[r] = "open"
                     /\ upstream' = [upstream EXCEPT ![r] = "closed"]
                     /\ UNCHANGED <<alive, serverVars, thread, sock, owner, asking,
                                    clientVars, inFlight, answered, got>>

----------------------------------------------------------------------------
(***************************************************************************)
(* The listener                                                            *)
(***************************************************************************)

\* socket(), bind() and listen(), or what the constructor throws.
Start == /\ alive /\ ~listening
         /\ \/ listening' = TRUE /\ UNCHANGED alive
            \/ alive' = FALSE /\ UNCHANGED listening
         /\ UNCHANGED <<context, thread, sock, owner, asking, clientVars, upstreamVars, got>>

\* accept() fails, with a client at hand: an exception that nobody catches.
AcceptThrows(c) == /\ alive /\ link[c] # "none" /\ thread[c] = "none"
                   /\ alive' = FALSE
                   /\ UNCHANGED <<serverVars, thread, sock, owner, asking, clientVars,
                                  upstreamVars, got>>

\* accept(), fill the context, pthread_create.
Accept(c) == /\ alive
             /\ link[c] # "none"
             /\ thread[c] = "none"
             /\ context' = c
             /\ thread' = [thread EXCEPT ![c] = "created"]
             /\ UNCHANGED <<alive, listening, sock, owner, asking, clientVars, upstreamVars, got>>

----------------------------------------------------------------------------
(***************************************************************************)
(* The threads                                                             *)
(***************************************************************************)

\* RunProxyClientThreadHelper, up to the call of get_connection.
ReadContext(t) == /\ alive
                  /\ thread[t] = "created"
                  /\ thread' = [thread EXCEPT ![t] = "asking"]
                  /\ sock' = [sock EXCEPT ![t] = context]
                  /\ Pool!Ask(t)
                  /\ UNCHANGED <<alive, serverVars, clientVars, upstreamVars, got>>

\* Mutant of Reconnect: a connection that reports to be healthy is kept.
KeepIfUp(r) ==
  \/ /\ upstream[r] = "open"
     /\ UNCHANGED upstreamVars
  \/ /\ upstream[r] # "open"
     /\ upstream' = [upstream EXCEPT ![r] = "open"]
     /\ inFlight' = [inFlight EXCEPT ![r] = {}]
     /\ answered' = [answered EXCEPT ![r] = {}]

(***************************************************************************)
(* is_healthy() is always false, so that get_connection always reconnects: *)
(* a new socket, on which connect() may throw, which check_connect ignores.*)
(***************************************************************************)
Reconnect(r) ==
  /\ \E u \in {"open"} \cup (IF r \in Unreliable THEN {"down"} ELSE {}) :
       upstream' = [upstream EXCEPT ![r] = u]
  /\ inFlight' = [inFlight EXCEPT ![r] = {}]
  /\ answered' = [answered EXCEPT ![r] = {}]

GetConnection(t) == /\ alive
                    /\ \E r \in Conns : Pool!Grant(t, r) /\ Reconnect(r)
                    /\ thread' = [thread EXCEPT ![t] = "relaying"]
                    /\ UNCHANGED <<alive, serverVars, sock, clientVars, got>>

\* The proxy is not valid: an exception that nobody catches.
NoConnection(t) == /\ alive
                   /\ Pool!Refuse(t)
                   /\ alive' = FALSE
                   /\ UNCHANGED <<serverVars, thread, sock, clientVars, upstreamVars, got>>

ClientReadable(c) == c \in unread \/ link[c] # "open"
TargetReadable(r) == answered[r] # {} \/ upstream[r] # "open"

(***************************************************************************)
(* A send() that raises SIGPIPE: to an upstream socket that was never      *)
(* connected, or to a client whose reset recv() has just reported.         *)
(***************************************************************************)
SendKills(c, r) ==
  \/ upstream[r] = "down" /\ ClientReadable(c)
  \/ link[c] = "rst" /\ c \notin unread /\ TargetReadable(r)

\* A read of no bytes, because there are none, ends the relaying.
Ends(c, r) == \/ c \notin unread /\ link[c] # "open"
              \/ answered[r] = {} /\ upstream[r] # "open"

\* Mutant of Turn: only the client's side is watched for its end.
TurnIgnoresUpstream(t, r) ==
  LET c == sock[t] IN
    /\ inFlight' = [inFlight EXCEPT ![r] =
                      IF upstream[r] = "open" THEN @ \cup (unread \cap {c}) ELSE @]
    /\ answered' = [answered EXCEPT ![r] = {}]
    /\ got' = got \cup (answered[r] \X {c})
    /\ unread' = unread \ {c}
    /\ thread' = IF c \notin unread /\ link[c] # "open"
                   THEN [thread EXCEPT ![t] = "leaving"] ELSE thread
    /\ UNCHANGED alive

\* Mutant of Turn: what upstream has sent is read and thrown away.
TurnDropsAnswers(t, r) ==
  LET c == sock[t] IN
    /\ inFlight' = [inFlight EXCEPT ![r] =
                      IF upstream[r] = "open" THEN @ \cup (unread \cap {c}) ELSE @]
    /\ answered' = [answered EXCEPT ![r] = {}]
    /\ unread' = unread \ {c}
    /\ thread' = IF Ends(c, r) THEN [thread EXCEPT ![t] = "leaving"] ELSE thread
    /\ UNCHANGED <<alive, got>>

(***************************************************************************)
(* One turn of the loop after a select(): from client to target, then from *)
(* target to client, whichever is readable.                                *)
(***************************************************************************)
Turn(t, r) ==
  LET c == sock[t] IN
    /\ inFlight' = [inFlight EXCEPT ![r] =
                      IF upstream[r] = "open" THEN @ \cup (unread \cap {c}) ELSE @]
    /\ answered' = [answered EXCEPT ![r] = {}]
    /\ got' = got \cup (answered[r] \X {c})
    /\ unread' = unread \ {c}
    /\ thread' = IF Ends(c, r) THEN [thread EXCEPT ![t] = "leaving"] ELSE thread
    /\ UNCHANGED alive

Relay(t) ==
  /\ alive
  /\ thread[t] = "relaying"
  /\ \E r \in Conns :
       /\ owner[r] = t
       /\ ClientReadable(sock[t]) \/ TargetReadable(r)
       /\ \/ ~SendKills(sock[t], r) /\ Turn(t, r)
          \/ /\ SendKills(sock[t], r)
             /\ alive' = FALSE
             /\ UNCHANGED <<thread, unread, inFlight, answered, got>>
  /\ UNCHANGED <<serverVars, sock, owner, asking, link, upstream>>

\* Mutant of Leave: the connection is not given back.
LeaveWithConnection(t) ==
  /\ alive
  /\ thread[t] = "leaving"
  /\ thread' = [thread EXCEPT ![t] = "done"]
  /\ UNCHANGED <<alive, serverVars, sock, owner, asking, clientVars, upstreamVars, got>>

\* Close and delete the client's socket; return, which destroys the proxy
\* object and so releases the connection.
Leave(t) == /\ alive
            /\ thread[t] = "leaving"
            /\ thread' = [thread EXCEPT ![t] = "done"]
            /\ \E r \in Conns : owner[r] = t /\ Pool!Return(r)
            /\ UNCHANGED <<alive, serverVars, sock, clientVars, upstreamVars, got>>

----------------------------------------------------------------------------
Thread(t) == \/ ReadContext(t) \/ GetConnection(t) \/ NoConnection(t)
             \/ Relay(t) \/ Leave(t)

Next == \/ Start
        \/ \E c \in Clients : Connect(c) \/ HangUp(c)
        \/ \E r \in Conns : Answer(r) \/ UpstreamCloses(r)
        \/ \E c \in Clients : Accept(c) \/ AcceptThrows(c) \/ Thread(c)

Spec == Init /\ [][Next]_vars

\* The process runs and upstream answers; clients do what they like.
Fairness == /\ \A c \in Clients : WF_vars(Accept(c)) /\ WF_vars(Thread(c))
            /\ \A r \in Conns : WF_vars(Answer(r))

FairSpec == Spec /\ Fairness
=============================================================================
