------------------------------- MODULE MCPrograms -------------------------------
(***************************************************************************)
(* The smaller programs of the repository for TLC, in one run: `program`   *)
(* says which of them a behaviour is of.  The others stay where they began.*)
(***************************************************************************)
EXTENDS Peers, TLC

CONSTANTS Users, NumSlots, MaxSaid, MaxLines, MaxNews, Callers, RequestChunks, MaxTyped,
          Uploaders, BodyLen, MaxTurns, Threads, MaxLog, Tasks, Weights, MaxPicks,
          Objects, NumDescriptors, MaxCounters, MaxCount

\* The clients, threads and objects are any, the bounds are numbers, and there is at least
\* one service, each with its index and weight.  Nobody is called Nobody or Unlocked.
ASSUME ProgramsAssumption ==
  /\ IsFiniteSet(Users)
  /\ NumSlots \in Nat /\ MaxSaid \in Nat
  /\ MaxLines \in Nat /\ MaxNews \in Nat
  /\ "unlocked" \notin Uploaders /\ BodyLen \in Nat
  /\ MaxTurns \in Nat /\ IsFiniteSet(Threads) /\ MaxLog \in Nat
  /\ "nobody" \notin Callers /\ RequestChunks \in Nat /\ MaxTyped \in Nat
  /\ IsFiniteSet(DOMAIN Weights) /\ DOMAIN Weights # {} /\ MaxPicks \in Nat
  /\ DOMAIN Weights = 0..(Cardinality(DOMAIN Weights) - 1)
  /\ \A i \in DOMAIN Weights : Weights[i] \in Nat
  /\ IsFiniteSet(Objects) /\ NumDescriptors \in Nat
  /\ MaxCounters \in Nat /\ MaxCount \in Nat

\* For TLC: the first service has two turns in a round, the second one, for its weight is 0.
TwoAndOne == [i \in 0..1 |-> 2 - 2 * i]

\* The tuples below say which module each of them belongs to.
VARIABLES
  program, pc, readable, hold, ended, alive, handle, queue, step, session, buffer,
  waitsWith, server, slots, fds, arrived, ready, user, welcome, broken, unread, said,
  listener, typed, line, eof, queued, loop, watching, canRead, wire, news, told, peer,
  doing, running, serving, objects, rxbuf, calls, refused, caller, asked, toServer,
  toCaller, echoes, process, thread, stream, consumed, fileData, written, lock, file,
  saved, left, answered, turn, toRead, turns, noInput, stopped, cut, loggerType, dead,
  instance, made, mine, phase, logged, queue_, flushing, fileName, today, output, lost,
  link, strays, strategy, currentIndex, weight, at, inHand, picked, begun, overlapped,
  object, s_, refCounter, count, nofSockets, opened, shut, careful

Relayed == INSTANCE RelayProps
Proxied == INSTANCE ProxyThread
Uv == INSTANCE UvRelay
Ssl == INSTANCE SslRelay
Slot == INSTANCE SlotServer
Client == INSTANCE ChatClient
Echo == INSTANCE SslEcho
Upload == INSTANCE Upload
Turns == INSTANCE TurnChat
Log == INSTANCE Logger
Balance == INSTANCE Balancer
Ref == INSTANCE SocketRef

relayVars == <<pc, readable, hold, ended>>
uvVars == <<alive, handle, queue>>
sslVars == <<step, session, buffer>>
slotVars == <<waitsWith, server, slots, fds, arrived, ready, user, welcome, broken,
              unread, said>>
clientVars == <<listener, typed, line, eof, queued, loop, watching, canRead, wire, news,
                told, peer>>
echoVars == <<doing, running, serving, objects, rxbuf, calls, refused, caller, asked,
              toServer, toCaller, echoes>>
uploadVars == <<process, thread, stream, consumed, fileData, written, lock, file, saved,
                left, answered>>
turnVars == <<turn, toRead, turns, noInput, stopped, cut>>
logVars == <<loggerType, dead, instance, made, mine, phase, logged, queue_, flushing,
             fileName, today, output, lost, link, strays>>
balancerVars == <<strategy, currentIndex, weight, at, inHand, picked, begun, overlapped>>
socketVars == <<object, s_, refCounter, count, nofSockets, opened, shut, careful>>
vars == <<program, peersVars, relayVars, uvVars, sslVars, slotVars, clientVars, echoVars,
          uploadVars, turnVars, logVars, balancerVars, socketVars>>

Relays == {"passthrough-proxy", "CProxySocket", "libuv-based", "ssl-proxy"}
Programs == Relays \cup {"single-thread", "chat-client", "ssl-client", "file-upload",
                        "turn-based", "logger", "load_balancer", "socket"}

Init == /\ program \in Programs
        /\ Relayed!Init /\ Uv!Init /\ Ssl!Init /\ Slot!Init /\ Client!Init /\ Echo!Init
        /\ Upload!Init /\ Turns!Init /\ Log!Init /\ Balance!Init /\ Ref!Init
        /\ program # "single-thread" => waitsWith = "poll"
        /\ program # "logger" => loggerType = ""
        /\ program # "load_balancer" => strategy = "Random"

\* A step of one of the programs leaves the variables of the others alone.
InPassthrough ==
  /\ program = "passthrough-proxy"
  /\ UNCHANGED <<program, uvVars, sslVars, slotVars, clientVars, echoVars, uploadVars, turnVars, logVars,
                 balancerVars, socketVars>>
InProxySocket ==
  /\ program = "CProxySocket"
  /\ UNCHANGED <<program, uvVars, sslVars, slotVars, clientVars, echoVars, uploadVars, turnVars, logVars,
                 balancerVars, socketVars>>
InLibuv ==
  /\ program = "libuv-based"
  /\ UNCHANGED <<program, relayVars, sslVars, slotVars, clientVars, echoVars, uploadVars, turnVars,
                 logVars, balancerVars, socketVars>>
InSslProxy ==
  /\ program = "ssl-proxy"
  /\ UNCHANGED <<program, relayVars, uvVars, slotVars, clientVars, echoVars, uploadVars, turnVars, logVars,
                 balancerVars, socketVars>>
InSlotServer ==
  /\ program = "single-thread"
  /\ UNCHANGED <<program, peersVars, relayVars, uvVars, sslVars, clientVars, echoVars, uploadVars,
                 turnVars, logVars, balancerVars, socketVars>>
InChatClient ==
  /\ program = "chat-client"
  /\ UNCHANGED <<program, peersVars, relayVars, uvVars, sslVars, slotVars, echoVars, uploadVars, turnVars,
                 logVars, balancerVars, socketVars>>
InSslEcho ==
  /\ program = "ssl-client"
  /\ UNCHANGED <<program, peersVars, relayVars, uvVars, sslVars, slotVars, clientVars, uploadVars,
                 turnVars, logVars, balancerVars, socketVars>>
InUpload ==
  /\ program = "file-upload"
  /\ UNCHANGED <<program, peersVars, relayVars, uvVars, sslVars, slotVars, clientVars, echoVars, turnVars,
                 logVars, balancerVars, socketVars>>
InTurnChat ==
  /\ program = "turn-based"
  /\ UNCHANGED <<program, peersVars, relayVars, uvVars, sslVars, slotVars, clientVars, echoVars,
                 uploadVars, logVars, balancerVars, socketVars>>
InLogger ==
  /\ program = "logger"
  /\ UNCHANGED <<program, peersVars, relayVars, uvVars, sslVars, slotVars, clientVars, echoVars,
                 uploadVars, turnVars, balancerVars, socketVars>>
InBalancer ==
  /\ program = "load_balancer"
  /\ UNCHANGED <<program, peersVars, relayVars, uvVars, sslVars, slotVars, clientVars, echoVars,
                 uploadVars, turnVars, logVars, socketVars>>
InSocket ==
  /\ program = "socket"
  /\ UNCHANGED <<program, peersVars, relayVars, uvVars, sslVars, slotVars, clientVars, echoVars,
                 uploadVars, turnVars, logVars, balancerVars>>

Next == \/ InPassthrough /\ Relayed!Next
        \/ InProxySocket /\ Proxied!TaskNext
        \/ InLibuv /\ Uv!Next
        \/ InSslProxy /\ Ssl!Next
        \/ InSlotServer /\ Slot!Next
        \/ InChatClient /\ Client!Next
        \/ InSslEcho /\ Echo!Next
        \/ InUpload /\ Upload!Next
        \/ InTurnChat /\ Turns!Next
        \/ InLogger /\ Log!Next
        \/ InBalancer /\ Balance!Next
        \/ InSocket /\ Ref!Next

Spec == Init /\ [][Next]_vars

\* The steps that each program takes when it can.  A program with two threads, or
\* two processes, has the second one's steps in RunsToo.
Runs == \/ InPassthrough /\ Relayed!Thread
        \/ InProxySocket /\ Proxied!Task
        \/ InLibuv /\ Uv!Loop
        \/ InSslProxy /\ Ssl!Transfer
        \/ InSlotServer /\ Slot!Server
        \/ InChatClient /\ Client!Loop
        \/ InSslEcho /\ Echo!Serve
        \/ InUpload /\ \E u \in Uploaders : Upload!Handle(u)
        \/ InTurnChat /\ Turns!Receive("client")
        \/ InLogger /\ \E i \in Log!Instances : Log!LogWorker(i)
RunsToo == \/ InChatClient /\ (Client!Lock \/ Client!Insert)
           \/ InTurnChat /\ Turns!Receive("server")

FairSpec == /\ Spec
            /\ WF_vars(Runs)
            /\ WF_vars(RunsToo)
            /\ \A s \in Sides :
                 /\ WF_peersVars(program \in Relays /\ Write(s))
                 /\ WF_peersVars(program \in Relays /\ Reset(s))
            /\ WF_peersVars(program \in Relays \ {"libuv-based"} /\ Read("target"))
            /\ WF_peersVars(program \in {"CProxySocket", "ssl-proxy"} /\ Read("client"))

----------------------------------------------------------------------------
(***************************************************************************)
(* Two relays lose nothing that they have read: upstream, whose socket     *)
(* blocks, the thread of the passthrough proxy (Proxy.cpp:62-71), and in   *)
(* both directions the task of a CProxySocket.                             *)
(***************************************************************************)
NothingIsLost ==
  /\ program = "passthrough-proxy" => Relayed!UpstreamIsWhole
  /\ program = "CProxySocket" => Proxied!NothingIsLost

(***************************************************************************)
(* The others may lose or damage bytes (send() on a socket that does not   *)
(* block, a buffer freed under uv_write(), one byte of every read), but    *)
(* what arrives is in its place and order, whatever fills up and whoever   *)
(* ends first.                                                             *)
(***************************************************************************)
StreamsKeepOrder ==
  /\ program = "passthrough-proxy" => Relayed!DownstreamIsOrdered
  /\ program = "libuv-based" => Uv!PlacesAreKept
  /\ program = "ssl-proxy" => Ssl!HalfDuplex

(***************************************************************************)
(* The slots of the single-threaded servers and the set that they watch    *)
(* agree, and only an abrupt end of a client ends the server.              *)
(***************************************************************************)
TableIsSound == program = "single-thread" => Slot!TableIsSound

(***************************************************************************)
(* Two threads of the chat client share a map with a lock that only one of *)
(* them always takes: the wire still carries what was typed, in order.     *)
(***************************************************************************)
WireIsTyped == program = "chat-client" => Client!WireIsTyped

(***************************************************************************)
(* The TLS server echoes whole and to the right client, but a client that  *)
(* waits for the echo of a line reads that of an earlier chunk; and a      *)
(* client that goes does not take the server with it.                      *)
(***************************************************************************)
EchoesLag == program = "ssl-client" => Echo!EchoesLag

(***************************************************************************)
(* Uploads at the same time, to one fixed file name, do not mix.           *)
(***************************************************************************)
FileIsOneUpload == program = "file-upload" => Upload!FileIsOneUpload

(***************************************************************************)
(* The two ends of the turn-based chat have one turn between them, and     *)
(* "exit" leaves neither of them with a stream that is cut off.            *)
(***************************************************************************)
TurnsAlternate == program = "turn-based" => Turns!TurnsAlternate

(***************************************************************************)
(* A logged line is kept, written or lost exactly once, whatever races in  *)
(* getInstance(), at midnight and with the writer; lines of one thread are *)
(* in order unless the race has made two loggers.                          *)
(***************************************************************************)
LinesAreKept == program = "logger" => Log!LinesAreKept

(***************************************************************************)
(* Selections by several threads stay within the list of services, and     *)
(* every service has its share unless two of them overlap.                 *)
(***************************************************************************)
SharesAreKept == program = "load_balancer" => Balance!SharesAreKept

(***************************************************************************)
(* No order of copies, assignments, closes and destructors deletes a       *)
(* counter in use, and those that respect the counter keep every Socket on *)
(* its own descriptor.                                                     *)
(***************************************************************************)
DescriptorsAreHeld == program = "socket" => Ref!DescriptorsAreHeld

----------------------------------------------------------------------------
(***************************************************************************)
(* What has to happen in the end, P ~> Q for each program, in one formula: *)
(* since a behaviour is of one program, it says the same as all of them.   *)
(***************************************************************************)

HasEnded == \/ program = "passthrough-proxy" /\ Relayed!HasEnded
            \/ program = "CProxySocket" /\ Proxied!HasEnded
            \/ program = "libuv-based" /\ Uv!HasEnded
            \/ program = "ssl-proxy" /\ Ssl!BothHaveEnded
IsEnded == \/ program = "passthrough-proxy" /\ Relayed!IsRelayed
           \/ program = "CProxySocket" /\ Proxied!HasReturned
           \/ program = "libuv-based" /\ Uv!IsClosed
           \/ program = "ssl-proxy" /\ Ssl!IsNext

(***************************************************************************)
(* When its sides have ended, a relay ends: a thread or a task of the pool *)
(* that relays is not held for ever, unless it waits for a peer that waits *)
(* for it.                                                                 *)
(***************************************************************************)
EndsAreRelayed == HasEnded ~> IsEnded

Waits(u) == \/ program = "single-thread" /\ Slot!HasSaid(u)
            \/ program = "ssl-client" /\ u \in Callers /\ Echo!HasGone(u)
            \/ program = "file-upload" /\ u \in Uploaders /\ Upload!HasLeft(u)
IsServed(u) == \/ program = "single-thread" /\ Slot!IsHeard(u)
               \/ program = "ssl-client" /\ serving # u
               \/ program = "file-upload" /\ u \in Uploaders /\ Upload!HasEnded(u)

(***************************************************************************)
(* A client that has something to say is heard, and one that has gone is   *)
(* let go, so that it holds neither the only thread of a server nor one of *)
(* its own.                                                                *)
(***************************************************************************)
EveryoneIsServed == \A u \in Users : Waits(u) ~> IsServed(u)

IsDue(i) == \/ program = "chat-client" /\ Client!IsQueued
            \/ program = "turn-based" /\ Turns!ServerLeft
            \/ program = "logger" /\ Log!HasLines(i)
IsDone(i) == \/ program = "chat-client" /\ Client!IsSent
             \/ program = "turn-based" /\ turn["client"] = "left"
             \/ program = "logger" /\ Log!IsFlushed(i)

(***************************************************************************)
(* What was typed is sent, what was queued for the log is written or lost, *)
(* and the "exit" of the server reaches the client.                        *)
(***************************************************************************)
EverythingIsPassedOn == \A i \in Log!Instances : IsDue(i) ~> IsDone(i)
=============================================================================
