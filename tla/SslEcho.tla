-------------------------------- MODULE SslEcho --------------------------------
(***************************************************************************)
(* The echo server and client over TLS (src/ssl-client/Client.cpp).  The   *)
(* server has one client at a time and reads and echoes chunks of up to    *)
(* 128 bytes.  The client sends a request of several chunks, then lines of *)
(* one chunk each, and reads one chunk after each of these.                *)
(***************************************************************************)
EXTENDS Integers, Sequences

CONSTANTS Callers,        \* the clients
          RequestChunks,  \* how many reads the request takes
          MaxTyped        \* bound: the lines a client types

VARIABLES
  doing,    \* the server: "accepting", "shaking", "reading", "echoing",
            \* "leaving" the client, or "ended"
  running,  \* server_running
  serving,  \* the client of client_skt, or Nobody
  objects,  \* SSL_new() less SSL_free()
  rxbuf,    \* the chunk that was read last
  calls,    \* connections not yet accepted
  refused,  \* the callers whose handshake has failed
  caller,   \* "new", "dialled", "shaken", "awaiting", "typing" or "gone"
  asked,    \* the chunks that each caller has sent,
  toServer, \* those of them that were not read,
  toCaller, \* the echoes that were not read,
  echoes    \* and those that were

serverVars == <<doing, running, serving, objects, rxbuf>>
echoVars == <<serverVars, calls, refused, caller, asked, toServer, toCaller, echoes>>

Nobody == "nobody"
Kill == 0     \* "kill\n"; the other chunks of a caller are numbered from 1

Init == /\ doing = "accepting" /\ running = TRUE
        /\ serving = Nobody /\ objects = 0 /\ rxbuf = Kill
        /\ calls = <<>> /\ refused = {}
        /\ caller = [c \in Callers |-> "new"]
        /\ asked = [c \in Callers |-> <<>>]
        /\ toServer = [c \in Callers |-> <<>>]
        /\ toCaller = [c \in Callers |-> <<>>]
        /\ echoes = [c \in Callers |-> <<>>]

----------------------------------------------------------------------------
(* A client *)

Dial(c) == /\ caller[c] = "new" /\ doing # "ended"
           /\ caller' = [caller EXCEPT ![c] = "dialled"]
           /\ calls' = Append(calls, c)
           /\ UNCHANGED <<serverVars, refused, asked, toServer, toCaller, echoes>>

\* SSL_write() of some chunks, which are lost if the server has gone.
SslWrite(c, chunks) ==
  /\ caller' = [caller EXCEPT ![c] = "awaiting"]
  /\ asked' = [asked EXCEPT ![c] = @ \o chunks]
  /\ toServer' = [toServer EXCEPT ![c] = IF serving = c THEN @ \o chunks ELSE @]
  /\ UNCHANGED <<serverVars, calls, refused, toCaller, echoes>>

SendRequest(c) == /\ caller[c] = "shaken"
                  /\ SslWrite(c, [i \in 1..RequestChunks |-> i])

SendLine(c) == /\ caller[c] = "typing"
               /\ Len(asked[c]) < RequestChunks + MaxTyped
               /\ \E chunk \in {Kill, Len(asked[c]) + 1} : SslWrite(c, <<chunk>>)

\* "Wait for the echo": one SSL_read().
AwaitEcho(c) == /\ caller[c] = "awaiting"
                /\ \/ /\ toCaller[c] # <<>>
                      /\ echoes' = [echoes EXCEPT ![c] = Append(@, Head(toCaller[c]))]
                      /\ toCaller' = [toCaller EXCEPT ![c] = Tail(@)]
                      /\ caller' = [caller EXCEPT ![c] = "typing"]
                   \/ /\ toCaller[c] = <<>> /\ serving # c
                      /\ caller' = [caller EXCEPT ![c] = "gone"]
                      /\ UNCHANGED <<echoes, toCaller>>
                /\ UNCHANGED <<serverVars, calls, refused, asked, toServer>>

HangUp(c) == /\ caller[c] \notin {"new", "gone"}
             /\ caller' = [caller EXCEPT ![c] = "gone"]
             /\ UNCHANGED <<serverVars, calls, refused, asked, toServer, toCaller, echoes>>

----------------------------------------------------------------------------
(* The server *)

AcceptCall == /\ doing = "accepting" /\ calls # <<>>
              /\ serving' = Head(calls)
              /\ calls' = Tail(calls)
              /\ objects' = objects + 1
              /\ doing' = "shaking"
              /\ UNCHANGED <<running, rxbuf, refused, caller, asked, toServer, toCaller, echoes>>

\* SSL_accept(), whose failure ends the server.
SslAccept == /\ doing = "shaking"
             /\ \/ /\ caller[serving] = "dialled"
                   /\ caller' = [caller EXCEPT ![serving] = "shaken"]
                   /\ doing' = "reading"
                   /\ UNCHANGED <<running, refused>>
                \/ /\ caller' = [caller EXCEPT ![serving] = "gone"]
                   /\ refused' = refused \cup {serving}
                   /\ running' = FALSE
                   /\ doing' = "leaving"
             /\ UNCHANGED <<serving, objects, rxbuf, calls, asked, toServer, toCaller, echoes>>

\* Mutant of SslRead: the break at the end of the stream is missing.
SslReadGoesOn ==
  /\ doing = "reading"
  /\ \/ /\ caller[serving] = "gone"
        /\ doing' = "echoing"
        /\ UNCHANGED <<running, rxbuf, toServer>>
     \/ /\ toServer[serving] # <<>>
        /\ rxbuf' = Head(toServer[serving])
        /\ toServer' = [toServer EXCEPT ![serving] = Tail(@)]
        /\ running' = (rxbuf' # Kill)
        /\ doing' = IF running' THEN "echoing" ELSE "leaving"
  /\ UNCHANGED <<serving, objects, calls, refused, caller, asked, toCaller, echoes>>

SslRead == /\ doing = "reading"
           /\ \/ /\ caller[serving] = "gone"   \* what it had sent may be lost
                 /\ doing' = "leaving"
                 /\ UNCHANGED <<running, rxbuf, toServer>>
              \/ /\ toServer[serving] # <<>>
                 /\ rxbuf' = Head(toServer[serving])
                 /\ toServer' = [toServer EXCEPT ![serving] = Tail(@)]
                 /\ running' = (rxbuf' # Kill)
                 /\ doing' = IF running' THEN "echoing" ELSE "leaving"
           /\ UNCHANGED <<serving, objects, calls, refused, caller, asked, toCaller, echoes>>

\* Mutant of Echo: SIGPIPE is not ignored.
EchoKills == /\ doing = "echoing"
             /\ doing' = IF caller[serving] = "gone" THEN "ended" ELSE "reading"
             /\ toCaller' = [toCaller EXCEPT ![serving] = Append(@, rxbuf)]
             /\ UNCHANGED <<running, serving, objects, rxbuf, calls, refused, caller, asked,
                            toServer, echoes>>

\* An SSL_write() that fails is only noted; the next SSL_read() will fail, too.
Echo == /\ doing = "echoing"
        /\ doing' = "reading"
        /\ toCaller' = [toCaller EXCEPT ![serving] =
                          IF caller[serving] = "gone" THEN @ ELSE Append(@, rxbuf)]
        /\ UNCHANGED <<running, serving, objects, rxbuf, calls, refused, caller, asked,
                       toServer, echoes>>

\* The cleanup for the next client, or the one at the exit label.
CleanUp == /\ doing = "leaving"
           /\ objects' = objects - 1
           /\ serving' = Nobody
           /\ doing' = IF running THEN "accepting" ELSE "ended"
           /\ UNCHANGED <<running, rxbuf, calls, refused, caller, asked, toServer, toCaller, echoes>>

Serve == AcceptCall \/ SslAccept \/ SslRead \/ Echo \/ CleanUp

Next == \/ Serve
        \/ \E c \in Callers : \/ Dial(c) \/ SendRequest(c) \/ SendLine(c)
                              \/ AwaitEcho(c) \/ HangUp(c)

Spec == Init /\ [][Next]_echoVars

FairSpec == Spec /\ WF_echoVars(Serve)

----------------------------------------------------------------------------
TypeOK == /\ doing \in {"accepting", "shaking", "reading", "echoing", "leaving", "ended"}
          /\ objects = (IF serving = Nobody THEN 0 ELSE 1)
          /\ serving = Nobody <=> doing \in {"accepting", "ended"}
          /\ \A c \in Callers : Len(asked[c]) <= RequestChunks + MaxTyped

(***************************************************************************)
(* The chunks of a client are echoed whole, in order and to itself.  But   *)
(* what it reads after a line is not the echo of that line ("Wait for the  *)
(* echo", Client.cpp:423): it stays behind by the rest of its request.     *)
(* The server ends because it was told to or because of a handshake, not   *)
(* because a client has gone ("ignore SIGPIPE so that server can continue  *)
(* running when client pipe closes abruptly", Client.cpp:252).             *)
(***************************************************************************)
EchoesLag ==
  /\ TypeOK
  /\ \A c \in Callers :
       LET held == IF serving = c /\ doing = "echoing" THEN <<rxbuf>> ELSE <<>>
       IN /\ serving = c /\ running /\ caller[c] # "gone"
               => echoes[c] \o toCaller[c] \o held \o toServer[c] = asked[c]
          /\ echoes[c] = SubSeq(asked[c], 1, Len(echoes[c]))
          /\ caller[c] = "typing" => Len(echoes[c]) = Len(asked[c]) - (RequestChunks - 1)
  /\ doing = "ended" => rxbuf = Kill \/ refused # {}

(***************************************************************************)
(* A client that has gone does not hold the server.                        *)
(***************************************************************************)
HasGone(c) == serving = c /\ caller[c] = "gone"
ServerIsLeft == \A c \in Callers : HasGone(c) ~> serving # c
=============================================================================
