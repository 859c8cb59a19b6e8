-------------------------------- MODULE SslRelay -------------------------------
(***************************************************************************)
(* The SSL proxy (src/ssl-proxy/Proxy.cpp), which serves one connection at *)
(* a time: everything from the client until it ends, then everything from  *)
(* the target.  "bytes = SSL_read(...) > 0" is 1 or 0, so that of every    *)
(* read one byte is passed on.  Sockets block.                             *)
(***************************************************************************)
EXTENDS Peers

VARIABLES
  step,     \* where main() is; "done" is the next accept()
  session,  \* the sides with which the handshake has succeeded
  buffer    \* buffer[0..bytes-1]

sslVars == <<step, session, buffer>>
vars == <<sslVars, peersVars>>

Init == /\ InitPeers
        /\ step = "accepting"
        /\ session = {}
        /\ buffer = <<>>

\* handle_error()
HandleError == /\ step' = "killed"
               /\ linked' = {}
               /\ UNCHANGED <<session, buffer, in, out, ownVars, reset>>

(***************************************************************************)
(* SSL_accept() and SSL_connect(), of whose result only "< 0" is an error; *)
(* 0 is a handshake that did not take place, as with a context made by     *)
(* SSLv23_client_method() that should accept.                              *)
(***************************************************************************)
Handshake(s, next) ==
  \/ HandleError
  \/ /\ step' = next
     /\ session' \in {session, session \cup {s}}
     /\ linked' = linked \cup {s}
     /\ UNCHANGED <<buffer, in, out, ownVars, reset>>

Accept == step = "accepting" /\ Handshake("client", "connecting")
Connect == step = "connecting" /\ Handshake("target", "from client")

\* SSL_read() from s: a record, of which the first byte is kept, or an end.
SslRead(s, write, next) ==
  \/ /\ s \in session
     /\ in[s] # <<>>
     /\ \E n \in 1..Len(in[s]) : in' = [in EXCEPT ![s] = SubSeq(@, n + 1, Len(@))]
     /\ buffer' = <<Head(in[s])>>
     /\ step' = write
     /\ UNCHANGED <<session, linked, out, ownVars, reset>>
  \/ /\ s \notin session \/ (in[s] = <<>> /\ s \in ReadableNow)
     /\ step' = next
     /\ UNCHANGED <<session, buffer, peersVars>>

\* SSL_write() of the buffer to s.
SslWrite(s, next) ==
  \/ s \in reset \cup (Sides \ session) /\ HandleError
  \/ /\ s \in session \ reset
     /\ Len(out[s]) < Room
     /\ out' = [out EXCEPT ![s] = @ \o buffer]
     /\ buffer' = <<>>
     /\ step' = next
     /\ UNCHANGED <<session, linked, in, ownVars, reset>>

FromClient == step = "from client" /\ SslRead("client", "to target", "from target")
ToTarget == step = "to target" /\ SslWrite("target", "from client")
FromTarget == step = "from target" /\ SslRead("target", "to client", "closing")
ToClient == step = "to client" /\ SslWrite("client", "from target")

\* SSL_shutdown(), SSL_free() and close() of both.
CloseBoth == /\ step = "closing"
             /\ step' = "done"
             /\ CloseSockets(Sides)
             /\ UNCHANGED <<session, buffer, in, ownVars, reset>>

Transfer == FromClient \/ ToTarget \/ FromTarget \/ ToClient \/ CloseBoth

Next == \/ Accept \/ Connect \/ Transfer
        \/ \E s \in Sides : Peer(s) /\ UNCHANGED sslVars

Spec == Init /\ [][Next]_vars

\* A handshake needs the other side, which may be silent for ever.
FairSpec == /\ Spec
            /\ WF_vars(Transfer)
            /\ \A s \in Sides : PeerFairness(s) /\ WF_peersVars(Read(s))

----------------------------------------------------------------------------
SslTypeOK ==
  /\ PeersTypeOK
  /\ step \in {"accepting", "connecting", "from client", "to target", "from target",
               "to client", "closing", "done", "killed"}
  /\ session \in SUBSET Sides
  /\ step \in {"to target", "to client"} => buffer # <<>>

(***************************************************************************)
(* Bytes that get through are in order and come once; and the client, from *)
(* which the proxy reads to the end, has nothing of the answer before it   *)
(* has ended its own stream: the two cannot converse.                      *)
(***************************************************************************)
HalfDuplex ==
  /\ SslTypeOK
  /\ \A s \in Sides :
       LET held == IF step = (IF s = "target" THEN "to target" ELSE "to client")
                   THEN buffer ELSE <<>>
           way == got[s] \o out[s] \o held \o in[Other(s)]
       IN \A i \in 1..(Len(way) - 1) : way[i] < way[i + 1]
  /\ got["client"] \o out["client"] # <<>> => side["client"] # "open"

\* When both sides have ended, the next client's turn comes.
BothHaveEnded == \A s \in Sides : side[s] # "open"
IsNext == step \in {"done", "killed"}
NextClientServed == BothHaveEnded ~> IsNext
=============================================================================
