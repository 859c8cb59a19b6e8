--------------------------------- MODULE Peers ---------------------------------
(***************************************************************************)
(* The two sides of a relay, "client" and "target", and the kernel's       *)
(* buffers between each of them and the relay.  The relays of this         *)
(* repository (Relay, ProxyThread, UvRelay, SslRelay) extend this module.  *)
(*                                                                         *)
(* The sides are programs with blocking sockets, which do not read while   *)
(* they write.  The bytes of a stream are numbered from 1.                 *)
(***************************************************************************)
EXTENDS Naturals, Sequences, FiniteSetsExt

CONSTANTS MaxBytes,  \* bound: what each side sends at most
          Room       \* bound: what the socket buffers of one direction hold

ASSUME PeersAssumption == MaxBytes \in Nat /\ Room \in Nat \ {0}

VARIABLES
  linked,   \* the sides to which the relay holds a connected socket
  in,       \* sent by each side, not yet read by the relay
  out,      \* sent to each side, not yet read by it
  sent,     \* how many bytes each side has sent
  got,      \* what each side has read
  side,     \* "open", "finished" (it sends no more) or "closed"
  writing,  \* the sides inside a write
  reset     \* the sides that have answered with a reset

ownVars == <<sent, got, side, writing>>    \* what only the sides change
peersVars == <<linked, in, out, ownVars, reset>>

Sides == {"client", "target"}
Other(s) == IF s = "client" THEN "target" ELSE "client"

InitPeers == /\ linked = {"client"}
             /\ in = [s \in Sides |-> <<>>]
             /\ out = [s \in Sides |-> <<>>]
             /\ sent = [s \in Sides |-> 0]
             /\ got = [s \in Sides |-> <<>>]
             /\ side = [s \in Sides |-> "open"]
             /\ writing = {}
             /\ reset = {}

\* What has to arrive of a stream of n bytes.
UpTo(n) == [i \in 1..n |-> i]

StartWrite(s) == /\ s \in linked
                 /\ side[s] = "open"
                 /\ s \notin writing
                 /\ sent[s] < MaxBytes
                 /\ writing' = writing \cup {s}
                 /\ UNCHANGED <<linked, in, out, sent, got, side, reset>>

\* A write waits for room.
Write(s) == /\ s \in linked \cap writing
            /\ Len(in[s]) < Room
            /\ writing' = writing \ {s}
            /\ sent' = [sent EXCEPT ![s] = @ + 1]
            /\ in' = [in EXCEPT ![s] = Append(@, sent'[s])]
            /\ UNCHANGED <<linked, out, got, side, reset>>

\* What has arrived can be read after the relay has closed, too.
Read(s) == /\ s \notin writing \cap linked
           /\ side[s] # "closed"
           /\ out[s] # <<>>
           /\ got' = [got EXCEPT ![s] = Append(@, Head(out[s]))]
           /\ out' = [out EXCEPT ![s] = Tail(@)]
           /\ UNCHANGED <<linked, in, sent, side, writing, reset>>

\* shutdown() of the sending direction, between two writes.
Finish(s) == /\ s \in linked \ writing
             /\ side[s] = "open"
             /\ side' = [side EXCEPT ![s] = "finished"]
             /\ UNCHANGED <<linked, in, out, sent, got, writing, reset>>

\* A side may go away at any time.
CloseSide(s) == /\ s \in linked
                /\ side[s] # "closed"
                /\ side' = [side EXCEPT ![s] = "closed"]
                /\ writing' = writing \ {s}
                /\ UNCHANGED <<linked, in, out, sent, got, reset>>

\* What reaches a side that has closed is answered with a reset.
Reset(s) == /\ s \in linked
            /\ side[s] = "closed"
            /\ out[s] # <<>>
            /\ reset' = reset \cup {s}
            /\ out' = [out EXCEPT ![s] = <<>>]
            /\ UNCHANGED <<linked, in, ownVars>>

Peer(s) == \/ StartWrite(s) \/ Write(s) \/ Read(s) \/ Finish(s) \/ CloseSide(s)
           \/ Reset(s)

\* The sides for which a read by the relay would not wait.
ReadableNow == {s \in linked : in[s] # <<>> \/ side[s] # "open" \/ s \in reset}

\* What a buffer holds after a send() that does not wait.
TakeWhatFits(buffer, bytes) ==
  SubSeq(buffer \o bytes, 1, Min({Room, Len(buffer \o bytes)}))

(***************************************************************************)
(* close() of the sockets ss.  A socket with unread bytes is reset, and    *)
(* what it had still to send may be lost.                                  *)
(***************************************************************************)
CloseSockets(ss) ==
  /\ linked' = linked \ ss
  /\ \E lost \in SUBSET {s \in ss : in[s] # <<>>} :
       out' = [s \in Sides |-> IF s \in lost THEN <<>> ELSE out[s]]

PeersTypeOK ==
  /\ linked \in SUBSET Sides
  /\ \A s \in Sides : /\ Len(in[s]) <= Room /\ Len(out[s]) <= Room
                      /\ sent[s] \in 0..MaxBytes
                      /\ side[s] \in {"open", "finished", "closed"}
  /\ writing \in SUBSET Sides
  /\ reset \in SUBSET Sides

\* A side does what it has begun when it can.
PeerFairness(s) == WF_peersVars(Write(s)) /\ WF_peersVars(Reset(s))
=============================================================================
