-------------------------------- MODULE UvRelay --------------------------------
(***************************************************************************)
(* The libuv proxy (src/libuv-based/Server.cpp), for one client/target     *)
(* pair of its event loop.  Pairs share nothing but the process.           *)
(*                                                                         *)
(* uv_write() writes at once if the stream is connected and has nothing    *)
(* queued, and else queues the buffer, which on_read() frees when          *)
(* uv_write() returns: what is written later is read from freed memory.    *)
(* uv_tcp_connect() keeps the address of a request on the stack of         *)
(* on_new_connection().                                                    *)
(***************************************************************************)
EXTENDS Peers

VARIABLES
  alive,   \* the process
  handle,  \* of each side: "none", "connecting", "open", "broken" or "closed"
  queue    \* to be written to each side later; the memory has been freed

uvVars == <<alive, handle, queue>>
vars == <<uvVars, peersVars>>

Garbage == 0

Init == /\ InitPeers
        /\ alive = TRUE
        /\ handle = [s \in Sides |-> "none"]
        /\ queue = [s \in Sides |-> <<>>]

Dies == /\ alive' = FALSE
        /\ linked' = {}
        /\ UNCHANGED <<handle, queue, in, out, ownVars, reset>>

(***************************************************************************)
(* A client has come.  Without an address of the host, a string is thrown, *)
(* which nobody catches.                                                   *)
(***************************************************************************)
OnNewConnection ==
  /\ alive /\ handle["client"] = "none"
  /\ \/ Dies
     \/ /\ \/ /\ handle' = [handle EXCEPT !["client"] = "open", !["target"] = "connecting"]
              /\ UNCHANGED linked
           \/ /\ handle' = [s \in Sides |-> "closed"]
              /\ linked' = {}
        /\ UNCHANGED <<alive, queue, in, out, ownVars, reset>>

\* The loop completes uv_tcp_connect() by looking at the request.
ConnectDone ==
  /\ alive /\ handle["target"] = "connecting"
  /\ \/ Dies
     \/ /\ \/ /\ handle' = [handle EXCEPT !["target"] = "open"]
              /\ linked' = Sides
           \/ /\ handle' = [handle EXCEPT !["target"] = "broken"]
              /\ queue' = [queue EXCEPT !["target"] = <<>>]
              /\ UNCHANGED linked
        /\ handle'["target"] = "open" => UNCHANGED queue
        /\ UNCHANGED <<alive, in, out, ownVars, reset>>

\* A write to s fails, or raises SIGPIPE, which nobody handles.
Unwritable(s) == handle[s] = "broken" \/ s \in reset

\* Mutant of UvWrite: the buffer is freed before the call.
FreeThenWrite(s, bytes) ==
  LET freed == [i \in DOMAIN bytes |-> Garbage]
  IN /\ ~Unwritable(s)
     /\ out' = [out EXCEPT ![s] = TakeWhatFits(@, freed)]
     /\ UNCHANGED queue

UvWrite(s, bytes) ==
  \/ Unwritable(s) /\ UNCHANGED <<out, queue>>
  \/ /\ ~Unwritable(s)
     /\ handle[s] = "connecting" \/ queue[s] # <<>>
     /\ queue' = [queue EXCEPT ![s] = @ \o bytes]
     /\ UNCHANGED out
  \/ /\ ~Unwritable(s)
     /\ handle[s] = "open" /\ queue[s] = <<>>
     /\ out' = [out EXCEPT ![s] = TakeWhatFits(@, bytes)]
     /\ queue' = [queue EXCEPT ![s] =
                    SubSeq(bytes, Len(out'[s]) - Len(out[s]) + 1, Len(bytes))]

\* on_read() of the stream of s, with nread > 0.
OnData(s) ==
  /\ alive /\ handle[s] = "open"
  /\ in[s] # <<>>
  /\ \/ Unwritable(Other(s)) /\ Dies
     \/ /\ UvWrite(Other(s), in[s])
        /\ in' = [in EXCEPT ![s] = <<>>]
        /\ UNCHANGED <<alive, handle, linked, ownVars, reset>>

(***************************************************************************)
(* on_read() of the stream of s, with an end or an error: both handles are *)
(* closed, and their queued writes cancelled.                              *)
(***************************************************************************)
OnEnd(s) ==
  /\ alive
  /\ handle[s] = "broken" \/ (handle[s] = "open" /\ s \in ReadableNow /\ in[s] = <<>>)
  /\ \/ handle["target"] = "connecting" /\ Dies
     \/ /\ handle' = [t \in Sides |-> "closed"]
        /\ queue' = [t \in Sides |-> <<>>]
        /\ CloseSockets(Sides)
        /\ UNCHANGED <<alive, in, ownVars, reset>>

\* There is room for a byte that was queued, or there is nobody to read it.
Flush(s) ==
  /\ alive /\ handle[s] = "open" /\ queue[s] # <<>>
  /\ \/ Unwritable(s) /\ Dies
     \/ /\ Unwritable(s)
        /\ queue' = [queue EXCEPT ![s] = <<>>]
        /\ UNCHANGED <<alive, handle, linked, in, out, ownVars, reset>>
     \/ /\ ~Unwritable(s)
        /\ Len(out[s]) < Room
        /\ \E b \in {Head(queue[s]), Garbage} : out' = [out EXCEPT ![s] = Append(@, b)]
        /\ queue' = [queue EXCEPT ![s] = Tail(@)]
        /\ UNCHANGED <<alive, handle, linked, in, ownVars, reset>>

Loop == \/ OnNewConnection \/ ConnectDone
        \/ \E s \in Sides : OnData(s) \/ OnEnd(s) \/ Flush(s)

Next == Loop \/ \E s \in Sides : Peer(s) /\ UNCHANGED uvVars

Spec == Init /\ [][Next]_vars

\* uv_run() goes on for ever, whether the sides read or not.
FairSpec == /\ Spec
            /\ WF_vars(Loop)
            /\ \A s \in Sides : PeerFairness(s)

----------------------------------------------------------------------------
UvTypeOK ==
  /\ PeersTypeOK
  /\ \A s \in Sides : handle[s] \in {"none", "connecting", "open", "broken", "closed"}
  /\ \A s \in Sides : queue[s] # <<>> => handle[s] \in {"connecting", "open"}

Closed == \A s \in Sides : handle[s] = "closed"

(***************************************************************************)
(* While a pair is open, every byte keeps its place in the stream, written *)
(* at once or queued, although what was queued may be damaged; and a       *)
(* stream that never needed the queue arrives as it was sent.              *)
(***************************************************************************)
PlacesAreKept ==
  /\ UvTypeOK
  /\ \A s \in Sides :
    LET way == got[s] \o out[s] \o queue[s] \o in[Other(s)]
    IN /\ alive /\ ~Closed /\ side[s] # "closed" /\ handle[s] # "broken"
            => /\ Len(way) = sent[Other(s)]
               /\ \A i \in DOMAIN way : way[i] \in {i, Garbage}
       /\ s = "client" /\ sent["target"] <= Room
            => \A i \in DOMAIN way : way[i] # Garbage

\* When either side has ended, both handles are closed: libuv waits for no
\* reader, so that nothing can be in the way.
HasEnded == \E s \in linked : side[s] # "open"
IsClosed == Closed \/ ~alive
PairIsClosed == HasEnded ~> IsClosed
=============================================================================
