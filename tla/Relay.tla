--------------------------------- MODULE Relay ---------------------------------
(***************************************************************************)
(* One relaying thread of the passthrough proxy (src/passthrough-proxy):   *)
(* it connects to the target, then copies what either side sends to the    *)
(* other side until one of them has ended.                                 *)
(*                                                                         *)
(* The two sockets differ: Accept makes the client's non-blocking, and     *)
(* the target's blocks.  send() on the first takes what fits, which        *)
(* SendBytes does not look at; on the second it waits for room.            *)
(***************************************************************************)
EXTENDS Peers

VARIABLES
  pc,       \* where the thread is; "killed" is the end of the whole process
  readable, \* what select() reported
  hold,     \* read from the client, in the send() to the target
  ended     \* ~still_connected

threadVars == <<pc, readable, hold, ended>>
vars == <<threadVars, peersVars>>

Init == /\ InitPeers
        /\ pc = "connecting"
        /\ readable = {}
        /\ hold = <<>>
        /\ ended = FALSE

----------------------------------------------------------------------------
\* The target is reached, or the constructor throws, which nobody catches.
ConnectTarget == /\ pc = "connecting"
                 /\ \/ pc' = "selecting" /\ linked' = Sides
                    \/ pc' = "killed" /\ linked' = {}
                 /\ UNCHANGED <<readable, hold, ended, in, out, ownVars, reset>>

\* select() with a timeout of a microsecond; a turn that finds nothing
\* changes nothing.
Select == /\ pc = "selecting"
          /\ ReadableNow # {}
          /\ readable' = ReadableNow
          /\ ended' = FALSE
          /\ pc' = "upstream"
          /\ UNCHANGED <<hold, peersVars>>

\* ReceiveBytes takes all there is.  Nothing means that the stream has ended.
ReadClient == /\ pc = "upstream"
              /\ "client" \in readable
              /\ hold' = in["client"]
              /\ in' = [in EXCEPT !["client"] = <<>>]
              /\ ended' = (in["client"] = <<>>)
              /\ pc' = "sending"
              /\ UNCHANGED <<readable, linked, out, ownVars, reset>>

ClientIsQuiet == /\ pc = "upstream"
                 /\ "client" \notin readable
                 /\ pc' = "downstream"
                 /\ UNCHANGED <<readable, hold, ended, peersVars>>

(***************************************************************************)
(* send() on a socket that was reset: an error that SendBytes does not     *)
(* look at, or SIGPIPE, which nobody handles.                              *)
(***************************************************************************)
SendFails(s, next) ==
  /\ s \in reset
  /\ UNCHANGED out
  /\ \/ pc' = next /\ UNCHANGED linked
     \/ pc' = "killed" /\ linked' = {}

\* A step of a send() that waits for room; it returns when all is taken.
SendWaiting(s, here, next) ==
  \/ SendFails(s, next) /\ hold' = <<>>
  \/ /\ s \notin reset
     /\ hold = <<>>
     /\ pc' = next
     /\ UNCHANGED <<hold, linked, out>>
  \/ /\ s \notin reset
     /\ hold # <<>>
     /\ Len(out[s]) < Room
     /\ out' = [out EXCEPT ![s] = Append(@, Head(hold))]
     /\ hold' = Tail(hold)
     /\ pc' = here
     /\ UNCHANGED linked

\* Mutant of SendTarget: send() takes what fits, as on the client's socket.
SendTargetWhatFits ==
  /\ pc = "sending"
  /\ "target" \notin reset
  /\ out' = [out EXCEPT !["target"] = TakeWhatFits(@, hold)]
  /\ hold' = <<>>
  /\ pc' = "downstream"
  /\ UNCHANGED <<readable, ended, linked, in, ownVars, reset>>

SendTarget == /\ pc = "sending"
              /\ SendWaiting("target", "sending", "downstream")
              /\ UNCHANGED <<readable, ended, in, ownVars, reset>>

TargetIsQuiet == /\ pc = "downstream"
                 /\ "target" \notin readable
                 /\ pc' = IF ended THEN "closing" ELSE "selecting"
                 /\ UNCHANGED <<readable, hold, ended, peersVars>>

(***************************************************************************)
(* From the target to the client, whose buffer takes what fits: the rest   *)
(* is lost.                                                                *)
(***************************************************************************)
RelayDown ==
  /\ pc = "downstream"
  /\ "target" \in readable
  /\ ended' = (ended \/ in["target"] = <<>>)
  /\ in' = [in EXCEPT !["target"] = <<>>]
  /\ LET next == IF ended' THEN "closing" ELSE "selecting"
     IN \/ SendFails("client", next)
        \/ /\ "client" \notin reset
           /\ out' = [out EXCEPT !["client"] = TakeWhatFits(@, in["target"])]
           /\ pc' = next
           /\ UNCHANGED linked
  /\ UNCHANGED <<readable, hold, ownVars, reset>>

Close == /\ pc = "closing"
         /\ pc' = "done"
         /\ CloseSockets(Sides)
         /\ UNCHANGED <<readable, hold, ended, in, ownVars, reset>>

----------------------------------------------------------------------------
Thread == \/ ConnectTarget \/ Select \/ ReadClient \/ ClientIsQuiet \/ SendTarget
          \/ TargetIsQuiet \/ RelayDown \/ Close

Next == Thread \/ \E s \in Sides : Peer(s) /\ UNCHANGED threadVars

Spec == Init /\ [][Next]_vars

\* The thread runs, and the target, when it is not writing, reads.
Fairness == /\ WF_vars(Thread)
            /\ \A s \in Sides : PeerFairness(s)
            /\ WF_peersVars(Read("target"))

FairSpec == Spec /\ Fairness
=============================================================================
