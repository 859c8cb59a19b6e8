------------------------------ MODULE ProxyThread ------------------------------
(***************************************************************************)
(* CProxySocket::ThreadHandler (src/protocol-server/src/engine/interface): *)
(* the relaying task of a proxy socket, run by a thread of the pool.  Its  *)
(* turns are those of Relay, but both sockets block, and the task returns  *)
(* without closing either of them.  Handlers pass the bytes through.  The  *)
(* file is the same, byte for byte, in protocol-client.                    *)
(***************************************************************************)
EXTENDS Relay

\* Room is left in the thread: ClientThreadProc catches what the constructor
\* of CClientSocket throws, and the client is not told.  A host without a
\* name is a null pointer, which ends the process.
ReachTarget ==
  /\ pc = "connecting"
  /\ \/ pc' = "selecting" /\ linked' = Sides
     \/ pc' = "returned" /\ UNCHANGED linked
     \/ pc' = "killed" /\ linked' = {}
  /\ UNCHANGED <<readable, hold, ended, in, out, ownVars, reset>>

AfterTurn(over) == IF over THEN "returned" ELSE "selecting"

\* Mutant of ReadTarget: the end of the target is not looked at.
ReadTargetOnly ==
  /\ pc = "downstream"
  /\ "target" \in readable
  /\ hold' = in["target"]
  /\ in' = [in EXCEPT !["target"] = <<>>]
  /\ pc' = "answering"
  /\ UNCHANGED <<ended, readable, linked, out, ownVars, reset>>

ReadTarget ==
  /\ pc = "downstream"
  /\ "target" \in readable
  /\ hold' = in["target"]
  /\ in' = [in EXCEPT !["target"] = <<>>]
  /\ ended' = (ended \/ in["target"] = <<>>)
  /\ pc' = "answering"
  /\ UNCHANGED <<readable, linked, out, ownVars, reset>>

SendClient == /\ pc = "answering"
              /\ SendWaiting("client", "answering", AfterTurn(ended))
              /\ UNCHANGED <<readable, ended, in, ownVars, reset>>

NothingFromTarget == /\ pc = "downstream"
                     /\ "target" \notin readable
                     /\ pc' = AfterTurn(ended)
                     /\ UNCHANGED <<readable, hold, ended, peersVars>>

Task == \/ ReachTarget \/ Select \/ ReadClient \/ ClientIsQuiet \/ SendTarget
        \/ ReadTarget \/ SendClient \/ NothingFromTarget

TaskNext == Task \/ \E s \in Sides : Peer(s) /\ UNCHANGED threadVars

TaskSpec == Init /\ [][TaskNext]_vars

\* Both sockets block, so that both sides must read when they do not write.
TaskFairSpec == /\ TaskSpec
                /\ WF_vars(Task)
                /\ \A s \in Sides : PeerFairness(s) /\ WF_peersVars(Read(s))

----------------------------------------------------------------------------
TaskTypeOK ==
  /\ PeersTypeOK
  /\ pc \in {"connecting", "selecting", "upstream", "sending", "downstream",
             "answering", "returned", "killed"}
  /\ readable \in SUBSET Sides
  /\ hold # <<>> => pc \in {"sending", "answering"}

\* What the thread holds for side s.
HeldFor(s) == IF pc = (IF s = "target" THEN "sending" ELSE "answering")
              THEN hold ELSE <<>>

(***************************************************************************)
(* What one side sent is on its way to the other, or was read by it, whole *)
(* and in order, as long as the other stays: send() takes everything, and  *)
(* no socket is closed while it has something to deliver.                  *)
(***************************************************************************)
NothingIsLost ==
  /\ TaskTypeOK
  /\ pc # "killed" =>
       \A s \in Sides : side[s] # "closed" =>
         got[s] \o out[s] \o HeldFor(s) \o in[Other(s)] = UpTo(sent[Other(s)])

\* The thread waits for a side to read which waits for the thread to read.
Stuck(s) == /\ s \in writing
            /\ HeldFor(s) # <<>>
            /\ Len(in[s]) = Room /\ Len(out[s]) = Room

(***************************************************************************)
(* When a side has ended, the task returns, so that the pool has its       *)
(* thread back, unless it is stuck or the process has gone.                *)
(***************************************************************************)
HasEnded == \E s \in Sides : side[s] # "open"
HasReturned == pc \in {"returned", "killed"} \/ \E s \in Sides : Stuck(s)
TaskReturns == HasEnded ~> HasReturned
=============================================================================
