------------------------------ MODULE RelayProps ------------------------------
(***************************************************************************)
(* What a relaying thread of the passthrough proxy guarantees to the two   *)
(* sides.                                                                  *)
(***************************************************************************)
EXTENDS Relay

TypeOK ==
  /\ PeersTypeOK
  /\ pc \in {"connecting", "selecting", "upstream", "sending", "downstream",
             "closing", "done", "killed"}
  /\ readable \in SUBSET Sides
  /\ hold # <<>> => pc = "sending"
  /\ ended \in BOOLEAN

(***************************************************************************)
(* Nothing that the client sent is lost, repeated or overtaken on its way  *)
(* to the target, wherever it is, as long as the target stays; also when   *)
(* the client has finished and the thread closes behind it, unless the     *)
(* target had said something that the thread left unread.                  *)
(***************************************************************************)
UpstreamIsWhole ==
  /\ TypeOK
  /\ side["target"] # "closed" /\ pc # "killed" /\ (pc = "done" => in["target"] = <<>>)
       => got["target"] \o out["target"] \o hold \o in["client"] = UpTo(sent["client"])

(***************************************************************************)
(* The client may miss a part of what the target sent, but it never reads  *)
(* anything twice or out of order; and it misses nothing of an answer that *)
(* fits its socket's buffer.                                               *)
(***************************************************************************)
DownstreamIsOrdered ==
  LET way == got["client"] \o out["client"] \o in["target"]
  IN /\ \A i \in 1..(Len(way) - 1) : way[i] < way[i + 1]
     /\ sent["target"] <= Room /\ reset = {} /\ pc \notin {"done", "killed"}
          => way = UpTo(sent["target"])

(***************************************************************************)
(* The thread waits for the target to read, the target for the thread:     *)
(* send() to a target that is itself in a write.                           *)
(***************************************************************************)
Embrace == /\ pc = "sending" /\ hold # <<>>
           /\ "target" \in writing
           /\ Len(in["target"]) = Room /\ Len(out["target"]) = Room

(***************************************************************************)
(* When a side has ended, the thread closes both sockets, unless it is     *)
(* caught in an embrace with the target or the process has gone.           *)
(***************************************************************************)
HasEnded == \E s \in Sides : side[s] # "open"
IsRelayed == pc \in {"done", "killed"} \/ Embrace
EndsAreRelayed == HasEnded ~> IsRelayed
=============================================================================
