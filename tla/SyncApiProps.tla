----------------------------- MODULE SyncApiProps -----------------------------
(***************************************************************************)
(* What the task protocol of protocol-client/README.md promises, and until *)
(* when: most of it is lost with the first data race on response_map.      *)
(***************************************************************************)
EXTENDS SyncApi

Steps == {"idle", "poll", "insert", "inserting", "reply", "completed", "sdk"}

TypeOK ==
  /\ client \in [Clients -> {"start", "connected", "waiting", "asleep", "done", "exited"}]
  /\ task_id \in [Clients -> Ids \cup {None}]
  /\ answer \in [Clients -> [kind : {"none", "empty", "id", "pending", "completed"},
                             response : {"", Received}]]
  /\ response_map \in [Ids -> {Absent, "", Received}]
  /\ queue \in Seq(Connections \cup SdkCalls)
  /\ job \in [Workers -> Connections \cup SdkCalls \cup {None}]
  /\ at \in [Workers -> Steps]
  /\ raced \in SUBSET Workers
  /\ race \in BOOLEAN

(***************************************************************************)
(* Nobody is told "completed" before the SDK call has returned, whatever   *)
(* the races on the map.                                                   *)
(***************************************************************************)
CompletedIsEarned ==
  \A c \in Clients :
    answer[c].kind = "completed" =>
      /\ \A i \in 1..Len(queue) : queue[i] # Task("sdk", c)
      /\ \A w \in Workers : job[w] # Task("sdk", c)

(***************************************************************************)
(* Without a race, a client that is told "completed" is given the response *)
(* although it takes a second look-up to find it.                          *)
(***************************************************************************)
CompletedCarriesResponse ==
  race \/ \A c \in Clients :
            answer[c].kind = "completed" => answer[c].response = Received

(***************************************************************************)
(* "completed" is said of calls that have returned, and comes with what    *)
(* they returned.                                                          *)
(***************************************************************************)
CompletedIsTrue == TypeOK /\ CompletedIsEarned /\ CompletedCarriesResponse

(***************************************************************************)
(* Without a race, a task without a result is still being worked on: as    *)
(* long as its client polls for it, the SDK call is queued or running.  In *)
(* particular no result is overwritten, and no entry is made up for an id  *)
(* that nobody works on.                                                   *)
(***************************************************************************)
PendingIsWorkedOn ==
  \/ race
  \/ \A c \in Clients :
       task_id[c] = c /\ response_map[c] # Received =>
         \/ \E i \in 1..Len(queue) : queue[i] = Task("sdk", c)
         \/ \E w \in Workers : job[w] = Task("sdk", c)

(***************************************************************************)
(* A client whose requests are not late is told "completed" in the end,    *)
(* unless there was a race, or it could not connect and has exited.        *)
(***************************************************************************)
PromptClientsFinish ==
  \A c \in Clients \ Late : client[c] = "connected" ~> client[c] \in {"done", "exited"} \/ race

(***************************************************************************)
(* The same without the proviso: the task id "can be used to check the     *)
(* status of the task" (protocol-client/README.md:32-33), which is pending *)
(* and then completed.                                                     *)
(***************************************************************************)
PollingEnds ==
  \A c \in Clients \ Late : client[c] = "connected" ~> client[c] \in {"done", "exited"}
=============================================================================
