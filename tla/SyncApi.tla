------------------------------- MODULE SyncApi -------------------------------
(***************************************************************************)
(* The task protocol between protocol-client (src/main.cpp) and the        *)
(* server's SyncApiProtocolHandler: CONNECT schedules an SDK call and is   *)
(* answered with a task id, CHECK_STATUS asks whether the call is done,    *)
(* and the client asks every two seconds until it is.                      *)
(*                                                                         *)
(* The accepting side is ProtocolServer; here a connection becomes a task  *)
(* of the pool at once, which is what ProtocolServer does as long as a     *)
(* worker is free for every task.  The pool is again WorkQueue.            *)
(*                                                                         *)
(* response_map is a std::map that the workers use without a lock.  An     *)
(* operator[] that overlaps an insertion is a data race: it may miss the   *)
(* entry it looks for, and what it writes may be lost.                     *)
(***************************************************************************)
EXTENDS Naturals, Sequences, FiniteSets

CONSTANTS Clients,    \* protocol-client processes; a client is also its task's id
          Workers,    \* the threads of the pool
          Late,       \* the clients whose bytes may come after the pipeline gave up
          Garbage,    \* the task id read out of an answer of no bytes
          None

ASSUME SyncApiAssumption ==
  /\ IsFiniteSet(Clients) /\ IsFiniteSet(Workers)
  /\ Cardinality(Workers) >= 2 * Cardinality(Clients)
  /\ Late \subseteq Clients
  /\ Garbage \notin Clients /\ None \notin Clients \cup {Garbage}
  \* No worker has None for a task.
  /\ \A c \in Clients, k \in {"connection", "sdk"} : None # [kind |-> k, client |-> c]

VARIABLES client,       \* where each client is: in main(), connected, asleep, exited ...
          task_id,      \* the id it has, or None before the first answer
          answer,       \* what the server has sent on its open connection
          response_map, \* the handler's map, over all ids
          queue,        \* the pool's queue
          job,          \* the task of each worker, or None
          at,           \* where each worker is in its task
          raced,        \* workers whose insertion another access has overlapped
          race          \* whether any two accesses to the map have overlapped

clientVars == <<client, task_id>>
raceVars == <<raced, race>>
vars == <<client, task_id, answer, response_map, queue, job, at, raced, race>>

Ids == Clients \cup {Garbage}
Connections == [kind : {"connection"}, client : Clients]
SdkCalls == [kind : {"sdk"}, client : Clients]
Task(kind, c) == [kind |-> kind, client |-> c]

Absent == "absent"
Received == "Response Received"

NoAnswer == [kind |-> "none", response |-> ""]
Answer(kind) == [kind |-> kind, response |-> ""]

Pool == INSTANCE WorkQueue WITH Items <- Connections \cup SdkCalls,
                                pending <- queue, holding <- job

Init == /\ client = [c \in Clients |-> "start"]
        /\ task_id = [c \in Clients |-> None]
        /\ answer = [c \in Clients |-> NoAnswer]
        /\ response_map = [i \in Ids |-> Absent]
        /\ Pool!Init
        /\ at = [w \in Workers |-> "idle"]
        /\ raced = {}
        /\ race = FALSE

----------------------------------------------------------------------------
(***************************************************************************)
(* The client                                                              *)
(***************************************************************************)

\* new CClientSocket: for the CONNECT at first, for a CHECK_STATUS after a sleep.
Connect(c) == /\ client[c] \in {"start", "asleep"}
              /\ client' = [client EXCEPT ![c] = "connected"]
              /\ queue' = Append(queue, Task("connection", c))
              /\ UNCHANGED <<task_id, answer, response_map, job, at, raceVars>>

\* No connection: exit(1), whatever has become of the task.
ConnectThrows(c) == /\ client[c] \in {"start", "asleep"}
                    /\ client' = [client EXCEPT ![c] = "exited"]
                    /\ UNCHANGED <<task_id, answer, response_map, queue, job, at, raceVars>>

Send(c) == /\ client[c] = "connected"
           /\ client' = [client EXCEPT ![c] = "waiting"]
           /\ UNCHANGED <<task_id, answer, response_map, queue, job, at, raceVars>>

(***************************************************************************)
(* ReceiveBytes returns an empty string when the server closes without an  *)
(* answer; the packet is then read out of a buffer that holds none: as a   *)
(* task id that is garbage, as a status that is not "completed".           *)
(***************************************************************************)
Receive(c) ==
  /\ client[c] = "waiting"
  /\ answer[c] # NoAnswer
  /\ answer' = [answer EXCEPT ![c] = NoAnswer]
  /\ \/ /\ task_id[c] = None
        /\ task_id' = [task_id EXCEPT ![c] = IF answer[c].kind = "id" THEN c ELSE Garbage]
        /\ client' = [client EXCEPT ![c] = "asleep"]
     \/ /\ task_id[c] # None
        /\ client' = [client EXCEPT ![c] =
                        IF answer[c].kind = "completed" THEN "done" ELSE "asleep"]
        /\ UNCHANGED task_id
  /\ UNCHANGED <<response_map, queue, job, at, raceVars>>

----------------------------------------------------------------------------
(***************************************************************************)
(* The workers                                                             *)
(***************************************************************************)
Take(w) == /\ Pool!Take(w)
           /\ at' = [at EXCEPT ![w] = IF job'[w].kind = "sdk" THEN "sdk" ELSE "poll"]
           /\ UNCHANGED <<clientVars, answer, response_map, raceVars>>

\* The client of the task that w executes.
Peer(w) == job[w].client

\* SendBytes and Close end a connection's task.
Finish(w) == Pool!Finish(w) /\ at' = [at EXCEPT ![w] = "idle"]

Reply(w, a) == /\ answer' = [answer EXCEPT ![Peer(w)] = a]
               /\ Finish(w)

Inserting == {w \in Workers : at[w] = "inserting"}

(***************************************************************************)
(* An access to the map by w: access is what it does when nothing          *)
(* interferes, miss when it does not find what it looks for.  It may miss  *)
(* only while another worker inserts, which it makes a race for that       *)
(* worker as well.                                                         *)
(***************************************************************************)
Racing(w, access, miss) ==
  LET others == Inserting \ {w} IN
    /\ \/ access
       \/ (others # {} \/ w \in raced) /\ miss
    /\ raced' = (raced \cup others) \ {w}
    /\ race' = (race \/ others # {})

\* The pipeline's polls run out before the request arrives.
GiveUp(w) == /\ at[w] = "poll"
             /\ Peer(w) \in Late
             /\ client[Peer(w)] = "connected"
             /\ Reply(w, Answer("empty"))
             /\ UNCHANGED <<clientVars, response_map, raceVars>>

\* CONNECT: push the SDK call ...
HandleConnect(w) == /\ at[w] = "poll"
                    /\ client[Peer(w)] = "waiting"
                    /\ task_id[Peer(w)] = None
                    /\ queue' = Append(queue, Task("sdk", Peer(w)))
                    /\ at' = [at EXCEPT ![w] = "insert"]
                    /\ UNCHANGED <<clientVars, answer, response_map, job, raceVars>>

\* ... response_map[correlation_id] = "", from when the insertion begins ...
BeginInsert(w) == /\ at[w] = "insert"
                  /\ at' = [at EXCEPT ![w] = "inserting"]
                  /\ raced' = IF Inserting = {} THEN raced
                              ELSE raced \cup Inserting \cup {w}
                  /\ race' = (race \/ Inserting # {})
                  /\ UNCHANGED <<clientVars, answer, response_map, queue, job>>

\* ... until it ends ...
EndInsert(w) == /\ at[w] = "inserting"
                /\ Racing(w, response_map' = [response_map EXCEPT ![Peer(w)] = ""],
                             UNCHANGED response_map)
                /\ at' = [at EXCEPT ![w] = "reply"]
                /\ UNCHANGED <<clientVars, answer, queue, job>>

\* ... and answer with the id.
ReplyId(w) == /\ at[w] = "reply"
              /\ Reply(w, Answer("id"))
              /\ UNCHANGED <<clientVars, response_map, raceVars>>

\* Mutant of HandleCheck: the id being in the map is taken for the result.
HandleCheckFinds(w) ==
  /\ at[w] = "poll"
  /\ client[Peer(w)] = "waiting"
  /\ LET id == task_id[Peer(w)] IN
       /\ id # None
       /\ \/ /\ response_map[id] = Absent
             /\ Reply(w, Answer("pending"))
          \/ /\ response_map[id] # Absent
             /\ at' = [at EXCEPT ![w] = "completed"]
             /\ UNCHANGED <<answer, queue, job>>
  /\ UNCHANGED <<clientVars, response_map, raceVars>>

\* CHECK_STATUS: operator[] creates the entry of an id that it does not find.
HandleCheck(w) ==
  /\ at[w] = "poll"
  /\ client[Peer(w)] = "waiting"
  /\ LET id == task_id[Peer(w)]
         pending == /\ Reply(w, Answer("pending"))
                    /\ response_map' = [response_map EXCEPT ![id] =
                                          IF @ = Absent THEN "" ELSE @]
         completed == /\ at' = [at EXCEPT ![w] = "completed"]
                      /\ UNCHANGED <<answer, response_map, queue, job>>
     IN /\ id # None
        /\ Racing(w, IF response_map[id] = Received THEN completed ELSE pending,
                     Reply(w, Answer("pending")) /\ UNCHANGED response_map)
  /\ UNCHANGED clientVars

\* "completed", with the response that a second look-up finds.
CopyResponse(w) ==
  /\ at[w] = "completed"
  /\ \E r \in {"", Received} :
       /\ Reply(w, [kind |-> "completed", response |-> r])
       /\ Racing(w, r = response_map[task_id[Peer(w)]], r = "")
  /\ UNCHANGED <<clientVars, response_map>>

\* Mutant of SdkReturns: the mock is replaced by a call that may be quick.
SdkReturnsAtOnce(w) ==
  /\ at[w] = "sdk"
  /\ Racing(w, response_map' = [response_map EXCEPT ![Peer(w)] = Received],
               UNCHANGED response_map)
  /\ Finish(w)
  /\ UNCHANGED <<clientVars, answer>>

\* Mutant of SdkReturns: the result is not stored.
SdkForgets(w) == /\ at[w] = "sdk"
                 /\ Finish(w)
                 /\ UNCHANGED <<clientVars, answer, response_map, raceVars>>

(***************************************************************************)
(* The SDK call returns and its result is stored.  Ten seconds are more    *)
(* than the worker that pushed the call needs for its next line.           *)
(***************************************************************************)
SdkReturns(w) ==
  /\ at[w] = "sdk"
  /\ \A v \in Workers : at[v] \in {"insert", "inserting"} => Peer(v) # Peer(w)
  /\ Racing(w, response_map' = [response_map EXCEPT ![Peer(w)] = Received],
               UNCHANGED response_map)
  /\ Finish(w)
  /\ UNCHANGED <<clientVars, answer>>

----------------------------------------------------------------------------
Client(c) == Connect(c) \/ ConnectThrows(c) \/ Send(c) \/ Receive(c)

Work(w) == \/ GiveUp(w) \/ HandleCheck(w) \/ CopyResponse(w)
           \/ HandleConnect(w) \/ BeginInsert(w) \/ EndInsert(w) \/ ReplyId(w)
           \/ SdkReturns(w)

Next == \/ \E c \in Clients : Client(c)
        \/ \E w \in Workers : Take(w) \/ Work(w)

Spec == Init /\ [][Next]_vars

\* Client processes, once connected, and workers run.
Fairness == /\ \A c \in Clients : WF_vars(client[c] # "start" /\ Client(c))
            /\ WF_vars(\E w \in Workers : Take(w))
            /\ \A w \in Workers : WF_vars(Work(w))

FairSpec == Spec /\ Fairness
=============================================================================
