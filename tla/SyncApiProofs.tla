----------------------------- MODULE SyncApiProofs -----------------------------
(***************************************************************************)
(* Proofs that the task protocol has the safety properties of SyncApiProps *)
(* for any number of clients and workers, whatever races there are.        *)
(***************************************************************************)
EXTENDS SyncApiProps, SequenceTheorems, TLAPS

Conn(c) == Task("connection", c)
Sdk(c) == Task("sdk", c)

InFlight(t) == \/ \E i \in 1..Len(queue) : queue[i] = t
               \/ \E w \in Workers : job[w] = t

\* Every task in flight is in one place.
Distinct ==
  /\ \A i, j \in 1..Len(queue) : queue[i] = queue[j] => i = j
  /\ \A v, w \in Workers : job[v] = job[w] /\ job[v] # None => v = w
  /\ \A i \in 1..Len(queue), w \in Workers : queue[i] # job[w]

\* Where a worker is says what it works on.
WorkersInStep ==
  /\ \A w \in Workers :
       /\ at[w] = "idle" <=> job[w] = None
       /\ at[w] = "sdk" => job[w] \in SdkCalls
       /\ at[w] \notin {"idle", "sdk"} => job[w] \in Connections
  /\ raced # {} => race

TypeInv == TypeOK /\ WorkersInStep /\ Distinct

(***************************************************************************)
(* A client has one connection at a time, one answer at the end of it, and *)
(* no other id than its own or none that is one.                           *)
(***************************************************************************)
OneConnection ==
  /\ \A c \in Clients : InFlight(Conn(c)) =>
       client[c] \in {"connected", "waiting"} /\ answer[c] = NoAnswer
  /\ \A c \in Clients : client[c] \in {"start", "asleep"} => answer[c] = NoAnswer
  /\ \A c \in Clients : task_id[c] \in {c, Garbage, None}

Creating(w) == at[w] \in {"insert", "inserting", "reply"}

\* The server has seen the CONNECT of c.
Begun(c) == \/ \E w \in Workers : job[w] = Conn(c) /\ Creating(w)
            \/ answer[c].kind = "id"
            \/ task_id[c] = c

(***************************************************************************)
(* The SDK is called once for a client: an id that was asked for is not    *)
(* asked for again.                                                        *)
(***************************************************************************)
CalledOnce ==
  /\ \A c \in Clients : InFlight(Sdk(c)) \/ response_map[c] = Received => Begun(c)
  /\ \A c \in Clients : answer[c].kind = "id" => task_id[c] = None
  /\ \A w \in Workers, c \in Clients : job[w] = Conn(c) /\ Creating(w) => task_id[c] = None

(***************************************************************************)
(* "Response Received" is stored, found and sent after the end of the call.*)
(***************************************************************************)
ReceivedIsLast ==
  /\ response_map[Garbage] # Received
  /\ \A c \in Clients : response_map[c] = Received => ~InFlight(Sdk(c))
  /\ \A c \in Clients : answer[c].kind = "completed" =>
                          task_id[c] = c /\ ~InFlight(Sdk(c))
  /\ \A w \in Workers, c \in Clients : job[w] = Conn(c) /\ at[w] = "completed" =>
       task_id[c] = c /\ ~InFlight(Sdk(c))
  /\ \A w \in Workers, c \in Clients : job[w] = Conn(c) /\ at[w] \in {"insert", "inserting"} =>
       InFlight(Sdk(c))

\* What an undisturbed map holds.
MapIsRight ==
  \/ race
  \/ /\ \A c \in Clients : answer[c].kind = "completed" => answer[c].response = Received
     /\ \A w \in Workers, c \in Clients : job[w] = Conn(c) /\ at[w] = "completed" =>
          response_map[c] = Received
     /\ \A c \in Clients : Begun(c) => InFlight(Sdk(c)) \/ response_map[c] = Received

IInv == TypeInv /\ OneConnection /\ CalledOnce /\ ReceivedIsLast /\ MapIsRight

----------------------------------------------------------------------------
(***************************************************************************)
(* Tasks, and the queue                                                    *)
(***************************************************************************)

LEMMA TaskFacts ==
  /\ \A c \in Clients : Conn(c) \in Connections /\ Sdk(c) \in SdkCalls
  /\ \A c \in Clients : Conn(c).client = c /\ Sdk(c).client = c
  /\ \A c \in Clients : Conn(c).kind = "connection" /\ Sdk(c).kind = "sdk"
  /\ \A t \in Connections : t.client \in Clients /\ t = Conn(t.client)
  /\ \A t \in SdkCalls : t.client \in Clients /\ t = Sdk(t.client)
  /\ \A t \in Connections : t.kind = "connection"
  /\ \A t \in SdkCalls : t.kind = "sdk"
  /\ None \notin Connections \cup SdkCalls
BY SyncApiAssumption DEF Conn, Sdk, Task, Connections, SdkCalls

LEMMA TasksDiffer ==
  /\ \A c \in Clients : Conn(c) # None /\ Sdk(c) # None
  /\ \A c, d \in Clients : Conn(c) # Sdk(d)
  /\ \A c, d \in Clients : Conn(c) = Conn(d) => c = d
  /\ \A c, d \in Clients : Sdk(c) = Sdk(d) => c = d
<1>1. \A c \in Clients : Conn(c) # None /\ Sdk(c) # None
  BY TaskFacts
<1>2. \A c, d \in Clients : Conn(c) # Sdk(d)
  <2>1. "connection" # "sdk"
    OBVIOUS
  <2> QED BY <2>1, TaskFacts
<1>3. \A c, d \in Clients : (Conn(c) = Conn(d) => c = d) /\ (Sdk(c) = Sdk(d) => c = d)
  BY TaskFacts
<1> QED BY <1>1, <1>2, <1>3

LEMMA NoAnswerIsNone == NoAnswer.kind = "none"
BY DEF NoAnswer

\* ThreadPool::push of a task that is not in flight.
LEMMA Pushed ==
  ASSUME TypeInv, NEW t \in Connections \cup SdkCalls, ~InFlight(t),
         queue' = Append(queue, t), job' = job
  PROVE  /\ Distinct' /\ queue' \in Seq(Connections \cup SdkCalls)
         /\ \A x : InFlight(x)' <=> InFlight(x) \/ x = t
<1>1. queue \in Seq(Connections \cup SdkCalls) /\ Len(queue) \in Nat
  BY LenProperties DEF TypeInv, TypeOK
<1>2. /\ queue' \in Seq(Connections \cup SdkCalls)
      /\ Len(queue') = Len(queue) + 1
      /\ \A i \in 1..Len(queue) : queue'[i] = queue[i]
      /\ queue'[Len(queue) + 1] = t
  BY <1>1, AppendProperties
<1>3. \A i \in 1..Len(queue') : i \in 1..Len(queue) \/ i = Len(queue) + 1
  BY <1>1, <1>2
<1>4. \A x : InFlight(x)' <=> InFlight(x) \/ x = t
  BY <1>1, <1>2, <1>3 DEF InFlight
<1>5. Distinct'
  BY <1>1, <1>2, <1>3 DEF Distinct, TypeInv, InFlight
<1> QED BY <1>2, <1>4, <1>5

\* An idle worker takes the oldest task: it stays in flight.
LEMMA Taken ==
  ASSUME TypeInv, NEW w \in Workers, Pool!Take(w)
  PROVE  /\ Distinct' /\ queue' \in Seq(Connections \cup SdkCalls)
         /\ job'[w] \in Connections \cup SdkCalls
         /\ job' = [job EXCEPT ![w] = job'[w]]
         /\ \A x : x # None => (InFlight(x)' <=> InFlight(x))
<1>1. /\ queue \in Seq(Connections \cup SdkCalls) /\ Len(queue) \in Nat
      /\ job \in [Workers -> Connections \cup SdkCalls \cup {None}]
  BY LenProperties DEF TypeInv, TypeOK
<1>2. job[w] = None /\ queue # <<>> /\ job' = [job EXCEPT ![w] = queue[1]]
  BY <1>1, HeadTailProperties DEF Pool!Take
<1>3. /\ queue' \in Seq(Connections \cup SdkCalls)
      /\ Len(queue') = Len(queue) - 1
      /\ \A i \in 1..Len(queue') : queue'[i] = queue[i + 1]
      /\ Len(queue) > 0
  BY <1>1, HeadTailProperties, EmptySeq DEF Pool!Take
<1>4. queue[1] \in Connections \cup SdkCalls
  BY <1>1, <1>3, ElementOfSeq
<1>5. /\ \A i \in 1..Len(queue') : i + 1 \in 1..Len(queue) /\ i + 1 # 1
      /\ \A i \in 1..Len(queue) : i = 1 \/ (i - 1 \in 1..Len(queue') /\ (i - 1) + 1 = i)
  BY <1>1, <1>3
<1>6. job'[w] = queue[1] /\ \A v \in Workers \ {w} : job'[v] = job[v]
  BY <1>1, <1>2
<1>7. \A x : x # None => (InFlight(x)' <=> InFlight(x))
  <2> SUFFICES ASSUME NEW x, x # None PROVE InFlight(x)' <=> InFlight(x)
    OBVIOUS
  <2>1. ASSUME InFlight(x) PROVE InFlight(x)'
    <3>1. ASSUME NEW i \in 1..Len(queue), queue[i] = x PROVE InFlight(x)'
      <4>1. CASE i = 1
        BY <1>6, <3>1, <4>1 DEF InFlight
      <4>2. CASE i # 1
        <5>1. i - 1 \in 1..Len(queue') /\ queue'[i - 1] = x
          BY <1>3, <1>5, <3>1, <4>2
        <5> QED BY <5>1 DEF InFlight
      <4> QED BY <4>1, <4>2
    <3>2. ASSUME NEW v \in Workers, job[v] = x PROVE InFlight(x)'
      BY <1>2, <1>6, <3>2 DEF InFlight
    <3> QED BY <2>1, <3>1, <3>2 DEF InFlight
  <2>2. ASSUME InFlight(x)' PROVE InFlight(x)
    <3>1. 1 \in 1..Len(queue)
      BY <1>1, <1>3
    <3> QED BY <1>3, <1>5, <1>6, <2>2, <3>1 DEF InFlight
  <2> QED BY <2>1, <2>2
<1>8. Distinct'
  <2>1. 1 \in 1..Len(queue)
    BY <1>1, <1>3
  <2>2. ASSUME NEW i \in 1..Len(queue'), NEW j \in 1..Len(queue'), queue'[i] = queue'[j]
        PROVE  i = j
    BY <1>1, <1>3, <1>5, <2>2 DEF Distinct, TypeInv
  <2>3. ASSUME NEW i \in 1..Len(queue'), NEW v \in Workers
        PROVE  queue'[i] # job'[v]
    BY <1>3, <1>5, <1>6, <2>1 DEF Distinct, TypeInv
  <2>4. ASSUME NEW u \in Workers, NEW v \in Workers, job'[u] = job'[v], job'[u] # None
        PROVE  u = v
    BY <1>6, <2>1, <2>4 DEF Distinct, TypeInv
  <2> QED BY <2>2, <2>3, <2>4 DEF Distinct
<1> QED BY <1>2, <1>3, <1>4, <1>6, <1>7, <1>8

\* The end of a task: it is no longer in flight.
LEMMA Finished ==
  ASSUME TypeInv, NEW w \in Workers, Pool!Finish(w)
  PROVE  /\ Distinct' /\ queue' = queue
         /\ job' = [job EXCEPT ![w] = None]
         /\ \A x : x # None => (InFlight(x)' <=> InFlight(x) /\ x # job[w])
<1>1. /\ job \in [Workers -> Connections \cup SdkCalls \cup {None}]
      /\ job[w] # None /\ queue' = queue /\ job' = [job EXCEPT ![w] = None]
  BY DEF TypeInv, TypeOK, Pool!Finish
<1>2. job'[w] = None /\ \A v \in Workers \ {w} : job'[v] = job[v]
  BY <1>1
<1>3. \A i \in 1..Len(queue) : queue[i] # None
  <2>1. queue \in Seq(Connections \cup SdkCalls)
    BY DEF TypeInv, TypeOK
  <2> QED BY <2>1, TaskFacts, ElementOfSeq
<1>4. Distinct'
  BY <1>1, <1>2, <1>3 DEF Distinct, TypeInv
<1>5. \A x : x # None => (InFlight(x)' <=> InFlight(x) /\ x # job[w])
  BY <1>1, <1>2 DEF Distinct, TypeInv, InFlight
<1> QED BY <1>1, <1>4, <1>5

----------------------------------------------------------------------------
(***************************************************************************)
(* Every step keeps the invariant                                          *)
(***************************************************************************)

USE DEF TypeInv, IInv

LEMMA ConnectKeeps ==
  ASSUME IInv, NEW c \in Clients, Connect(c) \/ ConnectThrows(c) \/ Send(c)
  PROVE  IInv'
<1>1. /\ UNCHANGED <<task_id, answer, response_map, job, at, raced, race>>
      /\ \E s \in {"connected", "waiting", "exited"} : client' = [client EXCEPT ![c] = s]
      /\ client[c] \in {"start", "connected", "asleep"}
  BY DEF Connect, ConnectThrows, Send, raceVars
<1>2. ASSUME Connect(c)
      PROVE  ~InFlight(Conn(c)) /\ queue' = Append(queue, Conn(c)) /\ answer[c] = NoAnswer
  BY <1>2 DEF Connect, OneConnection, Conn
<1>3. /\ Distinct' /\ queue' \in Seq(Connections \cup SdkCalls)
      /\ \A x : InFlight(x)' <=> InFlight(x) \/ (x = Conn(c) /\ Connect(c))
  <2>1. CASE Connect(c)
    BY <1>1, <1>2, <2>1, Pushed, TaskFacts
  <2>2. CASE ~Connect(c)
    <3>1. queue' = queue /\ job' = job
      BY <2>2 DEF ConnectThrows, Send
    <3>2. Distinct' /\ queue' \in Seq(Connections \cup SdkCalls)
      BY <3>1 DEF Distinct, TypeOK
    <3>3. \A x : InFlight(x)' <=> InFlight(x)
      BY <3>1 DEF InFlight
    <3> QED BY <2>2, <3>2, <3>3
  <2> QED BY <2>1, <2>2
<1>4. client' \in [Clients -> {"start", "connected", "waiting", "asleep", "done", "exited"}]
  BY <1>1 DEF TypeOK
<1>5. TypeOK'
  BY <1>1, <1>3, <1>4 DEF TypeOK
<1>6. WorkersInStep'
  BY <1>1 DEF WorkersInStep
<1>7. OneConnection'
  <2>1. \A d \in Clients : client'[d] \in {"start", "asleep"} => client[d] \in {"start", "asleep"}
    BY <1>1 DEF TypeOK
  <2>2. ASSUME NEW d \in Clients, InFlight(Conn(d))'
        PROVE  client'[d] \in {"connected", "waiting"} /\ answer[d] = NoAnswer
    <3>1. CASE d = c /\ Connect(c)
      BY <1>2, <3>1 DEF Connect, TypeOK
    <3>2. CASE ~(d = c /\ Connect(c))
      <4>1. InFlight(Conn(d))
        BY <1>3, <2>2, <3>2, TaskFacts
      <4>2. client[d] \in {"connected", "waiting"} /\ answer[d] = NoAnswer
        BY <4>1 DEF OneConnection
      <4> QED BY <4>2 DEF Connect, ConnectThrows, Send, TypeOK
    <3> QED BY <3>1, <3>2
  <2> QED BY <1>1, <2>1, <2>2 DEF OneConnection
<1>8. \A d \in Clients : Begun(d)' <=> Begun(d)
  BY <1>1 DEF Begun, Creating
<1>9. \A d \in Clients : InFlight(Sdk(d))' <=> InFlight(Sdk(d))
  BY <1>3, TaskFacts
<1>10. CalledOnce'
  BY <1>1, <1>8, <1>9 DEF CalledOnce, Creating
<1>11. ReceivedIsLast'
  BY <1>1, <1>9 DEF ReceivedIsLast
<1>12. MapIsRight'
  BY <1>1, <1>8, <1>9 DEF MapIsRight
<1> QED BY <1>3, <1>5, <1>6, <1>7, <1>10, <1>11, <1>12

LEMMA ReceiveKeeps ==
  ASSUME IInv, NEW c \in Clients, Receive(c)
  PROVE  IInv'
<1>1. /\ UNCHANGED <<response_map, queue, job, at, raced, race>>
      /\ client[c] = "waiting" /\ answer[c] # NoAnswer
      /\ answer' = [answer EXCEPT ![c] = NoAnswer]
  BY DEF Receive, raceVars
<1>2. /\ \E s \in {"asleep", "done"} : client' = [client EXCEPT ![c] = s]
      /\ \E t \in Ids :
           /\ task_id' = [task_id EXCEPT ![c] = t]
           /\ task_id[c] # None => t = task_id[c]
           /\ task_id[c] = None /\ answer[c].kind = "id" => t = c
           /\ task_id[c] = None /\ answer[c].kind # "id" => t = Garbage
  <2>1. CASE task_id[c] = None
    BY <2>1 DEF Receive, Ids
  <2>2. CASE task_id[c] # None
    <3>1. task_id[c] \in Ids /\ task_id' = [task_id EXCEPT ![c] = task_id[c]]
      BY <2>2 DEF Receive, TypeOK
    <3>2. \E s \in {"asleep", "done"} : client' = [client EXCEPT ![c] = s]
      BY <2>2 DEF Receive
    <3> QED BY <2>2, <3>1, <3>2
  <2> QED BY <2>1, <2>2
<1>3. /\ client' \in [Clients -> {"start", "connected", "waiting", "asleep", "done", "exited"}]
      /\ task_id' \in [Clients -> Ids \cup {None}]
  BY <1>2 DEF TypeOK
<1>4. answer' \in [Clients -> [kind : {"none", "empty", "id", "pending", "completed"},
                               response : {"", Received}]]
  BY <1>1 DEF TypeOK, NoAnswer
<1>5. /\ \A d \in Clients \ {c} :
           client'[d] = client[d] /\ task_id'[d] = task_id[d] /\ answer'[d] = answer[d]
      /\ answer'[c] = NoAnswer /\ answer'[c].kind = "none"
      /\ task_id[c] # None => task_id'[c] = task_id[c]
      /\ task_id[c] = None /\ answer[c].kind = "id" => task_id'[c] = c
      /\ task_id[c] = None /\ answer[c].kind # "id" => task_id'[c] = Garbage
  BY <1>1, <1>2 DEF TypeOK, NoAnswer
<1>6. TypeOK'
  BY <1>1, <1>3, <1>4 DEF TypeOK
<1>7. WorkersInStep' /\ Distinct'
  BY <1>1 DEF WorkersInStep, Distinct
<1>8. \A x : InFlight(x)' <=> InFlight(x)
  BY <1>1 DEF InFlight
<1>9. ~InFlight(Conn(c)) /\ \A w \in Workers : job[w] # Conn(c)
  BY <1>1 DEF OneConnection, InFlight
<1>10. OneConnection'
  BY <1>5, <1>8, <1>9 DEF OneConnection
<1>11. \A d \in Clients : Begun(d)' <=> Begun(d)
  <2>1. \A d \in Clients \ {c} : Begun(d)' <=> Begun(d)
    BY <1>1, <1>5 DEF Begun, Creating
  <2>2. Begun(c) <=> answer[c].kind = "id" \/ task_id[c] = c
    BY <1>9 DEF Begun
  <2>3. Begun(c)' <=> task_id'[c] = c
    BY <1>1, <1>5, <1>9 DEF Begun
  <2>4. answer[c].kind = "id" => task_id[c] = None
    BY DEF CalledOnce
  <2>5. c # Garbage /\ c # None
    BY SyncApiAssumption
  <2>6. Begun(c)' <=> Begun(c)
    BY <1>5, <2>2, <2>3, <2>4, <2>5
  <2> QED BY <2>1, <2>6
<1>12. CalledOnce'
  BY <1>1, <1>5, <1>8, <1>9, <1>11 DEF CalledOnce, Creating
<1>13. ReceivedIsLast'
  BY <1>1, <1>5, <1>8, <1>9 DEF ReceivedIsLast
<1>14. MapIsRight'
  BY <1>1, <1>5, <1>8, <1>11 DEF MapIsRight
<1> QED BY <1>6, <1>7, <1>10, <1>12, <1>13, <1>14

LEMMA TakeKeeps ==
  ASSUME IInv, NEW w \in Workers, Take(w)
  PROVE  IInv'
<1>1. /\ UNCHANGED <<client, task_id, answer, response_map, raced, race>>
      /\ job[w] = None
      /\ at' = [at EXCEPT ![w] = IF job'[w].kind = "sdk" THEN "sdk" ELSE "poll"]
  BY DEF Take, clientVars, raceVars, Pool!Take
<1>2. /\ Distinct' /\ queue' \in Seq(Connections \cup SdkCalls)
      /\ job'[w] \in Connections \cup SdkCalls
      /\ job' = [job EXCEPT ![w] = job'[w]]
      /\ \A x : x # None => (InFlight(x)' <=> InFlight(x))
  BY Taken DEF Take
<1>3. /\ \A v \in Workers \ {w} : at'[v] = at[v] /\ job'[v] = job[v]
      /\ at'[w] \in {"sdk", "poll"} /\ at[w] = "idle"
      /\ at'[w] = "sdk" <=> job'[w] \in SdkCalls
  <2>1. job'[w].kind = "sdk" <=> job'[w] \in SdkCalls
    BY <1>2, TaskFacts
  <2> QED BY <1>1, <1>2, <2>1 DEF TypeOK, WorkersInStep
<1>4. TypeOK'
  <2>1. job' \in [Workers -> Connections \cup SdkCalls \cup {None}]
    BY <1>2 DEF TypeOK
  <2>2. at' \in [Workers -> Steps]
    BY <1>1 DEF TypeOK, Steps
  <2> QED BY <1>1, <1>2, <2>1, <2>2 DEF TypeOK
<1>5. WorkersInStep'
  BY <1>1, <1>2, <1>3, TaskFacts DEF WorkersInStep
<1>6. \A d \in Clients : InFlight(Conn(d))' <=> InFlight(Conn(d))
  BY <1>2, TaskFacts
<1>7. \A d \in Clients : InFlight(Sdk(d))' <=> InFlight(Sdk(d))
  BY <1>2, TaskFacts
<1>8. OneConnection'
  BY <1>1, <1>6 DEF OneConnection
<1>9. \A d \in Clients : Begun(d)' <=> Begun(d)
  BY <1>1, <1>3 DEF Begun, Creating
<1>10. CalledOnce'
  BY <1>1, <1>3, <1>7, <1>9 DEF CalledOnce, Creating
<1>11. ReceivedIsLast'
  BY <1>1, <1>3, <1>7 DEF ReceivedIsLast
<1>12. MapIsRight'
  BY <1>1, <1>3, <1>7, <1>9 DEF MapIsRight
<1> QED BY <1>2, <1>4, <1>5, <1>8, <1>10, <1>11, <1>12

\* A worker that is busy and not with an SDK call serves a connection.
LEMMA PeerFacts ==
  ASSUME IInv, NEW w \in Workers, at[w] \notin {"idle", "sdk"}
  PROVE  Peer(w) \in Clients /\ job[w] = Conn(Peer(w))
BY TaskFacts DEF WorkersInStep, Peer

\* The end of a connection: what was answered, and how the map may have changed.
LEMMA ReplyKeeps ==
  ASSUME IInv, NEW w \in Workers, NEW c \in Clients, Peer(w) = c, job[w] = Conn(c),
         at[w] \in {"poll", "reply", "completed"},
         NEW a \in [kind : {"empty", "id", "pending", "completed"}, response : {"", Received}],
         Reply(w, a),
         a.kind = "id" <=> at[w] = "reply",
         a.kind = "completed" => at[w] = "completed" /\ (race' \/ a.response = Received),
         UNCHANGED <<client, task_id>>,
         response_map' \in [Ids -> {Absent, "", Received}],
         \A i \in Ids : response_map'[i] = Received <=> response_map[i] = Received,
         raced' \in SUBSET Workers, race' \in BOOLEAN, race => race', raced' # {} => race'
  PROVE  IInv'
<1>1. /\ answer' = [answer EXCEPT ![c] = a]
      /\ Pool!Finish(w) /\ at' = [at EXCEPT ![w] = "idle"]
  BY DEF Reply, Finish
<1>2. /\ Distinct' /\ queue' = queue
      /\ job' = [job EXCEPT ![w] = None]
      /\ \A x : x # None => (InFlight(x)' <=> InFlight(x) /\ x # Conn(c))
  BY <1>1, Finished
<1>3. /\ \A v \in Workers \ {w} : at'[v] = at[v] /\ job'[v] = job[v]
      /\ at'[w] = "idle" /\ job'[w] = None
      /\ \A d \in Clients \ {c} : answer'[d] = answer[d]
      /\ answer'[c] = a
  BY <1>1, <1>2 DEF TypeOK
<1>4. TypeOK'
  <2>1. answer' \in [Clients -> [kind : {"none", "empty", "id", "pending", "completed"},
                                response : {"", Received}]]
    BY <1>1 DEF TypeOK
  <2>2. job' \in [Workers -> Connections \cup SdkCalls \cup {None}]
    BY <1>2 DEF TypeOK
  <2>3. at' \in [Workers -> Steps]
    BY <1>1 DEF TypeOK, Steps
  <2> QED BY <1>2, <2>1, <2>2, <2>3 DEF TypeOK
<1>5. WorkersInStep'
  BY <1>3 DEF WorkersInStep
<1>6. InFlight(Conn(c)) /\ client[c] \in {"connected", "waiting"} /\ answer[c] = NoAnswer
  <2>1. InFlight(Conn(c))
    BY DEF InFlight
  <2> QED BY <2>1 DEF OneConnection
<1>7. \A v \in Workers \ {w} : job[v] # Conn(c)
  BY TasksDiffer DEF Distinct
<1>8. \A d \in Clients : InFlight(Sdk(d))' <=> InFlight(Sdk(d))
  BY <1>2, TasksDiffer
<1>9. \A d \in Clients : InFlight(Conn(d))' <=> InFlight(Conn(d)) /\ d # c
  BY <1>2, TasksDiffer
<1>10. OneConnection'
  BY <1>3, <1>6, <1>9 DEF OneConnection
<1>11. \A d \in Clients : Begun(d)' <=> Begun(d)
  <2>1. ASSUME NEW d \in Clients \ {c} PROVE Begun(d)' <=> Begun(d)
    <3>1. Conn(d) # None /\ Conn(d) # Conn(c) /\ answer'[d] = answer[d]
      BY <1>3, TasksDiffer
    <3>2. \A v \in Workers : job'[v] = Conn(d) <=> job[v] = Conn(d)
      BY <1>3, <3>1
    <3>3. \A v \in Workers : job[v] = Conn(d) => at'[v] = at[v]
      BY <1>3, <3>1
    <3> QED BY <3>1, <3>2, <3>3 DEF Begun, Creating
  <2>2. Begun(c) <=> at[w] = "reply" \/ task_id[c] = c
    <3>1. answer[c].kind # "id"
      BY <1>6, NoAnswerIsNone
    <3>2. \A v \in Workers : job[v] = Conn(c) <=> v = w
      BY <1>7
    <3>3. Begun(c) <=> Creating(w) \/ task_id[c] = c
      BY <3>1, <3>2 DEF Begun
    <3>4. CASE at[w] = "reply"
      BY <3>3, <3>4 DEF Creating
    <3>5. CASE at[w] \in {"poll", "completed"}
      BY <3>3, <3>5 DEF Creating
    <3> QED BY <3>4, <3>5
  <2>3. \A v \in Workers : job'[v] # Conn(c)
    BY <1>3, <1>7, TasksDiffer
  <2>4. Begun(c)' <=> a.kind = "id" \/ task_id[c] = c
    BY <1>3, <2>3 DEF Begun
  <2> QED BY <2>1, <2>2, <2>4
<1>12. \A d \in Clients, v \in Workers :
         job'[v] = Conn(d) => v # w /\ d # c /\ job[v] = Conn(d) /\ at'[v] = at[v]
  BY <1>3, <1>7, TasksDiffer
<1>13. CalledOnce'
  <2>1. at[w] = "reply" => task_id[c] = None
    BY DEF CalledOnce, Creating
  <2>2. \A d \in Clients : InFlight(Sdk(d))' \/ response_map'[d] = Received => Begun(d)'
    BY <1>8, <1>11 DEF CalledOnce, Ids
  <2>3. \A d \in Clients : answer'[d].kind = "id" => task_id[d] = None
    BY <1>3, <2>1 DEF CalledOnce
  <2>4. \A v \in Workers, d \in Clients : job'[v] = Conn(d) /\ Creating(v)' => task_id[d] = None
    BY <1>12 DEF CalledOnce, Creating
  <2> QED BY <2>2, <2>3, <2>4 DEF CalledOnce
<1>14. ReceivedIsLast'
  <2>1. response_map'[Garbage] # Received
    BY DEF ReceivedIsLast, Ids
  <2>2. \A d \in Clients : response_map'[d] = Received => ~InFlight(Sdk(d))'
    BY <1>8 DEF ReceivedIsLast, Ids
  <2>3. a.kind = "completed" => task_id[c] = c /\ ~InFlight(Sdk(c))
    BY DEF ReceivedIsLast
  <2>4. \A d \in Clients : answer'[d].kind = "completed" =>
          task_id[d] = d /\ ~InFlight(Sdk(d))'
    BY <1>3, <1>8, <2>3 DEF ReceivedIsLast
  <2>5. ASSUME NEW v \in Workers, NEW d \in Clients,
               job'[v] = Conn(d), at'[v] = "completed"
        PROVE  task_id[d] = d /\ ~InFlight(Sdk(d))'
    <3>1. job[v] = Conn(d) /\ at[v] = "completed"
      BY <1>12, <2>5
    <3>2. task_id[d] = d /\ ~InFlight(Sdk(d))
      BY <3>1 DEF ReceivedIsLast
    <3> QED BY <1>8, <3>2
  <2>6. \A v \in Workers, d \in Clients :
          job'[v] = Conn(d) /\ at'[v] \in {"insert", "inserting"} => InFlight(Sdk(d))'
    BY <1>8, <1>12 DEF ReceivedIsLast
  <2> QED BY <2>1, <2>2, <2>4, <2>5, <2>6 DEF ReceivedIsLast
<1>15. MapIsRight'
  <2> SUFFICES ASSUME ~race' PROVE MapIsRight'
    BY DEF MapIsRight
  <2>1. ~race
    OBVIOUS
  <2>2. \A d \in Clients : answer'[d].kind = "completed" => answer'[d].response = Received
    BY <1>3, <2>1 DEF MapIsRight
  <2>3. \A v \in Workers, d \in Clients : job'[v] = Conn(d) /\ at'[v] = "completed" =>
          response_map'[d] = Received
    BY <1>12, <2>1 DEF MapIsRight, Ids
  <2>4. \A d \in Clients : Begun(d)' => InFlight(Sdk(d))' \/ response_map'[d] = Received
    BY <1>8, <1>11, <2>1 DEF MapIsRight, Ids
  <2> QED BY <2>2, <2>3, <2>4 DEF MapIsRight
<1> QED BY <1>2, <1>4, <1>5, <1>10, <1>13, <1>14, <1>15

\* Two workers at the map are a race from then on.
LEMMA RaceGrows ==
  ASSUME TypeInv, NEW w \in Workers,
         raced' = (raced \cup (Inserting \ {w})) \ {w},
         race' = (race \/ Inserting \ {w} # {})
  PROVE  /\ raced' \in SUBSET Workers /\ race' \in BOOLEAN
         /\ race => race'
         /\ raced' # {} => race'
         /\ Inserting \ {w} # {} \/ w \in raced => race'
<1>1. raced \in SUBSET Workers /\ race \in BOOLEAN /\ (raced # {} => race)
  BY DEF TypeOK, WorkersInStep
<1>2. Inserting \subseteq Workers
  BY DEF Inserting
<1> QED BY <1>1, <1>2

\* A step within a connection: the next line of its handler.
LEMMA MoveKeeps ==
  ASSUME IInv, NEW w \in Workers, NEW c \in Clients, job[w] = Conn(c),
         NEW s \in {"inserting", "reply", "completed"},
         at' = [at EXCEPT ![w] = s],
         at[w] \in {"poll", "insert", "inserting"},
         s = "completed" => at[w] = "poll" /\ task_id[c] = c /\ response_map[c] = Received,
         s = "inserting" => at[w] = "insert",
         s = "reply" => at[w] = "inserting",
         UNCHANGED <<client, task_id, answer, queue, job>>,
         response_map' \in [Ids -> {Absent, "", Received}],
         \A i \in Ids : response_map'[i] = Received <=> response_map[i] = Received,
         raced' \in SUBSET Workers, race' \in BOOLEAN, race => race', raced' # {} => race'
  PROVE  IInv'
<1>1. /\ \A v \in Workers \ {w} : at'[v] = at[v]
      /\ at'[w] = s
  BY DEF TypeOK
<1>2. TypeOK'
  <2>1. at' \in [Workers -> Steps]
    BY DEF TypeOK, Steps
  <2> QED BY <2>1 DEF TypeOK
<1>3. Distinct'
  BY DEF Distinct
<1>4. WorkersInStep'
  BY <1>1 DEF WorkersInStep
<1>5. \A x : InFlight(x)' <=> InFlight(x)
  BY DEF InFlight
<1>6. OneConnection'
  BY <1>5 DEF OneConnection
<1>7. \A v \in Workers : Creating(v)' <=> Creating(v)
  <2>1. Creating(w)' <=> Creating(w)
    BY <1>1 DEF Creating
  <2> QED BY <1>1, <2>1 DEF Creating
<1>8. \A d \in Clients : Begun(d)' <=> Begun(d)
  BY <1>7 DEF Begun
<1>9. \A d \in Clients : job[w] = Conn(d) => d = c
  BY TasksDiffer
<1>10. CalledOnce'
  <2>1. \A d \in Clients : InFlight(Sdk(d))' \/ response_map'[d] = Received => Begun(d)'
    BY <1>5, <1>8 DEF CalledOnce, Ids
  <2>2. \A v \in Workers, d \in Clients : job'[v] = Conn(d) /\ Creating(v)' => task_id[d] = None
    BY <1>7 DEF CalledOnce
  <2> QED BY <2>1, <2>2 DEF CalledOnce
<1>11. ReceivedIsLast'
  <2>1. response_map'[Garbage] # Received
    BY DEF ReceivedIsLast, Ids
  <2>2. \A d \in Clients : response_map'[d] = Received => ~InFlight(Sdk(d))'
    BY <1>5 DEF ReceivedIsLast, Ids
  <2>3. \A d \in Clients : answer'[d].kind = "completed" =>
          task_id[d] = d /\ ~InFlight(Sdk(d))'
    BY <1>5 DEF ReceivedIsLast
  <2>4. ASSUME NEW v \in Workers, NEW d \in Clients,
               job[v] = Conn(d), at'[v] = "completed"
        PROVE  task_id[d] = d /\ ~InFlight(Sdk(d))
    <3>1. CASE v = w
      <4>1. d = c /\ s = "completed"
        BY <1>1, <1>9, <2>4, <3>1
      <4> QED BY <4>1 DEF ReceivedIsLast
    <3>2. CASE v # w
      BY <1>1, <2>4, <3>2 DEF ReceivedIsLast
    <3> QED BY <3>1, <3>2
  <2>5. ASSUME NEW v \in Workers, NEW d \in Clients,
               job[v] = Conn(d), at'[v] \in {"insert", "inserting"}
        PROVE  InFlight(Sdk(d))
    <3>1. CASE v = w
      BY <1>1, <2>5, <3>1 DEF ReceivedIsLast
    <3>2. CASE v # w
      BY <1>1, <2>5, <3>2 DEF ReceivedIsLast
    <3> QED BY <3>1, <3>2
  <2>6. \A v \in Workers, d \in Clients : job'[v] = Conn(d) /\ at'[v] = "completed" =>
          task_id[d] = d /\ ~InFlight(Sdk(d))'
    BY <1>5, <2>4
  <2>7. \A v \in Workers, d \in Clients :
          job'[v] = Conn(d) /\ at'[v] \in {"insert", "inserting"} => InFlight(Sdk(d))'
    BY <1>5, <2>5
  <2> QED BY <2>1, <2>2, <2>3, <2>6, <2>7 DEF ReceivedIsLast
<1>12. MapIsRight'
  <2> SUFFICES ASSUME ~race' PROVE MapIsRight'
    BY DEF MapIsRight
  <2>1. ~race
    OBVIOUS
  <2>2. ASSUME NEW v \in Workers, NEW d \in Clients,
               job[v] = Conn(d), at'[v] = "completed"
        PROVE  response_map'[d] = Received
    <3>1. CASE v = w
      <4>1. d = c /\ s = "completed"
        BY <1>1, <1>9, <2>2, <3>1
      <4> QED BY <4>1 DEF Ids
    <3>2. CASE v # w
      <4>1. response_map[d] = Received
        BY <1>1, <2>1, <2>2, <3>2 DEF MapIsRight
      <4> QED BY <4>1 DEF Ids
    <3> QED BY <3>1, <3>2
  <2>3. \A d \in Clients : Begun(d)' => InFlight(Sdk(d))' \/ response_map'[d] = Received
    BY <1>5, <1>8, <2>1 DEF MapIsRight, Ids
  <2>4. \A d \in Clients : answer'[d].kind = "completed" => answer'[d].response = Received
    BY <2>1 DEF MapIsRight
  <2> QED BY <2>2, <2>3, <2>4 DEF MapIsRight
<1> QED BY <1>2, <1>3, <1>4, <1>6, <1>10, <1>11, <1>12

\* The CONNECT is the first that the server sees of its client.
LEMMA HandleConnectKeeps ==
  ASSUME IInv, NEW w \in Workers, HandleConnect(w)
  PROVE  IInv'
<1>1. PICK c \in Clients : Peer(w) = c /\ job[w] = Conn(c)
  BY PeerFacts DEF HandleConnect
<1>2. /\ UNCHANGED <<client, task_id, answer, response_map, job, raced, race>>
      /\ at[w] = "poll" /\ task_id[c] = None
      /\ queue' = Append(queue, Sdk(c))
      /\ at' = [at EXCEPT ![w] = "insert"]
  BY <1>1 DEF HandleConnect, clientVars, raceVars, Sdk
<1>3. answer[c] = NoAnswer
  <2>1. InFlight(Conn(c))
    BY <1>1 DEF InFlight
  <2> QED BY <2>1 DEF OneConnection
<1>4. \A v \in Workers : job[v] = Conn(c) <=> v = w
  BY <1>1, TasksDiffer DEF Distinct
<1>5. ~Begun(c)
  <2>1. answer[c].kind # "id"
    BY <1>3, NoAnswerIsNone
  <2>2. task_id[c] # c
    BY <1>2, SyncApiAssumption
  <2>3. ~Creating(w)
    BY <1>2 DEF Creating
  <2> QED BY <1>4, <2>1, <2>2, <2>3 DEF Begun
<1>6. ~InFlight(Sdk(c)) /\ response_map[c] # Received
  BY <1>5 DEF CalledOnce
<1>7. /\ Distinct' /\ queue' \in Seq(Connections \cup SdkCalls)
      /\ \A x : InFlight(x)' <=> InFlight(x) \/ x = Sdk(c)
  <2>1. Sdk(c) \in Connections \cup SdkCalls
    BY TaskFacts
  <2> QED BY <1>2, <1>6, <2>1, Pushed
<1>8. \A d \in Clients : InFlight(Conn(d))' <=> InFlight(Conn(d))
  BY <1>7, TasksDiffer
<1>9. \A d \in Clients : InFlight(Sdk(d))' <=> InFlight(Sdk(d)) \/ d = c
  BY <1>7, TasksDiffer
<1>10. at'[w] = "insert" /\ \A v \in Workers \ {w} : at'[v] = at[v]
  BY <1>2 DEF TypeOK
<1>11. TypeOK'
  <2>1. at' \in [Workers -> Steps]
    BY <1>2 DEF TypeOK, Steps
  <2> QED BY <1>2, <1>7, <2>1 DEF TypeOK
<1>12. WorkersInStep'
  BY <1>2, <1>10 DEF WorkersInStep
<1>13. OneConnection'
  BY <1>2, <1>8 DEF OneConnection
<1>14. \A d \in Clients : Begun(d)' <=> Begun(d) \/ d = c
  <2>1. Begun(c)'
    BY <1>1, <1>2, <1>10 DEF Begun, Creating
  <2>2. ASSUME NEW d \in Clients \ {c} PROVE Begun(d)' <=> Begun(d)
    <3>1. \A v \in Workers : job[v] = Conn(d) => at'[v] = at[v]
      BY <1>1, <1>10, TasksDiffer
    <3> QED BY <1>2, <3>1 DEF Begun, Creating
  <2> QED BY <2>1, <2>2
<1>15. CalledOnce'
  <2>1. \A d \in Clients : InFlight(Sdk(d))' \/ response_map'[d] = Received => Begun(d)'
    BY <1>2, <1>9, <1>14 DEF CalledOnce
  <2>2. ASSUME NEW v \in Workers, NEW d \in Clients, job[v] = Conn(d), Creating(v)'
        PROVE  task_id[d] = None
    <3>1. CASE v = w
      BY <1>1, <1>2, <2>2, <3>1, TasksDiffer
    <3>2. CASE v # w
      BY <1>10, <2>2, <3>2 DEF CalledOnce, Creating
    <3> QED BY <3>1, <3>2
  <2> QED BY <1>2, <2>1, <2>2 DEF CalledOnce
<1>16. ReceivedIsLast'
  <2>1. response_map'[Garbage] # Received
    BY <1>2 DEF ReceivedIsLast
  <2>2. \A d \in Clients : response_map'[d] = Received => ~InFlight(Sdk(d))'
    BY <1>2, <1>6, <1>9 DEF ReceivedIsLast
  <2>3. c # None
    BY SyncApiAssumption
  <2>4. \A d \in Clients : answer'[d].kind = "completed" =>
          task_id'[d] = d /\ ~InFlight(Sdk(d))'
    BY <1>2, <1>9, <2>3 DEF ReceivedIsLast
  <2>5. ASSUME NEW v \in Workers, NEW d \in Clients,
               job[v] = Conn(d), at'[v] = "completed"
        PROVE  task_id[d] = d /\ ~InFlight(Sdk(d))'
    <3>1. at[v] = "completed"
      BY <1>10, <2>5
    <3>2. task_id[d] = d /\ ~InFlight(Sdk(d))
      BY <2>5, <3>1 DEF ReceivedIsLast
    <3> QED BY <1>2, <1>9, <2>3, <3>2
  <2>6. ASSUME NEW v \in Workers, NEW d \in Clients,
               job[v] = Conn(d), at'[v] \in {"insert", "inserting"}
        PROVE  InFlight(Sdk(d))'
    <3>1. CASE v = w
      BY <1>1, <1>9, <2>6, <3>1, TasksDiffer
    <3>2. CASE v # w
      <4>1. at[v] \in {"insert", "inserting"}
        BY <1>10, <2>6, <3>2
      <4> QED BY <1>9, <2>6, <4>1 DEF ReceivedIsLast
    <3> QED BY <3>1, <3>2
  <2> QED BY <1>2, <2>1, <2>2, <2>4, <2>5, <2>6 DEF ReceivedIsLast
<1>17. MapIsRight'
  <2> SUFFICES ASSUME ~race PROVE MapIsRight'
    BY <1>2 DEF MapIsRight
  <2>1. \A d \in Clients : answer'[d].kind = "completed" => answer'[d].response = Received
    BY <1>2 DEF MapIsRight
  <2>2. \A v \in Workers, d \in Clients : job'[v] = Conn(d) /\ at'[v] = "completed" =>
          response_map'[d] = Received
    BY <1>2, <1>10 DEF MapIsRight
  <2>3. \A d \in Clients : Begun(d)' => InFlight(Sdk(d))' \/ response_map'[d] = Received
    BY <1>2, <1>9, <1>14 DEF MapIsRight
  <2> QED BY <2>1, <2>2, <2>3 DEF MapIsRight
<1> QED BY <1>7, <1>11, <1>12, <1>13, <1>15, <1>16, <1>17

\* The insertion: as long as it lasts the SDK call has not stored a response.
LEMMA InsertKeeps ==
  ASSUME IInv, NEW w \in Workers, BeginInsert(w) \/ EndInsert(w)
  PROVE  IInv'
<1>1. PICK c \in Clients : Peer(w) = c /\ job[w] = Conn(c)
  BY PeerFacts DEF BeginInsert, EndInsert
<1>2. CASE BeginInsert(w)
  <2>1. /\ at[w] = "insert" /\ at' = [at EXCEPT ![w] = "inserting"]
        /\ raced' = IF Inserting = {} THEN raced ELSE raced \cup Inserting \cup {w}
        /\ race' = (race \/ Inserting # {})
        /\ UNCHANGED <<client, task_id, answer, response_map, queue, job>>
    BY <1>2 DEF BeginInsert, clientVars
  <2>2. /\ raced' \in SUBSET Workers /\ race' \in BOOLEAN
        /\ race => race'
        /\ raced' # {} => race'
    BY <2>1 DEF TypeOK, WorkersInStep, Inserting
  <2>3. response_map' \in [Ids -> {Absent, "", Received}]
    BY <2>1 DEF TypeOK
  <2> QED BY <1>1, <2>1, <2>2, <2>3, MoveKeeps
<1>3. CASE EndInsert(w)
  <2>1. /\ at[w] = "inserting" /\ at' = [at EXCEPT ![w] = "reply"]
        /\ response_map' = [response_map EXCEPT ![c] = ""] \/ response_map' = response_map
        /\ raced' = (raced \cup (Inserting \ {w})) \ {w}
        /\ race' = (race \/ Inserting \ {w} # {})
        /\ UNCHANGED <<client, task_id, answer, queue, job>>
    BY <1>1, <1>3 DEF EndInsert, Racing, clientVars
  <2>2. /\ raced' \in SUBSET Workers /\ race' \in BOOLEAN
        /\ race => race'
        /\ raced' # {} => race'
    BY <2>1, RaceGrows
  <2>3. response_map[c] # Received
    BY <1>1, <2>1 DEF ReceivedIsLast
  <2>4. response_map' \in [Ids -> {Absent, "", Received}]
    BY <2>1 DEF TypeOK
  <2>5. \A i \in Ids : response_map'[i] = Received <=> response_map[i] = Received
    BY <2>1, <2>3 DEF TypeOK, Received
  <2> QED BY <1>1, <2>1, <2>2, <2>4, <2>5, MoveKeeps
<1> QED BY <1>2, <1>3

\* The pipeline gives up on a late client; the id is sent to a new one.
LEMMA GiveUpOrReplyIdKeeps ==
  ASSUME IInv, NEW w \in Workers, GiveUp(w) \/ ReplyId(w)
  PROVE  IInv'
<1>1. PICK c \in Clients : Peer(w) = c /\ job[w] = Conn(c)
  BY PeerFacts DEF GiveUp, ReplyId
<1>2. PICK k \in {"empty", "id"} :
        /\ Reply(w, Answer(k))
        /\ at[w] \in {"poll", "reply"} /\ (k = "id" <=> at[w] = "reply")
  BY DEF GiveUp, ReplyId
<1>3. UNCHANGED <<client, task_id, response_map, raced, race>>
  BY DEF GiveUp, ReplyId, clientVars, raceVars
<1>4. PICK a : a = Answer(k)
  OBVIOUS
<1>5. /\ a \in [kind : {"empty", "id", "pending", "completed"}, response : {"", Received}]
      /\ a.kind = k
  BY <1>4 DEF Answer
<1>6. /\ raced' \in SUBSET Workers /\ race' \in BOOLEAN
      /\ response_map' \in [Ids -> {Absent, "", Received}]
      /\ raced' # {} => race'
  BY <1>3 DEF TypeOK, WorkersInStep
<1>7. /\ Reply(w, a)
      /\ at[w] \in {"poll", "reply", "completed"}
      /\ (a.kind = "id" <=> at[w] = "reply") /\ a.kind # "completed"
  BY <1>2, <1>4, <1>5
<1> QED BY <1>1, <1>3, <1>5, <1>6, <1>7, ReplyKeeps

\* "completed" is said of an id whose response is in the map.
LEMMA HandleCheckKeeps ==
  ASSUME IInv, NEW w \in Workers, HandleCheck(w)
  PROVE  IInv'
<1>1. PICK c \in Clients : Peer(w) = c /\ job[w] = Conn(c)
  BY PeerFacts DEF HandleCheck
<1>2. PICK id \in Ids : id = task_id[c]
  BY <1>1 DEF HandleCheck, TypeOK
<1>3. /\ at[w] = "poll"
      /\ raced' = (raced \cup (Inserting \ {w})) \ {w}
      /\ race' = (race \/ Inserting \ {w} # {})
      /\ UNCHANGED <<client, task_id>>
  BY DEF HandleCheck, Racing, clientVars
<1>4. /\ raced' \in SUBSET Workers /\ race' \in BOOLEAN
      /\ race => race'
      /\ raced' # {} => race'
  BY <1>3, RaceGrows
<1>5. \/ /\ response_map[id] = Received
         /\ at' = [at EXCEPT ![w] = "completed"]
         /\ UNCHANGED <<answer, response_map, queue, job>>
      \/ /\ Reply(w, Answer("pending"))
         /\ \/ response_map' = response_map
            \/ /\ response_map[id] # Received
               /\ response_map' = [response_map EXCEPT ![id] =
                                     IF response_map[id] = Absent THEN "" ELSE response_map[id]]
  BY <1>1, <1>2 DEF HandleCheck, Racing
<1>6. CASE /\ response_map[id] = Received
           /\ at' = [at EXCEPT ![w] = "completed"]
           /\ UNCHANGED <<answer, response_map, queue, job>>
  <2>1. id # Garbage
    BY <1>6 DEF ReceivedIsLast
  <2>2. Begun(id) /\ id \in Clients
    BY <1>6, <2>1 DEF CalledOnce, Ids
  <2>3. id = c
    BY <1>2, <2>1, <2>2, SyncApiAssumption DEF OneConnection
  <2>4. response_map' \in [Ids -> {Absent, "", Received}]
    BY <1>6 DEF TypeOK
  <2> QED BY <1>1, <1>2, <1>3, <1>4, <1>6, <2>3, <2>4, MoveKeeps
<1>7. CASE /\ Reply(w, Answer("pending"))
           /\ \/ response_map' = response_map
              \/ /\ response_map[id] # Received
                 /\ response_map' = [response_map EXCEPT ![id] =
                                       IF response_map[id] = Absent THEN "" ELSE response_map[id]]
  <2>1. PICK a : a = Answer("pending")
    OBVIOUS
  <2>2. /\ a \in [kind : {"empty", "id", "pending", "completed"}, response : {"", Received}]
        /\ a.kind = "pending"
    BY <2>1 DEF Answer
  <2>3. Reply(w, a)
    BY <1>7, <2>1
  <2>4. response_map' \in [Ids -> {Absent, "", Received}]
    BY <1>7 DEF TypeOK, Absent, Received
  <2>5. \A i \in Ids : response_map'[i] = Received <=> response_map[i] = Received
    BY <1>7 DEF TypeOK, Received
  <2> QED BY <1>1, <1>3, <1>4, <2>2, <2>3, <2>4, <2>5, ReplyKeeps
<1> QED BY <1>5, <1>6, <1>7

\* The second look-up finds the response, unless there is a race.
LEMMA CopyResponseKeeps ==
  ASSUME IInv, NEW w \in Workers, CopyResponse(w)
  PROVE  IInv'
<1>1. PICK c \in Clients : Peer(w) = c /\ job[w] = Conn(c)
  BY PeerFacts DEF CopyResponse
<1>2. PICK r \in {"", Received} :
        /\ Reply(w, [kind |-> "completed", response |-> r])
        /\ Racing(w, r = response_map[task_id[Peer(w)]], r = "")
  BY DEF CopyResponse
<1>3. at[w] = "completed" /\ UNCHANGED <<client, task_id, response_map>>
  BY DEF CopyResponse, clientVars
<1>4. /\ raced' = (raced \cup (Inserting \ {w})) \ {w}
      /\ race' = (race \/ Inserting \ {w} # {})
  BY <1>2 DEF Racing
<1>5. /\ raced' \in SUBSET Workers /\ race' \in BOOLEAN
      /\ race => race'
      /\ raced' # {} => race'
      /\ Inserting \ {w} # {} \/ w \in raced => race'
  BY <1>4, RaceGrows
<1>6. race' \/ r = Received
  <2>1. task_id[c] = c
    BY <1>1, <1>3 DEF ReceivedIsLast
  <2>2. race \/ response_map[c] = Received
    BY <1>1, <1>3 DEF MapIsRight
  <2> QED BY <1>1, <1>2, <1>5, <2>1, <2>2 DEF Racing
<1>7. PICK a : a = [kind |-> "completed", response |-> r]
  OBVIOUS
<1>8. /\ a \in [kind : {"empty", "id", "pending", "completed"}, response : {"", Received}]
      /\ a.kind = "completed" /\ a.response = r
  BY <1>7
<1>9. response_map' \in [Ids -> {Absent, "", Received}]
  BY <1>3 DEF TypeOK
<1>10. Reply(w, a)
  BY <1>2, <1>7
<1> QED BY <1>1, <1>3, <1>5, <1>6, <1>8, <1>9, <1>10, ReplyKeeps

\* The call ends after the insertion of its id, and stores its response.
LEMMA SdkReturnsKeeps ==
  ASSUME IInv, NEW w \in Workers, SdkReturns(w)
  PROVE  IInv'
<1>1. PICK c \in Clients : Peer(w) = c /\ job[w] = Sdk(c)
  <2>1. job[w] \in SdkCalls
    BY DEF SdkReturns, WorkersInStep
  <2> QED BY <2>1, TaskFacts DEF Peer
<1>2. /\ at[w] = "sdk" /\ Pool!Finish(w)
      /\ at' = [at EXCEPT ![w] = "idle"]
      /\ UNCHANGED <<client, task_id, answer>>
      /\ raced' = (raced \cup (Inserting \ {w})) \ {w}
      /\ race' = (race \/ Inserting \ {w} # {})
  BY DEF SdkReturns, Finish, Racing, clientVars
<1>3. \A v \in Workers : at[v] \in {"insert", "inserting"} => job[v] # Conn(c)
  <2>1. \A v \in Workers : at[v] \in {"insert", "inserting"} => Peer(v) # c
    BY <1>1 DEF SdkReturns
  <2> QED BY <2>1, TaskFacts DEF Peer
<1>4. /\ raced' \in SUBSET Workers /\ race' \in BOOLEAN
      /\ race => race'
      /\ raced' # {} => race'
      /\ Inserting \ {w} # {} \/ w \in raced => race'
  BY <1>2, RaceGrows
<1>5. \/ response_map' = [response_map EXCEPT ![c] = Received]
      \/ response_map' = response_map /\ race'
  BY <1>1, <1>4 DEF SdkReturns, Racing
<1>6. /\ response_map' \in [Ids -> {Absent, "", Received}]
      /\ \A i \in Ids \ {c} : response_map'[i] = response_map[i]
      /\ race' \/ response_map'[c] = Received
  BY <1>5 DEF TypeOK, Ids
<1>7. /\ Distinct' /\ queue' = queue
      /\ job' = [job EXCEPT ![w] = None]
      /\ \A x : x # None => (InFlight(x)' <=> InFlight(x) /\ x # Sdk(c))
  BY <1>1, <1>2, Finished
<1>8. /\ \A v \in Workers \ {w} : at'[v] = at[v] /\ job'[v] = job[v]
      /\ at'[w] = "idle" /\ job'[w] = None
  BY <1>2, <1>7 DEF TypeOK
<1>9. TypeOK'
  <2>1. job' \in [Workers -> Connections \cup SdkCalls \cup {None}]
    BY <1>7 DEF TypeOK
  <2>2. at' \in [Workers -> Steps]
    BY <1>2 DEF TypeOK, Steps
  <2> QED BY <1>2, <1>4, <1>6, <1>7, <2>1, <2>2 DEF TypeOK
<1>10. WorkersInStep'
  BY <1>4, <1>8 DEF WorkersInStep
<1>11. \A d \in Clients : InFlight(Conn(d))' <=> InFlight(Conn(d))
  BY <1>7, TasksDiffer
<1>12. \A d \in Clients : InFlight(Sdk(d))' <=> InFlight(Sdk(d)) /\ d # c
  BY <1>7, TasksDiffer
<1>13. \A d \in Clients, v \in Workers :
         /\ job[v] = Conn(d) <=> job'[v] = Conn(d)
         /\ job[v] = Conn(d) => at'[v] = at[v]
  BY <1>1, <1>8, TasksDiffer
<1>14. OneConnection'
  BY <1>2, <1>11 DEF OneConnection
<1>15. \A d \in Clients : Begun(d)' <=> Begun(d)
  BY <1>2, <1>13 DEF Begun, Creating
<1>16. InFlight(Sdk(c)) /\ Begun(c)
  <2>1. InFlight(Sdk(c))
    BY <1>1 DEF InFlight
  <2> QED BY <2>1 DEF CalledOnce
<1>17. CalledOnce'
  <2>1. \A d \in Clients : InFlight(Sdk(d))' \/ response_map'[d] = Received => Begun(d)'
    BY <1>6, <1>12, <1>15, <1>16 DEF CalledOnce, Ids
  <2>2. \A v \in Workers, d \in Clients : job'[v] = Conn(d) /\ Creating(v)' => task_id[d] = None
    BY <1>13 DEF CalledOnce, Creating
  <2> QED BY <1>2, <2>1, <2>2 DEF CalledOnce
<1>18. ReceivedIsLast'
  <2>1. response_map'[Garbage] # Received
    BY <1>6, SyncApiAssumption DEF ReceivedIsLast, Ids
  <2>2. \A d \in Clients : response_map'[d] = Received => ~InFlight(Sdk(d))'
    BY <1>6, <1>12 DEF ReceivedIsLast, Ids
  <2>3. \A d \in Clients : answer'[d].kind = "completed" =>
          task_id'[d] = d /\ ~InFlight(Sdk(d))'
    BY <1>2, <1>12 DEF ReceivedIsLast
  <2>4. ASSUME NEW v \in Workers, NEW d \in Clients,
               job'[v] = Conn(d), at'[v] = "completed"
        PROVE  task_id'[d] = d /\ ~InFlight(Sdk(d))'
    <3>1. job[v] = Conn(d) /\ at[v] = "completed"
      BY <1>13, <2>4
    <3>2. task_id[d] = d /\ ~InFlight(Sdk(d))
      BY <3>1 DEF ReceivedIsLast
    <3> QED BY <1>2, <1>12, <3>2
  <2>5. ASSUME NEW v \in Workers, NEW d \in Clients,
               job'[v] = Conn(d), at'[v] \in {"insert", "inserting"}
        PROVE  InFlight(Sdk(d))'
    <3>1. job[v] = Conn(d) /\ at[v] \in {"insert", "inserting"}
      BY <1>13, <2>5
    <3>2. InFlight(Sdk(d)) /\ d # c
      BY <1>3, <3>1 DEF ReceivedIsLast
    <3> QED BY <1>12, <3>2
  <2> QED BY <2>1, <2>2, <2>3, <2>4, <2>5 DEF ReceivedIsLast
<1>19. MapIsRight'
  <2> SUFFICES ASSUME ~race' PROVE MapIsRight'
    BY DEF MapIsRight
  <2>1. ~race
    BY <1>4
  <2>2. \A d \in Clients : answer'[d].kind = "completed" => answer'[d].response = Received
    BY <1>2, <2>1 DEF MapIsRight
  <2>3. \A v \in Workers, d \in Clients : job'[v] = Conn(d) /\ at'[v] = "completed" =>
          response_map'[d] = Received
    BY <1>6, <1>13, <2>1 DEF MapIsRight, Ids
  <2>4. \A d \in Clients : Begun(d)' => InFlight(Sdk(d))' \/ response_map'[d] = Received
    BY <1>6, <1>12, <1>15, <2>1 DEF MapIsRight, Ids
  <2> QED BY <2>2, <2>3, <2>4 DEF MapIsRight
<1> QED BY <1>7, <1>9, <1>10, <1>14, <1>17, <1>18, <1>19

----------------------------------------------------------------------------
(***************************************************************************)
(* Invariance                                                              *)
(***************************************************************************)

LEMMA StutterKeeps ==
  ASSUME IInv, UNCHANGED vars
  PROVE  IInv'
<1>1. UNCHANGED <<client, task_id, answer, response_map, queue, job, at, raced, race>>
  BY DEF vars
<1>2. TypeOK' /\ WorkersInStep' /\ Distinct'
  BY <1>1 DEF TypeOK, WorkersInStep, Distinct
<1>3. \A x : InFlight(x)' <=> InFlight(x)
  BY <1>1 DEF InFlight
<1>4. OneConnection'
  BY <1>1, <1>3 DEF OneConnection
<1>5. CalledOnce' /\ ReceivedIsLast' /\ MapIsRight'
  BY <1>1, <1>3 DEF CalledOnce, ReceivedIsLast, MapIsRight, Begun, Creating
<1> QED BY <1>2, <1>4, <1>5

LEMMA NextKeeps ==
  ASSUME IInv, [Next]_vars
  PROVE  IInv'
<1>1. ASSUME NEW c \in Clients, Client(c) PROVE IInv'
  BY <1>1, ConnectKeeps, ReceiveKeeps DEF Client
<1>2. ASSUME NEW w \in Workers, Take(w) PROVE IInv'
  BY <1>2, TakeKeeps
<1>3. ASSUME NEW w \in Workers, Work(w) PROVE IInv'
  <2>1. CASE GiveUp(w) \/ ReplyId(w)
    BY <2>1, GiveUpOrReplyIdKeeps
  <2>2. CASE HandleConnect(w)
    BY <2>2, HandleConnectKeeps
  <2>3. CASE BeginInsert(w) \/ EndInsert(w)
    BY <2>3, InsertKeeps
  <2>4. CASE HandleCheck(w)
    BY <2>4, HandleCheckKeeps
  <2>5. CASE CopyResponse(w)
    BY <2>5, CopyResponseKeeps
  <2>6. CASE SdkReturns(w)
    BY <2>6, SdkReturnsKeeps
  <2> QED BY <1>3, <2>1, <2>2, <2>3, <2>4, <2>5, <2>6 DEF Work
<1> QED BY <1>1, <1>2, <1>3, StutterKeeps DEF Next

LEMMA InitHolds ==
  ASSUME Init
  PROVE  IInv
<1>1. /\ client = [c \in Clients |-> "start"]
      /\ task_id = [c \in Clients |-> None]
      /\ answer = [c \in Clients |-> NoAnswer]
      /\ response_map = [i \in Ids |-> Absent]
      /\ queue = <<>> /\ job = [w \in Workers |-> None]
      /\ at = [w \in Workers |-> "idle"]
      /\ raced = {} /\ race = FALSE
  BY DEF Init, Pool!Init
<1>2. queue \in Seq(Connections \cup SdkCalls) /\ Len(queue) = 0
  BY <1>1, EmptySeq
<1>3. TypeOK
  BY <1>1, <1>2 DEF TypeOK, Steps, NoAnswer
<1>4. WorkersInStep /\ Distinct
  BY <1>1, <1>2 DEF WorkersInStep, Distinct
<1>5. \A x : x # None => ~InFlight(x)
  BY <1>1, <1>2 DEF InFlight
<1>6. \A c \in Clients : /\ ~InFlight(Conn(c)) /\ ~InFlight(Sdk(c))
                        /\ answer[c].kind = "none" /\ task_id[c] = None
                        /\ c # None
  BY <1>1, <1>5, TasksDiffer, NoAnswerIsNone, SyncApiAssumption
<1>7. OneConnection
  BY <1>1, <1>6 DEF OneConnection
<1>8. \A w \in Workers, c \in Clients : job[w] # Conn(c)
  BY <1>1, TasksDiffer
<1>9. \A i \in Ids : response_map[i] # Received
  BY <1>1 DEF Absent, Received
<1>10. \A c \in Clients : ~Begun(c)
  BY <1>6, <1>8 DEF Begun
<1>11. CalledOnce /\ ReceivedIsLast /\ MapIsRight
  BY <1>6, <1>8, <1>9, <1>10 DEF CalledOnce, ReceivedIsLast, MapIsRight, Ids
<1> QED BY <1>3, <1>4, <1>7, <1>11

LEMMA InductiveInvariance == Spec => []IInv
<1>1. Init => IInv
  BY InitHolds
<1>2. IInv /\ [Next]_vars => IInv'
  BY NextKeeps
<1> QED BY <1>1, <1>2, PTL DEF Spec

(***************************************************************************)
(* SyncApiProtocolHandler says "completed" of calls that have returned,    *)
(* and copies what they returned unless two workers were at the map.       *)
(***************************************************************************)
THEOREM CompletedAfterTheCall == Spec => []CompletedIsTrue
<1>1. IInv => CompletedIsTrue
  <2> SUFFICES ASSUME IInv PROVE CompletedIsTrue
    OBVIOUS
  <2>1. CompletedIsEarned
    <3>1. \A c \in Clients : answer[c].kind = "completed" => ~InFlight(Task("sdk", c))
      BY DEF ReceivedIsLast, Sdk
    <3> QED BY <3>1 DEF CompletedIsEarned, InFlight
  <2>2. CompletedCarriesResponse
    BY DEF CompletedCarriesResponse, MapIsRight
  <2> QED BY <2>1, <2>2 DEF CompletedIsTrue
<1> QED BY <1>1, InductiveInvariance, PTL

(***************************************************************************)
(* As long as no two workers were at response_map together, the id that a  *)
(* client polls for has its result, or its call is queued or runs.         *)
(***************************************************************************)
THEOREM NoTaskIsForgotten == Spec => []PendingIsWorkedOn
<1>1. IInv => PendingIsWorkedOn
  <2> SUFFICES ASSUME IInv, ~race,
                      NEW c \in Clients, task_id[c] = c, response_map[c] # Received
               PROVE  InFlight(Task("sdk", c))
    BY DEF PendingIsWorkedOn, InFlight
  <2>1. Begun(c)
    BY DEF Begun
  <2> QED BY <2>1 DEF MapIsRight, Sdk
<1> QED BY <1>1, InductiveInvariance, PTL

(***************************************************************************)
(* The handler's workers use the pool as the queue that ThreadPool is shown*)
(* to implement: what they push is a connection, or the SDK call of the    *)
(* client that they serve (SyncApiProtocolHandler.cpp:32).                 *)
(***************************************************************************)
THEOREM TheHandlerUsesAWorkQueue == Spec => Pool!Spec
<1>1. Init => Pool!Init
  BY DEF Init
<1>2. IInv /\ [Next]_vars => [Pool!Next]_(Pool!wqVars)
  <2> SUFFICES ASSUME IInv, [Next]_vars
               PROVE  Pool!Next \/ UNCHANGED <<queue, job>>
    BY DEF Pool!wqVars
  <2>1. ASSUME NEW c \in Clients, Connect(c)
        PROVE  Pool!Submit
    <3>1. Task("connection", c) \in Connections
      BY DEF Task, Connections
    <3> QED BY <2>1, <3>1 DEF Connect, Pool!Submit
  <2>2. ASSUME NEW w \in Workers, HandleConnect(w)
        PROVE  Pool!Submit
    <3>1. job[w] \in Connections
      BY <2>2 DEF HandleConnect, IInv, WorkersInStep
    <3>2. Task("sdk", Peer(w)) \in SdkCalls
      BY <3>1 DEF Connections, SdkCalls, Task, Peer
    <3> QED BY <2>2, <3>2 DEF HandleConnect, Pool!Submit
  <2>3. ASSUME NEW w \in Workers, Take(w)
        PROVE  Pool!Take(w)
    BY <2>3 DEF Take
  <2>4. ASSUME NEW w \in Workers, \/ GiveUp(w) \/ ReplyId(w) \/ CopyResponse(w) \/ SdkReturns(w)
        PROVE  Pool!Finish(w)
    BY <2>4 DEF GiveUp, ReplyId, CopyResponse, SdkReturns, Reply, Finish
  <2>5. ASSUME NEW w \in Workers, HandleCheck(w)
        PROVE  Pool!Finish(w) \/ UNCHANGED <<queue, job>>
    BY <2>5 DEF HandleCheck, Racing, Reply, Finish
  <2>6. ASSUME NEW w \in Workers, BeginInsert(w) \/ EndInsert(w)
        PROVE  UNCHANGED <<queue, job>>
    BY <2>6 DEF BeginInsert, EndInsert
  <2>7. ASSUME NEW c \in Clients, ConnectThrows(c) \/ Send(c) \/ Receive(c)
        PROVE  UNCHANGED <<queue, job>>
    BY <2>7 DEF ConnectThrows, Send, Receive
  <2>8. CASE UNCHANGED vars
    BY <2>8 DEF vars
  <2> QED BY <2>1, <2>2, <2>3, <2>4, <2>5, <2>6, <2>7, <2>8
          DEF Next, Client, Work, Pool!Next
<1> QED BY <1>1, <1>2, InductiveInvariance, PTL DEF Spec, Pool!Spec
=============================================================================
