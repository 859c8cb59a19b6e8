-------------------------- MODULE ProtocolServerProofs --------------------------
(***************************************************************************)
(* Proofs that the protocol server serves every connection on its own      *)
(* descriptor and sends every answer home, for any number of listeners and *)
(* connections, as long as there is a worker for every task.               *)
(***************************************************************************)
EXTENDS ProtocolServerProps, FiniteSetTheorems, SequenceTheorems,
        WellFoundedInduction, TLAPS

(***************************************************************************)
(* A worker for every task there can be: one for each connection and one   *)
(* for each task that a handler pushes.                                    *)
(***************************************************************************)
EnoughWorkers == /\ IsFiniteSet(Workers)
                 /\ Cardinality(Workers) >= Cardinality(Clients) + Cardinality(Spawners)

\* A listener's task refers to its slot until a worker has made a copy.
Owed(l) == \/ \E i \in 1..Len(queue) : queue[i] = l
           \/ \E w \in Workers : job[w] = l /\ at[w] = "taken"

(***************************************************************************)
(* Where a worker is says what it works on, and a listener has one task at *)
(* a time that refers to its slot: the next is accepted after the copy.    *)
(***************************************************************************)
TasksInStep ==
  /\ \A w \in Workers :
       /\ at[w] = "idle" <=> job[w] = None
       /\ w \in Serving => job[w] \in Listeners
       /\ at[w] \in {"idle", "taken"} => retry[w] = 0
       /\ at[w] = "polling" => retry[w] < PollLimit
  /\ \A i, j \in 1..Len(queue) : queue[i] \in Listeners /\ queue[i] = queue[j] => i = j
  /\ \A v, w \in Workers :
       at[v] = "taken" /\ at[w] = "taken" /\ job[v] \in Listeners /\ job[v] = job[w] => v = w
  /\ \A i \in 1..Len(queue), w \in Workers :
       at[w] = "taken" /\ queue[i] \in Listeners => queue[i] # job[w]
  /\ \A l \in Listeners : listening[l] => ~Owed(l)

\* A connection waits in one place until it is accepted, and is accepted once.
Arrivals ==
  /\ \A l \in Listeners : \A i \in 1..Len(backlog[l]) : backlog[l][i] \in linked \ accepted
  /\ \A l, m \in Listeners : \A i \in 1..Len(backlog[l]), j \in 1..Len(backlog[m]) :
       backlog[l][i] = backlog[m][j] => l = m /\ i = j
  /\ accepted \subseteq linked

(***************************************************************************)
(* A descriptor in use belongs to one connection, and what a slot or a     *)
(* worker names with it is that connection; no two of them name one.       *)
(***************************************************************************)
Descriptors ==
  /\ \A f \in Fds : fds[f] # None => fds[f] \in accepted
  /\ \A f, g \in Fds : fds[f] # None /\ fds[f] = fds[g] => f = g
  /\ \A w \in Serving : /\ sock[w].fd \in Fds /\ sock[w].conn # None
                        /\ fds[sock[w].fd] = sock[w].conn
  /\ \A l \in Listeners : Owed(l) => /\ slot[l].fd \in Fds /\ slot[l].conn # None
                                     /\ fds[slot[l].fd] = slot[l].conn
  /\ \A v, w \in Serving : sock[v].conn = sock[w].conn => v = w
  /\ \A l, m \in Listeners : Owed(l) /\ Owed(m) /\ slot[l].conn = slot[m].conn => l = m
  /\ \A l \in Listeners, w \in Serving : Owed(l) => slot[l].conn # sock[w].conn

\* A request is unsent, on its way, or with the worker that serves its client.
Requests ==
  /\ \A w \in Workers : request[w] \subseteq IF w \in Serving THEN {sock[w].conn} ELSE {}
  /\ inbox \cap unsent = {}
  /\ \A w \in Workers : request[w] \cap (inbox \cup unsent) = {}

\* The requests that are still to be handled and will push a task.
Unhandled ==
  {c \in Spawners : \/ c \in unsent \cup inbox
                    \/ \E w \in Workers : c \in request[w] /\ at[w] # "closing"}

Busy == {w \in Workers : at[w] # "idle"}

\* There are never more tasks than connections and handlers that push one.
Load ==
  Len(queue) + Cardinality(Busy) + Cardinality(Clients \ accepted) + Cardinality(Unhandled)
    <= Cardinality(Clients) + Cardinality(Spawners)

IInv == /\ TypeOK /\ TasksInStep /\ Arrivals /\ Descriptors /\ Requests /\ Load
        /\ AnswersGoHome

----------------------------------------------------------------------------
(***************************************************************************)
(* The queue                                                               *)
(***************************************************************************)

\* The pool's queue after a push.
LEMMA Pushed ==
  ASSUME TypeOK, NEW t \in Listeners \cup {Background}, queue' = Append(queue, t)
  PROVE  /\ queue' \in Seq(Listeners \cup {Background})
         /\ Len(queue) \in Nat /\ Len(queue') = Len(queue) + 1
         /\ \A i \in 1..Len(queue') : i \in 1..Len(queue) \/ i = Len(queue) + 1
         /\ \A i \in 1..Len(queue) : i \in 1..Len(queue') /\ queue'[i] = queue[i]
         /\ Len(queue) + 1 \in 1..Len(queue') /\ queue'[Len(queue) + 1] = t
<1>1. queue \in Seq(Listeners \cup {Background}) /\ Len(queue) \in Nat
  BY LenProperties DEF TypeOK
<1>2. /\ queue' \in Seq(Listeners \cup {Background})
      /\ Len(queue') = Len(queue) + 1
      /\ \A i \in 1..Len(queue) : queue'[i] = queue[i]
      /\ queue'[Len(queue) + 1] = t
  BY <1>1, AppendProperties
<1> QED BY <1>1, <1>2

\* The pool's queue after a worker has taken the first task.
LEMMA Taken ==
  ASSUME TypeOK, NEW w \in Workers, Pool!Take(w)
  PROVE  /\ queue' \in Seq(Listeners \cup {Background})
         /\ Len(queue) \in Nat /\ Len(queue') = Len(queue) - 1
         /\ 1 \in 1..Len(queue) /\ queue[1] \in Listeners \cup {Background}
         /\ \A i \in 1..Len(queue') :
              i + 1 \in 1..Len(queue) /\ i + 1 # 1 /\ queue'[i] = queue[i + 1]
         /\ \A i \in 1..Len(queue) :
              i = 1 \/ (i - 1 \in 1..Len(queue') /\ queue'[i - 1] = queue[i])
         /\ job[w] = None /\ job' = [job EXCEPT ![w] = queue[1]]
<1>1. queue \in Seq(Listeners \cup {Background}) /\ Len(queue) \in Nat
  BY LenProperties DEF TypeOK
<1>2. queue # <<>> /\ queue' = Tail(queue) /\ job[w] = None
  BY DEF Pool!Take
<1>3. /\ queue' \in Seq(Listeners \cup {Background})
      /\ Len(queue') = Len(queue) - 1
      /\ \A i \in 1..Len(queue') : queue'[i] = queue[i + 1]
      /\ Head(queue) = queue[1]
  BY <1>1, <1>2, HeadTailProperties
<1>4. Len(queue) > 0
  BY <1>1, <1>2, EmptySeq
<1>5. queue[1] \in Listeners \cup {Background}
  BY <1>1, <1>4, ElementOfSeq
<1>6. /\ \A i \in 1..Len(queue') : i + 1 \in 1..Len(queue) /\ i + 1 # 1
      /\ \A i \in 1..Len(queue) : i = 1 \/ (i - 1 \in 1..Len(queue') /\ (i - 1) + 1 = i)
      /\ 1 \in 1..Len(queue)
  BY <1>1, <1>3, <1>4
<1>7. job' = [job EXCEPT ![w] = queue[1]]
  BY <1>3 DEF Pool!Take
<1> QED BY <1>1, <1>2, <1>3, <1>5, <1>6, <1>7

----------------------------------------------------------------------------
(***************************************************************************)
(* The lowest free descriptor                                              *)
(***************************************************************************)

LEMMA MinIsElement ==
  ASSUME NEW S \in SUBSET Nat, S # {}
  PROVE  Min(S) \in S
<1>1. IsWellFoundedOn(OpToRel(<, Nat), Nat)
  BY NatLessThanWellFounded, Zenon
<1>2. PICK x \in S : \A y \in S : ~ (<<y, x>> \in OpToRel(<, Nat))
  BY <1>1, WFMin, Zenon
<1>3. \A y \in S : ~ (y < x)
  BY <1>2 DEF OpToRel
<1>4. \A y \in S : x <= y
  BY <1>3
<1> QED BY <1>4 DEF Min

\* A connection that is not accepted yet leaves a descriptor free for it.
LEMMA SomeFdIsFree ==
  ASSUME TypeOK, Descriptors, NEW c \in Clients \ accepted
  PROVE  FreeFd \in Fds /\ fds[FreeFd] = None
<1>1. /\ IsFiniteSet(Clients) /\ Cardinality(Clients) \in Nat
      /\ accepted \subseteq Clients \ {c}
  BY ServerAssumption, FS_CardinalityType DEF TypeOK
<1>2. /\ IsFiniteSet(accepted) /\ Cardinality(accepted) \in Nat
      /\ Cardinality(accepted) <= Cardinality(Clients) - 1
  <2>1. IsFiniteSet(Clients \ {c}) /\ Cardinality(Clients \ {c}) = Cardinality(Clients) - 1
    BY <1>1, FS_RemoveElement
  <2> QED BY <1>1, <2>1, FS_Subset, FS_CardinalityType
<1>3. Cardinality(Fds) = Cardinality(Clients)
  BY <1>1, FS_Interval DEF Fds
<1>4. ~ \A f \in Fds : fds[f] # None
  <2> SUFFICES ASSUME \A f \in Fds : fds[f] # None PROVE FALSE
    OBVIOUS
  <2>1. fds \in [Fds -> accepted]
    BY DEF TypeOK, Descriptors
  <2>2. fds \in Injection(Fds, accepted)
    BY <2>1 DEF Descriptors, Injection, IsInjective
  <2>3. Cardinality(Fds) <= Cardinality(accepted)
    BY <1>2, <2>2, FS_Injection
  <2> QED BY <1>1, <1>2, <1>3, <2>3
<1>5. {f \in Fds : fds[f] = None} \in SUBSET Nat /\ {f \in Fds : fds[f] = None} # {}
  BY <1>4 DEF Fds
<1>6. FreeFd \in {f \in Fds : fds[f] = None}
  BY <1>5, MinIsElement DEF FreeFd
<1> QED BY <1>6

----------------------------------------------------------------------------
(***************************************************************************)
(* Types                                                                   *)
(***************************************************************************)

\* The connection behind a serving worker's descriptor is the one it serves.
LEMMA PeerIsOwn ==
  ASSUME TypeOK, Descriptors, NEW w \in Serving
  PROVE  /\ w \in Workers /\ sock[w].fd \in Fds /\ sock[w].conn \in Clients
         /\ Peer(w) = sock[w].conn /\ Peer(w) \in Clients /\ Peer(w) # None
         /\ Peer(w) \in accepted
<1>1. w \in Workers /\ fds \in [Fds -> Clients \cup {None}]
  BY DEF Serving, TypeOK
<1>2. sock[w].fd \in Fds /\ sock[w].conn # None /\ fds[sock[w].fd] = sock[w].conn
  BY DEF Descriptors
<1>3. fds[sock[w].fd] \in accepted
  BY <1>2 DEF Descriptors
<1> QED BY <1>1, <1>2, <1>3 DEF Peer

LEMMA AcceptType ==
  ASSUME IInv, NEW l \in Listeners, Accept(l)
  PROVE  TypeOK'
<1>1. TypeOK /\ backlog[l] \in Seq(Clients) /\ backlog[l] # <<>>
  BY DEF IInv, TypeOK, Accept
<1>2. PICK c \in Clients : c = Head(backlog[l])
  BY <1>1, HeadTailProperties
<1>3. Tail(backlog[l]) \in Seq(Clients)
  BY <1>1, HeadTailProperties
<1>4. c \notin accepted
  <2>1. 1 \in 1..Len(backlog[l]) /\ backlog[l][1] = c
    BY <1>1, <1>2, HeadTailProperties, EmptySeq, LenProperties
  <2> QED BY <2>1 DEF IInv, Arrivals
<1>5. PICK f \in Fds : f = FreeFd
  BY <1>1, <1>4, SomeFdIsFree DEF IInv
<1>6. queue' \in Seq(Listeners \cup {Background})
  BY <1>1, Pushed DEF Accept
<1>7. /\ fds' = [fds EXCEPT ![f] = c]
      /\ slot' = [slot EXCEPT ![l] = [fd |-> f, conn |-> c]]
      /\ accepted' = accepted \cup {c}
      /\ backlog' = [backlog EXCEPT ![l] = Tail(backlog[l])]
      /\ listening' = [listening EXCEPT ![l] = FALSE]
      /\ UNCHANGED <<up, opened, job, at, sock, request, retry, linked, unsent, hungUp,
                     inbox, ended, replies>>
  BY <1>1, <1>2, <1>5 DEF Accept, serverVars, workVars, clientVars
<1>8. slot' \in [Listeners -> Sockets]
  BY <1>1, <1>7 DEF TypeOK, Sockets
<1>9. backlog' \in [Listeners -> Seq(Clients)]
  BY <1>1, <1>3, <1>7 DEF TypeOK
<1>10. fds' \in [Fds -> Clients \cup {None}] /\ listening' \in [Listeners -> BOOLEAN]
  BY <1>1, <1>7 DEF TypeOK
<1> QED BY <1>1, <1>6, <1>7, <1>8, <1>9, <1>10 DEF TypeOK

\* What the clients do, and main() and the listeners apart from accepting.
LEMMA OutsideType ==
  ASSUME IInv,
         \/ \E c \in Clients : (\E l \in Listeners : Connect(c, l)) \/ SendRequest(c) \/ HangUp(c)
         \/ \E l \in Listeners : Open(l) \/ AcceptThrows(l) \/ SleepElapsed(l)
  PROVE  TypeOK'
<1> USE DEF IInv, serverVars, workVars, clientVars
<1>1. ASSUME NEW c \in Clients, NEW l \in Listeners, Connect(c, l) PROVE TypeOK'
  <2>1. Append(backlog[l], c) \in Seq(Clients)
    BY AppendProperties DEF TypeOK
  <2>2. backlog' \in [Listeners -> Seq(Clients)] /\ linked' \subseteq Clients
    BY <1>1, <2>1 DEF Connect, TypeOK
  <2> QED BY <1>1, <2>2 DEF Connect, TypeOK
<1>2. ASSUME NEW c \in Clients, SendRequest(c) \/ HangUp(c) PROVE TypeOK'
  <2>1. inbox' \subseteq Clients /\ unsent' \subseteq Clients /\ hungUp' \subseteq Clients
    BY <1>2 DEF SendRequest, HangUp, TypeOK
  <2> QED BY <1>2, <2>1 DEF SendRequest, HangUp, TypeOK
<1>3. ASSUME NEW l \in Listeners, Open(l) \/ AcceptThrows(l) PROVE TypeOK'
  BY <1>3 DEF Open, AcceptThrows, TypeOK
<1>4. ASSUME NEW l \in Listeners, SleepElapsed(l) PROVE TypeOK'
  BY <1>4 DEF SleepElapsed, TypeOK
<1> QED BY <1>1, <1>2, <1>3, <1>4

LEMMA WorkerType ==
  ASSUME IInv, NEW w \in Workers, Take(w) \/ Work(w)
  PROVE  TypeOK'
<1> USE DEF serverVars, workVars, clientVars
<1>0. TypeOK
  BY DEF IInv
<1>1. CASE Take(w)
  <2>1. queue' \in Seq(Listeners \cup {Background}) /\ job' = [job EXCEPT ![w] = queue[1]]
        /\ queue[1] \in Listeners \cup {Background}
    BY <1>0, <1>1, Taken DEF Take
  <2> QED BY <1>0, <1>1, <2>1 DEF Take, TypeOK
<1>2. CASE CopyClientData(w)
  <2>1. sock' \in [Workers -> Sockets]
    BY <1>0, <1>2 DEF CopyClientData, TypeOK
  <2>2. at' \in [Workers -> {"idle", "taken", "polling", "responding", "closing"}]
    BY <1>0, <1>2 DEF CopyClientData, TypeOK
  <2> QED BY <1>0, <1>2, <2>1, <2>2 DEF CopyClientData, TypeOK
<1>3. CASE FinishBackground(w)
  BY <1>0, <1>3 DEF FinishBackground, Pool!Finish, TypeOK
<1>4. CASE PollData(w)
  <2>1. inbox \subseteq Clients
    BY <1>0 DEF TypeOK
  <2>2. Peer(w) \in Clients
    BY <1>4, <2>1 DEF PollData
  <2>3. request' \in [Workers -> SUBSET Clients]
    BY <1>0, <1>4, <2>2 DEF PollData, TypeOK
  <2> QED BY <1>0, <1>4, <2>3 DEF PollData, TypeOK
<1>5. CASE PollEnd(w)
  BY <1>0, <1>5 DEF PollEnd, TypeOK
<1>6. CASE PollNothing(w)
  <2>1. retry[w] \in 0..PollLimit /\ retry[w] < PollLimit
    BY <1>0, <1>6 DEF PollNothing, TypeOK, IInv, TasksInStep
  <2>2. retry' \in [Workers -> 0..PollLimit]
    BY <1>0, <1>6, <2>1, ServerAssumption DEF PollNothing, TypeOK
  <2>3. at' \in [Workers -> {"idle", "taken", "polling", "responding", "closing"}]
    BY <1>0, <1>6 DEF PollNothing, TypeOK
  <2> QED BY <1>0, <1>6, <2>2, <2>3 DEF PollNothing, TypeOK
<1>7. CASE Respond(w)
  <2>1. Peer(w) \in Clients /\ request[w] \subseteq Clients
    BY <1>0, <1>7, PeerIsOwn DEF IInv, Respond, Serving, TypeOK
  <2>2. queue' \in Seq(Listeners \cup {Background})
    <3>1. CASE queue' = queue
      BY <1>0, <3>1 DEF TypeOK
    <3>2. CASE queue' = Append(queue, Background)
      BY <1>0, <3>2, Pushed
    <3> QED BY <1>7, <3>1, <3>2 DEF Respond
  <2>3. replies' \in SUBSET (Clients \X Clients)
    BY <1>0, <1>7, <2>1 DEF Respond, TypeOK
  <2>4. at' \in [Workers -> {"idle", "taken", "polling", "responding", "closing"}]
    BY <1>0, <1>7 DEF Respond, TypeOK
  <2>5. UNCHANGED <<up, opened, backlog, listening, slot, fds, job, sock, request, retry,
                    linked, unsent, hungUp, inbox, accepted, ended>>
    BY <1>7 DEF Respond
  <2> QED BY <1>0, <2>2, <2>3, <2>4, <2>5 DEF TypeOK
<1>8. CASE SendKills(w)
  BY <1>0, <1>8 DEF SendKills, TypeOK
<1>9. CASE CloseSocket(w)
  <2>1. Peer(w) \in Clients
    BY <1>0, <1>9, PeerIsOwn DEF IInv, CloseSocket, Serving
  <2>2. fds' \in [Fds -> Clients \cup {None}] /\ job' \in [Workers -> Listeners \cup {Background, None}]
    BY <1>0, <1>9 DEF CloseSocket, Pool!Finish, TypeOK
  <2>3. sock' \in [Workers -> Sockets]
    BY <1>0, <1>9 DEF CloseSocket, TypeOK, NoSocket, Sockets
  <2>4. /\ request' \in [Workers -> SUBSET Clients] /\ retry' \in [Workers -> 0..PollLimit]
        /\ at' \in [Workers -> {"idle", "taken", "polling", "responding", "closing"}]
    BY <1>0, <1>9, ServerAssumption DEF CloseSocket, TypeOK
  <2>5. ended' \subseteq Clients /\ inbox' \subseteq Clients
    BY <1>0, <1>9, <2>1 DEF CloseSocket, TypeOK
  <2> QED BY <1>0, <1>9, <2>2, <2>3, <2>4, <2>5 DEF CloseSocket, Pool!Finish, TypeOK
<1> QED BY <1>1, <1>2, <1>3, <1>4, <1>5, <1>6, <1>7, <1>8, <1>9 DEF Work

----------------------------------------------------------------------------
(***************************************************************************)
(* Which listeners' tasks still refer to their slots                       *)
(***************************************************************************)

LEMMA OwedAfterPush ==
  ASSUME TypeOK, NEW t \in Listeners \cup {Background}, queue' = Append(queue, t),
         job' = job, \A w \in Workers : at'[w] = "taken" <=> at[w] = "taken"
  PROVE  \A m : Owed(m)' <=> Owed(m) \/ m = t
<1>1. \A m : (\E i \in 1..Len(queue') : queue'[i] = m)
             <=> (\E i \in 1..Len(queue) : queue[i] = m) \/ m = t
  BY Pushed
<1> QED BY <1>1 DEF Owed

LEMMA OwedAfterTake ==
  ASSUME TypeOK, TasksInStep, NEW w \in Workers, Take(w)
  PROVE  \A m \in Listeners : Owed(m)' <=> Owed(m)
<1>1. /\ 1 \in 1..Len(queue)
      /\ \A i \in 1..Len(queue') : i + 1 \in 1..Len(queue) /\ queue'[i] = queue[i + 1]
      /\ \A i \in 1..Len(queue) :
           i = 1 \/ (i - 1 \in 1..Len(queue') /\ queue'[i - 1] = queue[i])
      /\ job' = [job EXCEPT ![w] = queue[1]] /\ job[w] = None
  BY Taken DEF Take
<1>2. /\ \A v \in Workers \ {w} : job'[v] = job[v] /\ at'[v] = at[v]
      /\ job'[w] = queue[1] /\ at'[w] = "taken" /\ at[w] = "idle"
  BY <1>1 DEF Take, TypeOK, TasksInStep
<1>3. ASSUME NEW m \in Listeners, Owed(m) PROVE Owed(m)'
  <2>1. ASSUME NEW i \in 1..Len(queue), queue[i] = m PROVE Owed(m)'
    <3>1. CASE i = 1
      BY <1>2, <2>1, <3>1 DEF Owed
    <3>2. CASE i # 1
      <4>1. i - 1 \in 1..Len(queue') /\ queue'[i - 1] = m
        BY <1>1, <2>1, <3>2
      <4> QED BY <4>1 DEF Owed
    <3> QED BY <3>1, <3>2
  <2>2. ASSUME NEW v \in Workers, job[v] = m, at[v] = "taken" PROVE Owed(m)'
    BY <1>2, <2>2 DEF Owed
  <2> QED BY <1>3, <2>1, <2>2 DEF Owed
<1>4. ASSUME NEW m \in Listeners, Owed(m)' PROVE Owed(m)
  <2>1. ASSUME NEW i \in 1..Len(queue'), queue'[i] = m PROVE Owed(m)
    BY <1>1, <2>1 DEF Owed
  <2>2. ASSUME NEW v \in Workers, job'[v] = m, at'[v] = "taken" PROVE Owed(m)
    BY <1>1, <1>2, <2>2 DEF Owed
  <2> QED BY <1>4, <2>1, <2>2 DEF Owed
<1> QED BY <1>3, <1>4

LEMMA OwedAfterCopy ==
  ASSUME TypeOK, TasksInStep, NEW w \in Workers, CopyClientData(w), NEW l, job[w] = l
  PROVE  /\ l \in Listeners /\ Owed(l)
         /\ \A m : Owed(m)' <=> Owed(m) /\ m # l
<1>1. l \in Listeners /\ Owed(l) /\ at[w] = "taken"
  BY DEF CopyClientData, Owed
<1>2. /\ \A v \in Workers \ {w} : at'[v] = at[v]
      /\ at'[w] = "polling" /\ job' = job /\ queue' = queue
  BY DEF CopyClientData, TypeOK
<1>3. /\ \A i \in 1..Len(queue) : queue[i] # l
      /\ \A v \in Workers \ {w} : at[v] = "taken" => job[v] # l
  BY <1>1 DEF TasksInStep
<1> QED BY <1>1, <1>2, <1>3 DEF Owed

\* The end of a task, and the steps that leave the slots' tasks alone.
LEMMA OwedOtherwise ==
  ASSUME queue' = queue,
         \A w \in Workers : \/ job'[w] = job[w] /\ (at'[w] = "taken" <=> at[w] = "taken")
                            \/ at'[w] = "idle" /\ (at[w] # "taken" \/ job[w] = Background)
  PROVE  \A m \in Listeners : Owed(m)' <=> Owed(m)
BY ServerAssumption DEF Owed

----------------------------------------------------------------------------
(***************************************************************************)
(* A listener has one task at a time that refers to its slot               *)
(***************************************************************************)

LEMMA AcceptKeepsTasks ==
  ASSUME TypeOK, TasksInStep, NEW l \in Listeners, Accept(l)
  PROVE  TasksInStep'
<1>1. /\ queue' = Append(queue, l) /\ UNCHANGED <<job, at, retry>>
      /\ listening[l] /\ listening' = [listening EXCEPT ![l] = FALSE]
  BY DEF Accept, workVars
<1>2. /\ \A i \in 1..Len(queue') : i \in 1..Len(queue) \/ i = Len(queue) + 1
      /\ \A i \in 1..Len(queue) : i \in 1..Len(queue') /\ queue'[i] = queue[i]
      /\ queue'[Len(queue) + 1] = l
  BY <1>1, Pushed
<1>3. ~Owed(l)
  BY <1>1 DEF TasksInStep
<1>4. \A m : Owed(m)' <=> Owed(m) \/ m = l
  BY <1>1, OwedAfterPush
<1>5. \A m \in Listeners : listening'[m] => ~Owed(m)'
  BY <1>1, <1>4 DEF TypeOK, TasksInStep
<1>6. /\ \A i \in 1..Len(queue) : queue[i] # l
      /\ \A v \in Workers : at[v] = "taken" => job[v] # l
  BY <1>3 DEF Owed
<1>7. \A i, j \in 1..Len(queue') : queue'[i] \in Listeners /\ queue'[i] = queue'[j] => i = j
  BY <1>2, <1>6 DEF TasksInStep
<1>8. \A i \in 1..Len(queue'), w \in Workers :
        at'[w] = "taken" /\ queue'[i] \in Listeners => queue'[i] # job'[w]
  BY <1>1, <1>2, <1>6 DEF TasksInStep
<1> QED BY <1>1, <1>5, <1>7, <1>8 DEF TasksInStep, Serving

LEMMA TakeKeepsTasks ==
  ASSUME TypeOK, TasksInStep, NEW w \in Workers, Take(w)
  PROVE  TasksInStep'
<1>1. /\ 1 \in 1..Len(queue) /\ queue[1] \in Listeners \cup {Background}
      /\ \A i \in 1..Len(queue') :
           i + 1 \in 1..Len(queue) /\ i + 1 # 1 /\ queue'[i] = queue[i + 1]
      /\ job' = [job EXCEPT ![w] = queue[1]] /\ job[w] = None
  BY Taken DEF Take
<1>2. /\ \A v \in Workers \ {w} : job'[v] = job[v] /\ at'[v] = at[v]
      /\ job'[w] = queue[1] /\ at'[w] = "taken" /\ at[w] = "idle"
      /\ UNCHANGED <<listening, retry>>
  BY <1>1 DEF Take, TypeOK, TasksInStep, workVars
<1>3. \A v \in Workers :
        /\ at'[v] = "idle" <=> job'[v] = None
        /\ v \in Serving' => job'[v] \in Listeners
        /\ at'[v] \in {"idle", "taken"} => retry'[v] = 0
        /\ at'[v] = "polling" => retry'[v] < PollLimit
  <2>1. queue[1] # None
    BY <1>1, ServerAssumption
  <2> QED BY <1>2, <2>1 DEF TasksInStep, Serving
<1>4. ASSUME NEW i \in 1..Len(queue'), NEW j \in 1..Len(queue'),
             queue'[i] \in Listeners, queue'[i] = queue'[j]
      PROVE  i = j
  <2>1. i + 1 = j + 1
    BY <1>1, <1>4 DEF TasksInStep
  <2> QED BY <2>1
<1>5. \A u, v \in Workers :
        at'[u] = "taken" /\ at'[v] = "taken" /\ job'[u] \in Listeners /\ job'[u] = job'[v] => u = v
  BY <1>1, <1>2 DEF TasksInStep
<1>6. \A i \in 1..Len(queue'), v \in Workers :
        at'[v] = "taken" /\ queue'[i] \in Listeners => queue'[i] # job'[v]
  BY <1>1, <1>2 DEF TasksInStep
<1>7. \A m \in Listeners : listening'[m] => ~Owed(m)'
  BY <1>2, OwedAfterTake DEF TasksInStep
<1> QED BY <1>3, <1>4, <1>5, <1>6, <1>7 DEF TasksInStep

\* A worker that is in a task, or ends one.
LEMMA WorkKeepsTasks ==
  ASSUME TypeOK, TasksInStep, NEW w \in Workers, Work(w)
  PROVE  TasksInStep'
<1> USE DEF workVars
<1>1. ASSUME \A v \in Workers \ {w} : at'[v] = at[v] /\ job'[v] = job[v] /\ retry'[v] = retry[v],
             listening' = listening,
             queue' = queue \/ queue' = Append(queue, Background),
             at'[w] = "idle" <=> job'[w] = None,
             at'[w] \in {"polling", "responding", "closing"} => job'[w] \in Listeners,
             at'[w] = "idle" => retry'[w] = 0,
             at'[w] = "polling" => retry'[w] < PollLimit,
             at'[w] # "taken",
             \A m \in Listeners : Owed(m)' => Owed(m)
      PROVE  TasksInStep'
  <2>1. \A v \in Workers :
          /\ at'[v] = "idle" <=> job'[v] = None
          /\ v \in Serving' => job'[v] \in Listeners
          /\ at'[v] \in {"idle", "taken"} => retry'[v] = 0
          /\ at'[v] = "polling" => retry'[v] < PollLimit
    BY <1>1 DEF TasksInStep, Serving
  <2>2. \A i \in 1..Len(queue') :
          queue'[i] \in Listeners => i \in 1..Len(queue) /\ queue'[i] = queue[i]
    <3>1. CASE queue' = queue
      BY <3>1
    <3>2. CASE queue' = Append(queue, Background)
      BY <3>2, Pushed, ServerAssumption
    <3> QED BY <1>1, <3>1, <3>2
  <2>3. \A v \in Workers : at'[v] = "taken" => at[v] = "taken" /\ job'[v] = job[v]
    BY <1>1
  <2>4. \A i, j \in 1..Len(queue') : queue'[i] \in Listeners /\ queue'[i] = queue'[j] => i = j
    BY <2>2 DEF TasksInStep
  <2>5. \A i \in 1..Len(queue'), v \in Workers :
          at'[v] = "taken" /\ queue'[i] \in Listeners => queue'[i] # job'[v]
    BY <2>2, <2>3 DEF TasksInStep
  <2>6. \A u, v \in Workers :
          at'[u] = "taken" /\ at'[v] = "taken" /\ job'[u] \in Listeners /\ job'[u] = job'[v] => u = v
    BY <2>3 DEF TasksInStep
  <2> QED BY <1>1, <2>1, <2>4, <2>5, <2>6 DEF TasksInStep
<1>2. CASE CopyClientData(w)
  <2>1. /\ \A v \in Workers \ {w} : at'[v] = at[v]
        /\ at'[w] = "polling" /\ at[w] = "taken" /\ job[w] \in Listeners
        /\ UNCHANGED <<queue, job, retry, listening>>
    BY <1>2 DEF CopyClientData, TypeOK
  <2>2. \A m \in Listeners : Owed(m)' => Owed(m)
    BY <1>2, OwedAfterCopy
  <2>3. retry[w] = 0 /\ job[w] # None /\ 0 < PollLimit
    BY <2>1, ServerAssumption DEF TasksInStep
  <2> QED BY <1>1, <2>1, <2>2, <2>3
<1>3. CASE FinishBackground(w)
  <2>1. /\ \A v \in Workers \ {w} : at'[v] = at[v] /\ job'[v] = job[v]
        /\ at'[w] = "idle" /\ job'[w] = None /\ at[w] = "taken" /\ job[w] = Background
        /\ UNCHANGED <<queue, retry, listening>>
    BY <1>3 DEF FinishBackground, Pool!Finish, TypeOK
  <2>2. \A m \in Listeners : Owed(m)' <=> Owed(m)
    BY <2>1, OwedOtherwise
  <2>3. retry[w] = 0
    BY <2>1 DEF TasksInStep
  <2> QED BY <1>1, <2>1, <2>2, <2>3
<1>4. CASE CloseSocket(w)
  <2>1. /\ \A v \in Workers \ {w} : at'[v] = at[v] /\ job'[v] = job[v] /\ retry'[v] = retry[v]
        /\ at'[w] = "idle" /\ job'[w] = None /\ at[w] = "closing" /\ retry'[w] = 0
        /\ UNCHANGED <<queue, listening>>
    BY <1>4 DEF CloseSocket, Pool!Finish, TypeOK
  <2>2. \A m \in Listeners : Owed(m)' <=> Owed(m)
    BY <2>1, OwedOtherwise
  <2> QED BY <1>1, <2>1, <2>2
<1>5. CASE PollData(w) \/ PollEnd(w) \/ PollNothing(w) \/ SendKills(w)
  <2>1. /\ \A v \in Workers \ {w} : at'[v] = at[v] /\ retry'[v] = retry[v]
        /\ at[w] \in {"polling", "responding"} /\ at'[w] \in {"polling", "responding"}
        /\ UNCHANGED <<queue, job, listening>>
    BY <1>5 DEF PollData, PollEnd, PollNothing, SendKills, TypeOK
  <2>2. at'[w] = "polling" => retry'[w] < PollLimit
    <3>1. CASE PollNothing(w)
      <4>1. retry'[w] = retry[w] + 1 /\ retry[w] \in Nat /\ retry[w] < PollLimit
        BY <3>1 DEF PollNothing, TypeOK, TasksInStep
      <4>2. at'[w] = "polling" => retry[w] + 1 # PollLimit
        BY <3>1 DEF PollNothing, TypeOK
      <4> QED BY <4>1, <4>2, ServerAssumption
    <3>2. CASE PollData(w) \/ PollEnd(w) \/ SendKills(w)
      <4>1. retry' = retry /\ (at'[w] = "polling" => at[w] = "polling")
        BY <3>2 DEF PollData, PollEnd, SendKills, TypeOK
      <4> QED BY <4>1 DEF TasksInStep
    <3> QED BY <1>5, <3>1, <3>2
  <2>3. \A m \in Listeners : Owed(m)' <=> Owed(m)
    BY <2>1, OwedOtherwise
  <2>4. job[w] \in Listeners /\ job[w] # None
    BY <2>1, ServerAssumption DEF TasksInStep, Serving
  <2> QED BY <1>1, <2>1, <2>2, <2>3, <2>4
<1>6. CASE Respond(w)
  <2>1. /\ \A v \in Workers \ {w} : at'[v] = at[v]
        /\ at[w] = "responding" /\ at'[w] = "closing"
        /\ queue' = queue \/ queue' = Append(queue, Background)
        /\ UNCHANGED <<job, retry, listening>>
    BY <1>6 DEF Respond, TypeOK
  <2>2. \A m \in Listeners : Owed(m)' => Owed(m)
    <3>1. CASE queue' = queue
      BY <2>1, <3>1, OwedOtherwise
    <3>2. CASE queue' = Append(queue, Background)
      BY <2>1, <3>2, OwedAfterPush, ServerAssumption
    <3> QED BY <2>1, <3>1, <3>2
  <2>3. job[w] \in Listeners /\ job[w] # None
    BY <2>1, ServerAssumption DEF TasksInStep, Serving
  <2> QED BY <1>1, <2>1, <2>2, <2>3
<1> QED BY <1>2, <1>3, <1>4, <1>5, <1>6 DEF Work

(***************************************************************************)
(* When a listener's sleep is over, a worker has copied its slot: with a   *)
(* worker for every task the queue is empty.                               *)
(***************************************************************************)
LEMMA SleepKeepsTasks ==
  ASSUME EnoughWorkers, TypeOK, TasksInStep, Load, NEW l \in Listeners, SleepElapsed(l)
  PROVE  TasksInStep'
<1>1. /\ \A w \in Workers : at[w] # "taken"
      /\ queue = <<>> \/ \A w \in Workers : at[w] # "idle"
      /\ listening' = [listening EXCEPT ![l] = TRUE]
      /\ UNCHANGED <<queue, job, at, retry>>
  BY DEF SleepElapsed, workVars
<1>2. Len(queue) \in Nat
  BY LenProperties DEF TypeOK
<1>3. Len(queue) = 0
  <2>1. CASE queue = <<>>
    BY <2>1
  <2>2. CASE \A w \in Workers : at[w] # "idle"
    <3>1. Busy = Workers
      BY <2>2 DEF Busy
    <3>2. Cardinality(Clients \ accepted) \in Nat /\ Cardinality(Unhandled) \in Nat
      <4>1. IsFiniteSet(Clients) /\ IsFiniteSet(Spawners)
        BY ServerAssumption, FS_Subset
      <4>2. IsFiniteSet(Clients \ accepted) /\ IsFiniteSet(Unhandled)
        BY <4>1, FS_Subset DEF Unhandled
      <4> QED BY <4>2, FS_CardinalityType
    <3>3. Cardinality(Workers) \in Nat /\ Cardinality(Clients) \in Nat /\ Cardinality(Spawners) \in Nat
      BY ServerAssumption, FS_Subset, FS_CardinalityType DEF EnoughWorkers
    <3> QED BY <1>2, <3>1, <3>2, <3>3 DEF Load, EnoughWorkers
  <2> QED BY <1>1, <2>1, <2>2
<1>4. \A m \in Listeners : ~Owed(m)
  BY <1>1, <1>3 DEF Owed
<1>5. \A m \in Listeners : ~Owed(m)'
  BY <1>1, <1>4 DEF Owed
<1> QED BY <1>1, <1>5 DEF TasksInStep, Serving

LEMMA TasksStep ==
  ASSUME EnoughWorkers, IInv, [Next]_vars
  PROVE  TasksInStep'
<1> USE DEF IInv
<1>1. ASSUME UNCHANGED <<queue, job, at, retry, listening>> PROVE TasksInStep'
  BY <1>1 DEF TasksInStep, Owed, Serving
<1>2. ASSUME NEW c \in Clients, (\E l \in Listeners : Connect(c, l)) \/ SendRequest(c) \/ HangUp(c)
      PROVE  TasksInStep'
  BY <1>1, <1>2 DEF Connect, SendRequest, HangUp, workVars
<1>3. ASSUME NEW l \in Listeners, Open(l) \/ AcceptThrows(l)
      PROVE  TasksInStep'
  BY <1>1, <1>3 DEF Open, AcceptThrows, workVars
<1>4. CASE UNCHANGED vars
  BY <1>1, <1>4 DEF vars
<1> QED BY <1>2, <1>3, <1>4, AcceptKeepsTasks, SleepKeepsTasks, TakeKeepsTasks, WorkKeepsTasks
        DEF Next

----------------------------------------------------------------------------
(***************************************************************************)
(* A connection is accepted once                                           *)
(***************************************************************************)

\* What Accept takes off the backlog.
LEMMA AcceptFacts ==
  ASSUME TypeOK, Arrivals, Descriptors, NEW l \in Listeners, Accept(l)
  PROVE  \E c \in Clients, f \in Fds :
           /\ c \in linked \ accepted /\ fds[f] = None
           /\ 1 \in 1..Len(backlog[l]) /\ backlog[l][1] = c
           /\ fds' = [fds EXCEPT ![f] = c]
           /\ slot' = [slot EXCEPT ![l] = [fd |-> f, conn |-> c]]
           /\ accepted' = accepted \cup {c}
           /\ backlog' = [backlog EXCEPT ![l] = Tail(backlog[l])]
           /\ queue' = Append(queue, l)
           /\ UNCHANGED <<job, at, sock, request, linked, unsent, inbox, replies>>
<1>1. backlog[l] \in Seq(Clients) /\ backlog[l] # <<>>
  BY DEF TypeOK, Accept
<1>2. /\ 1 \in 1..Len(backlog[l]) /\ backlog[l][1] = Head(backlog[l])
      /\ Head(backlog[l]) \in Clients
  BY <1>1, HeadTailProperties, EmptySeq, LenProperties
<1>3. PICK c \in Clients : c = Head(backlog[l])
  BY <1>2
<1>4. c \in linked \ accepted
  BY <1>2, <1>3 DEF Arrivals
<1>5. PICK f \in Fds : f = FreeFd /\ fds[f] = None
  BY <1>4, SomeFdIsFree
<1>6. /\ fds' = [fds EXCEPT ![f] = c]
      /\ slot' = [slot EXCEPT ![l] = [fd |-> f, conn |-> c]]
      /\ accepted' = accepted \cup {c}
      /\ backlog' = [backlog EXCEPT ![l] = Tail(backlog[l])]
      /\ queue' = Append(queue, l)
      /\ UNCHANGED <<job, at, sock, request, linked, unsent, inbox, replies>>
  BY <1>3, <1>5 DEF Accept, workVars, clientVars
<1> QED BY <1>2, <1>3, <1>4, <1>5, <1>6

LEMMA ConnectKeepsArrivals ==
  ASSUME TypeOK, Arrivals, NEW c \in Clients, NEW l \in Listeners, Connect(c, l)
  PROVE  Arrivals'
<1>1. /\ c \notin linked /\ linked' = linked \cup {c} /\ accepted' = accepted
      /\ backlog' = [backlog EXCEPT ![l] = Append(backlog[l], c)]
  BY DEF Connect
<1>2. backlog[l] \in Seq(Clients) /\ Len(backlog[l]) \in Nat
  BY LenProperties DEF TypeOK
<1>3. /\ \A m \in Listeners \ {l} : backlog'[m] = backlog[m]
      /\ backlog'[l] = Append(backlog[l], c)
  BY <1>1 DEF TypeOK
<1>4. /\ \A i \in 1..Len(backlog'[l]) : i \in 1..Len(backlog[l]) \/ i = Len(backlog[l]) + 1
      /\ \A i \in 1..Len(backlog[l]) : backlog'[l][i] = backlog[l][i]
      /\ backlog'[l][Len(backlog[l]) + 1] = c
  BY <1>2, <1>3, AppendProperties
<1>5. \A m \in Listeners : \A i \in 1..Len(backlog[m]) : backlog[m][i] # c
  BY <1>1 DEF Arrivals
<1>6. ASSUME NEW m \in Listeners, NEW i \in 1..Len(backlog'[m])
      PROVE  \/ m = l /\ i = Len(backlog[l]) + 1 /\ backlog'[m][i] = c
             \/ i \in 1..Len(backlog[m]) /\ backlog'[m][i] = backlog[m][i]
  BY <1>3, <1>4
<1>7. \A m \in Listeners : \A i \in 1..Len(backlog'[m]) : backlog'[m][i] \in linked' \ accepted'
  <2>1. c \notin accepted
    BY <1>1 DEF Arrivals
  <2> QED BY <1>1, <1>6, <2>1 DEF Arrivals
<1>8. ASSUME NEW m \in Listeners, NEW n \in Listeners,
             NEW i \in 1..Len(backlog'[m]), NEW j \in 1..Len(backlog'[n]),
             backlog'[m][i] = backlog'[n][j]
      PROVE  m = n /\ i = j
  <2>1. CASE backlog'[m][i] = c
    <3>1. m = l /\ i = Len(backlog[l]) + 1
      BY <1>5, <1>6, <2>1
    <3>2. n = l /\ j = Len(backlog[l]) + 1
      BY <1>5, <1>6, <1>8, <2>1
    <3> QED BY <3>1, <3>2
  <2>2. CASE backlog'[m][i] # c
    <3>1. i \in 1..Len(backlog[m]) /\ backlog'[m][i] = backlog[m][i]
      BY <1>6, <2>2
    <3>2. j \in 1..Len(backlog[n]) /\ backlog'[n][j] = backlog[n][j]
      BY <1>6, <1>8, <2>2
    <3>3. backlog[m][i] = backlog[n][j]
      BY <1>8, <3>1, <3>2
    <3>4. i \in 1..Len(backlog[m]) /\ j \in 1..Len(backlog[n])
      BY <3>1, <3>2
    <3> QED BY <3>3, <3>4, Zenon DEF Arrivals
  <2> QED BY <2>1, <2>2
<1>9. accepted' \subseteq linked'
  BY <1>1 DEF Arrivals
<1> QED BY <1>7, <1>8, <1>9 DEF Arrivals

LEMMA AcceptKeepsArrivals ==
  ASSUME TypeOK, Arrivals, Descriptors, NEW l \in Listeners, Accept(l)
  PROVE  Arrivals'
<1>1. PICK c \in Clients :
        /\ c \in linked \ accepted
        /\ 1 \in 1..Len(backlog[l]) /\ backlog[l][1] = c
        /\ accepted' = accepted \cup {c} /\ linked' = linked
        /\ backlog' = [backlog EXCEPT ![l] = Tail(backlog[l])]
  BY AcceptFacts
<1>2. backlog[l] \in Seq(Clients) /\ Len(backlog[l]) \in Nat /\ backlog[l] # <<>>
  BY LenProperties DEF TypeOK, Accept
<1>3. /\ \A m \in Listeners \ {l} : backlog'[m] = backlog[m]
      /\ backlog'[l] = Tail(backlog[l])
  BY <1>1 DEF TypeOK
<1>4. /\ Len(backlog'[l]) = Len(backlog[l]) - 1
      /\ \A i \in 1..Len(backlog'[l]) : backlog'[l][i] = backlog[l][i + 1]
  BY <1>2, <1>3, HeadTailProperties
<1>5. \A i \in 1..Len(backlog'[l]) : i + 1 \in 1..Len(backlog[l]) /\ i + 1 # 1
  BY <1>2, <1>4
<1>6. ASSUME NEW m \in Listeners, NEW i \in 1..Len(backlog'[m])
      PROVE  /\ backlog'[m][i] = IF m = l THEN backlog[m][i + 1] ELSE backlog[m][i]
             /\ m = l => i + 1 \in 1..Len(backlog[m]) /\ i + 1 # 1
             /\ m # l => i \in 1..Len(backlog[m])
  BY <1>3, <1>4, <1>5
<1>7. ASSUME NEW m \in Listeners, NEW i \in 1..Len(backlog'[m])
      PROVE  backlog'[m][i] \in linked' \ accepted'
  <2>1. CASE m = l
    BY <1>1, <1>6, <2>1 DEF Arrivals
  <2>2. CASE m # l
    BY <1>1, <1>6, <2>2 DEF Arrivals
  <2> QED BY <2>1, <2>2
<1>8. ASSUME NEW m \in Listeners, NEW n \in Listeners,
             NEW i \in 1..Len(backlog'[m]), NEW j \in 1..Len(backlog'[n]),
             backlog'[m][i] = backlog'[n][j]
      PROVE  m = n /\ i = j
  <2>1. CASE m = l /\ n = l
    <3>1. i + 1 = j + 1
      BY <1>6, <1>8, <2>1 DEF Arrivals
    <3> QED BY <2>1, <3>1
  <2>2. CASE m = l /\ n # l
    BY <1>6, <1>8, <2>2 DEF Arrivals
  <2>3. CASE m # l /\ n = l
    BY <1>6, <1>8, <2>3 DEF Arrivals
  <2>4. CASE m # l /\ n # l
    BY <1>6, <1>8, <2>4 DEF Arrivals
  <2> QED BY <2>1, <2>2, <2>3, <2>4
<1>9. accepted' \subseteq linked'
  BY <1>1 DEF Arrivals
<1> QED BY <1>7, <1>8, <1>9 DEF Arrivals

LEMMA ArrivalsStep ==
  ASSUME IInv, [Next]_vars
  PROVE  Arrivals'
<1> USE DEF IInv
<1>1. ASSUME UNCHANGED <<backlog, linked, accepted>> PROVE Arrivals'
  BY <1>1 DEF Arrivals
<1>2. ASSUME NEW c \in Clients, SendRequest(c) \/ HangUp(c) PROVE Arrivals'
  BY <1>1, <1>2 DEF SendRequest, HangUp
<1>3. ASSUME NEW l \in Listeners, Open(l) \/ AcceptThrows(l) \/ SleepElapsed(l) PROVE Arrivals'
  BY <1>1, <1>3 DEF Open, AcceptThrows, SleepElapsed, clientVars
<1>4. ASSUME NEW w \in Workers, Take(w) \/ Work(w) PROVE Arrivals'
  BY <1>1, <1>4 DEF Take, Work, CopyClientData, FinishBackground, PollData, PollEnd, PollNothing,
                    Respond, SendKills, CloseSocket, clientVars
<1>5. CASE UNCHANGED vars
  BY <1>1, <1>5 DEF vars
<1> QED BY <1>2, <1>3, <1>4, <1>5, ConnectKeepsArrivals, AcceptKeepsArrivals DEF Next

----------------------------------------------------------------------------
(***************************************************************************)
(* A descriptor names one connection for as long as it is used             *)
(***************************************************************************)

LEMMA AcceptKeepsDescriptors ==
  ASSUME TypeOK, TasksInStep, Arrivals, Descriptors, NEW l \in Listeners, Accept(l)
  PROVE  Descriptors'
<1>1. PICK c \in Clients, f \in Fds :
        /\ c \in linked \ accepted /\ fds[f] = None
        /\ fds' = [fds EXCEPT ![f] = c]
        /\ slot' = [slot EXCEPT ![l] = [fd |-> f, conn |-> c]]
        /\ accepted' = accepted \cup {c}
        /\ queue' = Append(queue, l)
        /\ UNCHANGED <<job, at, sock>>
  BY AcceptFacts
<1>2. c # None
  BY ServerAssumption
<1>3. /\ fds'[f] = c /\ \A g \in Fds \ {f} : fds'[g] = fds[g]
      /\ slot'[l].fd = f /\ slot'[l].conn = c
      /\ \A m \in Listeners \ {l} : slot'[m] = slot[m]
  BY <1>1 DEF TypeOK
<1>4. \A g \in Fds : fds[g] # c
  BY <1>1, <1>2 DEF Descriptors
<1>5. \A m \in Listeners : Owed(m)' <=> Owed(m) \/ m = l
  BY <1>1, OwedAfterPush
<1>6. Serving' = Serving
  BY <1>1 DEF Serving
<1>7. \A g \in Fds : fds'[g] # None => fds'[g] \in accepted'
  BY <1>1, <1>3 DEF Descriptors
<1>8. \A g, h \in Fds : fds'[g] # None /\ fds'[g] = fds'[h] => g = h
  BY <1>3, <1>4 DEF Descriptors
<1>9. \A w \in Serving : /\ sock[w].fd \in Fds \ {f} /\ sock[w].conn # c
                         /\ sock[w].conn # None /\ fds[sock[w].fd] = sock[w].conn
  BY <1>1, <1>4 DEF Descriptors
<1>10. \A m \in Listeners \ {l} : Owed(m) => /\ slot[m].fd \in Fds \ {f} /\ slot[m].conn # c
                                             /\ slot[m].conn # None
                                             /\ fds[slot[m].fd] = slot[m].conn
  BY <1>1, <1>4 DEF Descriptors
<1>11. \A w \in Serving' : /\ sock'[w].fd \in Fds /\ sock'[w].conn # None
                           /\ fds'[sock'[w].fd] = sock'[w].conn
  BY <1>1, <1>3, <1>6, <1>9
<1>12. \A m \in Listeners : Owed(m)' => /\ slot'[m].fd \in Fds /\ slot'[m].conn # None
                                        /\ fds'[slot'[m].fd] = slot'[m].conn
  BY <1>2, <1>3, <1>5, <1>10
<1>13. \A v, w \in Serving' : sock'[v].conn = sock'[w].conn => v = w
  BY <1>1, <1>6 DEF Descriptors
<1>14. \A m, n \in Listeners : Owed(m)' /\ Owed(n)' /\ slot'[m].conn = slot'[n].conn => m = n
  BY <1>3, <1>5, <1>10 DEF Descriptors
<1>15. \A m \in Listeners, w \in Serving' : Owed(m)' => slot'[m].conn # sock'[w].conn
  BY <1>1, <1>3, <1>5, <1>6, <1>9 DEF Descriptors
<1> QED BY <1>7, <1>8, <1>11, <1>12, <1>13, <1>14, <1>15 DEF Descriptors

\* The copy of a slot takes the place of the task that referred to it.
LEMMA CopyKeepsDescriptors ==
  ASSUME TypeOK, TasksInStep, Descriptors, NEW w \in Workers, CopyClientData(w)
  PROVE  Descriptors'
<1>1. PICK l \in Listeners : job[w] = l
  BY DEF CopyClientData
<1>2. Owed(l) /\ \A m : Owed(m)' <=> Owed(m) /\ m # l
  BY <1>1, OwedAfterCopy
<1>3. /\ sock'[w] = slot[l] /\ \A v \in Workers \ {w} : sock'[v] = sock[v]
      /\ Serving' = Serving \cup {w} /\ w \notin Serving
      /\ UNCHANGED <<fds, accepted, slot>>
  BY <1>1 DEF CopyClientData, TypeOK, Serving
<1>4. Serving \subseteq Workers
  BY DEF Serving
<1>5. \A v \in Serving' : /\ sock'[v].fd \in Fds /\ sock'[v].conn # None
                          /\ fds[sock'[v].fd] = sock'[v].conn
  BY <1>2, <1>3, <1>4 DEF Descriptors
<1>6. \A u, v \in Serving' : sock'[u].conn = sock'[v].conn => u = v
  BY <1>2, <1>3, <1>4 DEF Descriptors
<1>7. \A m \in Listeners, v \in Serving' : Owed(m)' => slot[m].conn # sock'[v].conn
  BY <1>2, <1>3, <1>4 DEF Descriptors
<1>8. \A m \in Listeners : Owed(m)' => /\ slot[m].fd \in Fds /\ slot[m].conn # None
                                       /\ fds[slot[m].fd] = slot[m].conn
  BY <1>2 DEF Descriptors
<1>9. \A m, n \in Listeners : Owed(m)' /\ Owed(n)' /\ slot[m].conn = slot[n].conn => m = n
  BY <1>2 DEF Descriptors
<1>10. /\ \A f \in Fds : fds'[f] # None => fds'[f] \in accepted'
       /\ \A f, g \in Fds : fds'[f] # None /\ fds'[f] = fds'[g] => f = g
  BY <1>3 DEF Descriptors
<1> QED BY <1>3, <1>5, <1>6, <1>7, <1>8, <1>9, <1>10 DEF Descriptors

\* A worker closes the descriptor of the connection it serves, and no other.
LEMMA CloseKeepsDescriptors ==
  ASSUME TypeOK, TasksInStep, Descriptors, NEW w \in Workers, CloseSocket(w)
  PROVE  Descriptors'
<1>1. w \in Serving
  BY DEF CloseSocket, Serving
<1>2. PICK f \in Fds : f = sock[w].fd
  BY <1>1, PeerIsOwn
<1>3. /\ fds'[f] = None /\ \A g \in Fds \ {f} : fds'[g] = fds[g]
      /\ Serving' = Serving \ {w}
      /\ \A v \in Workers \ {w} : sock'[v] = sock[v]
      /\ UNCHANGED <<accepted, slot, queue>>
  BY <1>2 DEF CloseSocket, Pool!Finish, TypeOK, Serving
<1>4. Serving \subseteq Workers
  BY DEF Serving
<1>5. \A m \in Listeners : Owed(m)' <=> Owed(m)
  <2>1. /\ \A v \in Workers \ {w} : at'[v] = at[v] /\ job'[v] = job[v]
        /\ at'[w] = "idle" /\ at[w] = "closing" /\ queue' = queue
    BY DEF CloseSocket, Pool!Finish, TypeOK
  <2> QED BY <2>1, OwedOtherwise
<1>6. fds[f] = sock[w].conn /\ sock[w].conn # None
  BY <1>1, <1>2 DEF Descriptors
<1>7. \A v \in Serving' : v \in Serving /\ sock'[v] = sock[v] /\ sock[v].fd \in Fds \ {f}
  BY <1>1, <1>3, <1>4, <1>6 DEF Descriptors
<1>8. \A m \in Listeners : Owed(m) => slot[m].fd \in Fds \ {f}
  BY <1>1, <1>6 DEF Descriptors
<1>9. \A v \in Serving' : /\ sock'[v].fd \in Fds /\ sock'[v].conn # None
                          /\ fds'[sock'[v].fd] = sock'[v].conn
  BY <1>3, <1>7 DEF Descriptors
<1>10. \A m \in Listeners : Owed(m)' => /\ slot'[m].fd \in Fds /\ slot'[m].conn # None
                                        /\ fds'[slot'[m].fd] = slot'[m].conn
  BY <1>3, <1>5, <1>8 DEF Descriptors
<1>11. /\ \A u, v \in Serving' : sock'[u].conn = sock'[v].conn => u = v
       /\ \A m \in Listeners, v \in Serving' : Owed(m)' => slot'[m].conn # sock'[v].conn
  BY <1>3, <1>5, <1>7 DEF Descriptors
<1>12. \A m, n \in Listeners : Owed(m)' /\ Owed(n)' /\ slot'[m].conn = slot'[n].conn => m = n
  BY <1>3, <1>5 DEF Descriptors
<1>13. /\ \A g \in Fds : fds'[g] # None => fds'[g] \in accepted'
       /\ \A g, h \in Fds : fds'[g] # None /\ fds'[g] = fds'[h] => g = h
  BY <1>3 DEF Descriptors
<1> QED BY <1>9, <1>10, <1>11, <1>12, <1>13 DEF Descriptors

LEMMA DescriptorsStep ==
  ASSUME IInv, [Next]_vars
  PROVE  Descriptors'
<1> USE DEF IInv
<1>1. ASSUME UNCHANGED <<fds, accepted, sock, slot>>, Serving' = Serving,
             \A m \in Listeners : Owed(m)' <=> Owed(m)
      PROVE  Descriptors'
  BY <1>1 DEF Descriptors
<1>2. ASSUME UNCHANGED <<fds, accepted, sock, slot, queue, job, at>> PROVE Descriptors'
  BY <1>1, <1>2 DEF Owed, Serving
<1>3. ASSUME NEW c \in Clients, (\E l \in Listeners : Connect(c, l)) \/ SendRequest(c) \/ HangUp(c)
      PROVE  Descriptors'
  BY <1>2, <1>3 DEF Connect, SendRequest, HangUp, workVars
<1>4. ASSUME NEW l \in Listeners, Open(l) \/ AcceptThrows(l) \/ SleepElapsed(l)
      PROVE  Descriptors'
  BY <1>2, <1>4 DEF Open, AcceptThrows, SleepElapsed, workVars
<1>5. ASSUME NEW w \in Workers, Take(w) PROVE Descriptors'
  <2>1. Serving' = Serving
    BY <1>5 DEF Take, Pool!Take, Serving, TypeOK, TasksInStep
  <2>2. UNCHANGED <<fds, accepted, sock, slot>>
    BY <1>5 DEF Take, workVars
  <2> QED BY <1>1, <1>5, <2>1, <2>2, OwedAfterTake
<1>6. ASSUME NEW w \in Workers, FinishBackground(w) PROVE Descriptors'
  <2>1. /\ \A v \in Workers \ {w} : at'[v] = at[v] /\ job'[v] = job[v]
        /\ at'[w] = "idle" /\ at[w] = "taken" /\ job[w] = Background
        /\ UNCHANGED <<fds, accepted, sock, slot, queue>>
    BY <1>6 DEF FinishBackground, Pool!Finish, TypeOK, workVars
  <2>2. Serving' = Serving
    BY <2>1 DEF Serving
  <2>3. \A m \in Listeners : Owed(m)' <=> Owed(m)
    BY <2>1, OwedOtherwise
  <2> QED BY <1>1, <2>1, <2>2, <2>3
<1>7. ASSUME NEW w \in Workers, PollData(w) \/ PollEnd(w) \/ PollNothing(w) \/ SendKills(w)
      PROVE  Descriptors'
  <2>1. /\ \A v \in Workers \ {w} : at'[v] = at[v]
        /\ at[w] \in {"polling", "responding"} /\ at'[w] \in {"polling", "responding"}
        /\ UNCHANGED <<fds, accepted, sock, slot, queue, job>>
    BY <1>7 DEF PollData, PollEnd, PollNothing, SendKills, TypeOK, workVars
  <2>2. Serving' = Serving
    BY <2>1 DEF Serving
  <2>3. \A m \in Listeners : Owed(m)' <=> Owed(m)
    BY <2>1, OwedOtherwise
  <2> QED BY <1>1, <2>1, <2>2, <2>3
<1>8. ASSUME NEW w \in Workers, Respond(w) PROVE Descriptors'
  <2>1. /\ \A v \in Workers \ {w} : at'[v] = at[v]
        /\ at[w] = "responding" /\ at'[w] = "closing"
        /\ queue' = queue \/ queue' = Append(queue, Background)
        /\ UNCHANGED <<fds, accepted, sock, slot, job>>
    BY <1>8 DEF Respond, TypeOK, workVars
  <2>2. Serving' = Serving
    BY <2>1 DEF Serving
  <2>3. \A m \in Listeners : Owed(m)' <=> Owed(m)
    <3>1. CASE queue' = queue
      BY <2>1, <3>1, OwedOtherwise
    <3>2. CASE queue' = Append(queue, Background)
      BY <2>1, <3>2, OwedAfterPush, ServerAssumption
    <3> QED BY <2>1, <3>1, <3>2
  <2> QED BY <1>1, <2>1, <2>2, <2>3
<1>9. CASE UNCHANGED vars
  BY <1>2, <1>9 DEF vars
<1> QED BY <1>3, <1>4, <1>5, <1>6, <1>7, <1>8, <1>9,
           AcceptKeepsDescriptors, CopyKeepsDescriptors, CloseKeepsDescriptors DEF Next, Work

----------------------------------------------------------------------------
(***************************************************************************)
(* A request is in one place                                               *)
(***************************************************************************)

LEMMA SendKeepsRequests ==
  ASSUME TypeOK, Requests, NEW c \in Clients, SendRequest(c)
  PROVE  Requests'
<1>1. /\ c \in unsent /\ unsent' = unsent \ {c} /\ inbox' \subseteq inbox \cup {c}
      /\ UNCHANGED <<request, sock, at>>
  BY DEF SendRequest, workVars
<1>2. Serving' = Serving
  BY <1>1 DEF Serving
<1>3. \A w \in Workers : c \notin request[w]
  BY <1>1 DEF Requests
<1>4. inbox' \cap unsent' = {}
  BY <1>1 DEF Requests
<1>5. \A w \in Workers : request'[w] \cap (inbox' \cup unsent') = {}
  BY <1>1, <1>3 DEF Requests
<1> QED BY <1>1, <1>2, <1>4, <1>5 DEF Requests

LEMMA WorkKeepsRequests ==
  ASSUME TypeOK, TasksInStep, Descriptors, Requests, NEW w \in Workers, Take(w) \/ Work(w)
  PROVE  Requests'
<1>1. ASSUME \A v \in Workers \ {w} : (v \in Serving' <=> v \in Serving) /\ sock'[v] = sock[v],
             \A v \in Workers : request'[v] = request[v],
             w \in Serving => w \in Serving' /\ sock'[w] = sock[w],
             UNCHANGED <<inbox, unsent>>
      PROVE  Requests'
  BY <1>1 DEF Requests
<1>2. CASE Take(w) \/ FinishBackground(w)
  <2>1. /\ \A v \in Workers \ {w} : at'[v] = at[v]
        /\ at[w] \in {"idle", "taken"}
        /\ UNCHANGED <<sock, request, inbox, unsent>>
    BY <1>2 DEF Take, Pool!Take, FinishBackground, TypeOK, TasksInStep, workVars, clientVars
  <2>2. w \notin Serving /\ \A v \in Workers \ {w} : v \in Serving' <=> v \in Serving
    BY <2>1 DEF Serving
  <2> QED BY <1>1, <2>1, <2>2
<1>3. CASE CopyClientData(w)
  <2>1. /\ \A v \in Workers \ {w} : at'[v] = at[v] /\ sock'[v] = sock[v]
        /\ at[w] = "taken"
        /\ UNCHANGED <<request, inbox, unsent>>
    BY <1>3 DEF CopyClientData, TypeOK, clientVars
  <2>2. w \notin Serving /\ \A v \in Workers \ {w} : v \in Serving' <=> v \in Serving
    BY <2>1 DEF Serving
  <2> QED BY <1>1, <2>1, <2>2
<1>4. CASE PollEnd(w) \/ PollNothing(w) \/ Respond(w) \/ SendKills(w)
  <2>1. /\ \A v \in Workers \ {w} : at'[v] = at[v]
        /\ at'[w] \in {"polling", "responding", "closing"}
        /\ UNCHANGED <<sock, request, inbox, unsent>>
    BY <1>4 DEF PollEnd, PollNothing, Respond, SendKills, TypeOK, workVars, clientVars
  <2>2. w \in Serving' /\ \A v \in Workers \ {w} : v \in Serving' <=> v \in Serving
    BY <2>1 DEF Serving
  <2> QED BY <1>1, <2>1, <2>2
<1>5. CASE PollData(w)
  <2>1. w \in Serving /\ Serving' = Serving
    BY <1>5 DEF PollData, Serving
  <2>2. PICK c : c = Peer(w)
    OBVIOUS
  <2>3. c = sock[w].conn
    BY <2>1, <2>2, PeerIsOwn
  <2>4. /\ c \in inbox /\ inbox' = inbox \ {c}
        /\ request'[w] = request[w] \cup {c}
        /\ \A v \in Workers \ {w} : request'[v] = request[v]
        /\ UNCHANGED <<sock, unsent>>
    BY <1>5, <2>2 DEF PollData, TypeOK, clientVars
  <2>5. \A v \in Workers : request'[v] \subseteq IF v \in Serving THEN {sock[v].conn} ELSE {}
    BY <2>1, <2>3, <2>4 DEF Requests
  <2>6. \A v \in Workers : request'[v] \cap (inbox' \cup unsent') = {}
    BY <2>4 DEF Requests
  <2>7. inbox' \cap unsent' = {}
    BY <2>4 DEF Requests
  <2> QED BY <2>1, <2>4, <2>5, <2>6, <2>7 DEF Requests
<1>6. CASE CloseSocket(w)
  <2>1. /\ \A v \in Workers \ {w} : at'[v] = at[v] /\ sock'[v] = sock[v] /\ request'[v] = request[v]
        /\ request'[w] = {} /\ inbox' \subseteq inbox /\ unsent' = unsent
    BY <1>6 DEF CloseSocket, TypeOK, clientVars
  <2>2. \A v \in Workers \ {w} : v \in Serving' <=> v \in Serving
    BY <2>1 DEF Serving
  <2>3. \A v \in Workers : request'[v] \subseteq IF v \in Serving' THEN {sock'[v].conn} ELSE {}
    BY <2>1, <2>2 DEF Requests
  <2>4. \A v \in Workers : request'[v] \cap (inbox' \cup unsent') = {}
    BY <2>1 DEF Requests
  <2>5. inbox' \cap unsent' = {}
    BY <2>1 DEF Requests
  <2> QED BY <2>3, <2>4, <2>5 DEF Requests
<1> QED BY <1>2, <1>3, <1>4, <1>5, <1>6 DEF Work

LEMMA RequestsStep ==
  ASSUME IInv, [Next]_vars
  PROVE  Requests'
<1> USE DEF IInv
<1>1. ASSUME UNCHANGED <<request, sock, at, inbox, unsent>> PROVE Requests'
  BY <1>1 DEF Requests, Serving
<1>2. ASSUME NEW c \in Clients, (\E l \in Listeners : Connect(c, l)) \/ HangUp(c) PROVE Requests'
  BY <1>1, <1>2 DEF Connect, HangUp, workVars
<1>3. ASSUME NEW l \in Listeners, Open(l) \/ AcceptThrows(l) \/ SleepElapsed(l) \/ Accept(l)
      PROVE  Requests'
  BY <1>1, <1>3 DEF Open, AcceptThrows, SleepElapsed, Accept, workVars, clientVars
<1>4. CASE UNCHANGED vars
  BY <1>1, <1>4 DEF vars
<1> QED BY <1>2, <1>3, <1>4, SendKeepsRequests, WorkKeepsRequests DEF Next

----------------------------------------------------------------------------
(***************************************************************************)
(* No more tasks than workers                                              *)
(***************************************************************************)

LEMMA Sizes ==
  ASSUME EnoughWorkers
  PROVE  /\ \A S \in SUBSET Workers : IsFiniteSet(S) /\ Cardinality(S) \in Nat
         /\ \A S \in SUBSET Clients : IsFiniteSet(S) /\ Cardinality(S) \in Nat
         /\ Cardinality(Spawners) \in Nat
<1>1. IsFiniteSet(Workers) /\ IsFiniteSet(Clients) /\ Spawners \subseteq Clients
  BY ServerAssumption DEF EnoughWorkers
<1> QED BY <1>1, FS_Subset, FS_CardinalityType

\* A step that adds no task and no request adds no load.
LEMMA LoadFalls ==
  ASSUME EnoughWorkers, TypeOK, Load,
         Len(queue') \in Nat, Len(queue') <= Len(queue),
         Busy' \subseteq Busy, accepted \subseteq accepted', Unhandled' \subseteq Unhandled
  PROVE  Load'
<1>1. Busy \subseteq Workers /\ Unhandled \subseteq Clients
  BY ServerAssumption DEF Busy, Unhandled
<1>2. /\ Cardinality(Busy) \in Nat /\ Cardinality(Busy') \in Nat
      /\ Cardinality(Busy') <= Cardinality(Busy)
  BY <1>1, Sizes, FS_Subset
<1>3. /\ Cardinality(Unhandled) \in Nat /\ Cardinality(Unhandled') \in Nat
      /\ Cardinality(Unhandled') <= Cardinality(Unhandled)
  BY <1>1, Sizes, FS_Subset
<1>4. /\ Cardinality(Clients \ accepted) \in Nat /\ Cardinality(Clients \ accepted') \in Nat
      /\ Cardinality(Clients \ accepted') <= Cardinality(Clients \ accepted)
  <2>1. (Clients \ accepted') \subseteq (Clients \ accepted)
    OBVIOUS
  <2> QED BY <2>1, Sizes, FS_Subset
<1>5. Len(queue) \in Nat /\ Cardinality(Clients) \in Nat /\ Cardinality(Spawners) \in Nat
  BY LenProperties, Sizes DEF TypeOK
<1> QED BY <1>2, <1>3, <1>4, <1>5 DEF Load

\* A task for a connection comes with the connection.
LEMMA AcceptKeepsLoad ==
  ASSUME EnoughWorkers, TypeOK, Arrivals, Descriptors, Load, NEW l \in Listeners, Accept(l)
  PROVE  Load'
<1>1. PICK c \in Clients \ accepted :
        /\ accepted' = accepted \cup {c} /\ queue' = Append(queue, l)
        /\ UNCHANGED <<at, request, unsent, inbox>>
  BY AcceptFacts
<1>2. Len(queue) \in Nat /\ Len(queue') = Len(queue) + 1
  BY <1>1, Pushed
<1>3. Busy' = Busy /\ Unhandled' = Unhandled
  BY <1>1 DEF Busy, Unhandled
<1>4. Cardinality(Clients \ accepted') = Cardinality(Clients \ accepted) - 1
  <2>1. Clients \ accepted' = (Clients \ accepted) \ {c} /\ c \in Clients \ accepted
    BY <1>1
  <2>2. IsFiniteSet(Clients \ accepted)
    BY Sizes
  <2> QED BY <2>1, <2>2, FS_RemoveElement
<1>5. /\ Cardinality(Busy) \in Nat /\ Cardinality(Clients \ accepted) \in Nat
      /\ Cardinality(Unhandled) \in Nat
      /\ Cardinality(Clients) \in Nat /\ Cardinality(Spawners) \in Nat
  BY Sizes, ServerAssumption DEF Busy, Unhandled
<1> QED BY <1>2, <1>3, <1>4, <1>5 DEF Load

LEMMA TakeKeepsLoad ==
  ASSUME EnoughWorkers, TypeOK, TasksInStep, Load, NEW w \in Workers, Take(w)
  PROVE  Load'
<1>1. Len(queue) \in Nat /\ Len(queue') = Len(queue) - 1
  BY Taken DEF Take
<1>2. /\ at[w] = "idle" /\ at' = [at EXCEPT ![w] = "taken"]
      /\ UNCHANGED <<request, unsent, inbox, accepted>>
  BY DEF Take, Pool!Take, TasksInStep, workVars, clientVars
<1>3. Busy' = Busy \cup {w} /\ w \notin Busy
  BY <1>2 DEF Busy, TypeOK
<1>4. Cardinality(Busy') = Cardinality(Busy) + 1
  <2>1. IsFiniteSet(Busy)
    BY Sizes DEF Busy
  <2> QED BY <1>3, <2>1, FS_AddElement
<1>5. Unhandled' = Unhandled
  <2>1. \A v \in Workers : at'[v] # "closing" <=> at[v] # "closing"
    BY <1>2 DEF TypeOK
  <2> QED BY <1>2, <2>1 DEF Unhandled
<1>6. /\ Cardinality(Busy) \in Nat /\ Cardinality(Clients \ accepted) \in Nat
      /\ Cardinality(Unhandled) \in Nat
      /\ Cardinality(Clients) \in Nat /\ Cardinality(Spawners) \in Nat
  BY Sizes, ServerAssumption DEF Busy, Unhandled
<1> QED BY <1>1, <1>2, <1>4, <1>5, <1>6 DEF Load

\* A handler pushes a task for a request that is then handled, and only once.
LEMMA RespondKeepsLoad ==
  ASSUME EnoughWorkers, TypeOK, Descriptors, Requests, Load, NEW w \in Workers, Respond(w)
  PROVE  Load'
<1>1. /\ at[w] = "responding" /\ at' = [at EXCEPT ![w] = "closing"]
      /\ UNCHANGED <<accepted, request, unsent, inbox>>
  BY DEF Respond, workVars, clientVars
<1>2. Busy' = Busy
  BY <1>1 DEF Busy, TypeOK
<1>3. at'[w] = "closing" /\ \A v \in Workers \ {w} : at'[v] = at[v]
  BY <1>1 DEF TypeOK
<1>4. Unhandled' \subseteq Unhandled
  BY <1>1, <1>3 DEF Unhandled
<1>5. Len(queue) \in Nat
  BY LenProperties DEF TypeOK
<1>6. CASE request[w] \cap Spawners = {}
  <2>1. queue' = queue
    BY <1>6 DEF Respond
  <2> QED BY <1>1, <1>2, <1>4, <1>5, <2>1, LoadFalls
<1>7. CASE request[w] \cap Spawners # {}
  <2>1. PICK c \in Spawners : c \in request[w]
    BY <1>7
  <2>2. queue' = Append(queue, Background)
    BY <1>7 DEF Respond
  <2>3. Len(queue') = Len(queue) + 1
    BY <2>2, Pushed
  <2>4. w \in Serving
    BY <1>1 DEF Serving
  <2>5. \A v \in Workers \ {w} : c \notin request[v]
    <3>1. c = sock[w].conn
      BY <2>1, <2>4 DEF Requests
    <3>2. \A v \in Workers \ {w} : v \in Serving => sock[v].conn # c
      BY <2>4, <3>1 DEF Descriptors
    <3> QED BY <3>2 DEF Requests
  <2>6. c \in Unhandled /\ c \notin unsent \cup inbox
    BY <1>1, <2>1 DEF Unhandled, Requests
  <2>7. Unhandled' \subseteq Unhandled \ {c}
    <3>1. c \notin Unhandled'
      BY <1>1, <1>3, <2>5, <2>6 DEF Unhandled
    <3> QED BY <1>4, <3>1
  <2>8. /\ IsFiniteSet(Unhandled) /\ Cardinality(Unhandled) \in Nat
        /\ Cardinality(Unhandled') \in Nat
    BY Sizes, ServerAssumption DEF Unhandled
  <2>9. Cardinality(Unhandled') <= Cardinality(Unhandled) - 1
    <3>1. /\ IsFiniteSet(Unhandled \ {c})
          /\ Cardinality(Unhandled \ {c}) = Cardinality(Unhandled) - 1
      BY <2>6, <2>8, FS_RemoveElement
    <3> QED BY <2>7, <3>1, FS_Subset
  <2>10. /\ Cardinality(Busy) \in Nat /\ Cardinality(Clients \ accepted) \in Nat
         /\ Cardinality(Clients) \in Nat /\ Cardinality(Spawners) \in Nat
    BY Sizes DEF Busy
  <2> QED BY <1>1, <1>2, <1>5, <2>3, <2>8, <2>9, <2>10 DEF Load
<1> QED BY <1>6, <1>7

LEMMA WorkKeepsLoad ==
  ASSUME EnoughWorkers, TypeOK, TasksInStep, Descriptors, Requests, Load,
         NEW w \in Workers, Work(w)
  PROVE  Load'
<1>0. Len(queue) \in Nat
  BY LenProperties DEF TypeOK
<1>1. CASE CopyClientData(w) \/ PollEnd(w) \/ PollNothing(w) \/ SendKills(w)
  <2>1. /\ \A v \in Workers \ {w} : at'[v] = at[v]
        /\ at[w] \notin {"idle", "closing"} /\ at'[w] # "idle"
        /\ UNCHANGED <<queue, accepted, request, unsent, inbox>>
    BY <1>1 DEF CopyClientData, PollEnd, PollNothing, SendKills, TypeOK, workVars, clientVars
  <2>2. Busy' = Busy /\ Unhandled' \subseteq Unhandled
    BY <2>1 DEF Busy, Unhandled
  <2> QED BY <1>0, <2>1, <2>2, LoadFalls
<1>2. CASE FinishBackground(w) \/ CloseSocket(w)
  <2>1. /\ \A v \in Workers \ {w} : at'[v] = at[v] /\ request'[v] = request[v]
        /\ at'[w] = "idle" /\ request'[w] = {} /\ inbox' \subseteq inbox
        /\ UNCHANGED <<queue, accepted, unsent>>
    <3>1. CASE FinishBackground(w)
      <4>1. request[w] = {}
        <5>1. w \notin Serving
          BY <3>1 DEF FinishBackground, Serving
        <5> QED BY <5>1 DEF Requests
      <4> QED BY <3>1, <4>1 DEF FinishBackground, Pool!Finish, TypeOK, workVars, clientVars
    <3>2. CASE CloseSocket(w)
      BY <3>2 DEF CloseSocket, Pool!Finish, TypeOK, clientVars
    <3> QED BY <1>2, <3>1, <3>2
  <2>2. Busy' \subseteq Busy /\ Unhandled' \subseteq Unhandled
    BY <2>1 DEF Busy, Unhandled
  <2> QED BY <1>0, <2>1, <2>2, LoadFalls
<1>3. CASE PollData(w)
  <2>1. PICK c : c = Peer(w)
    OBVIOUS
  <2>2. /\ c \in inbox /\ inbox' = inbox \ {c}
        /\ request'[w] = request[w] \cup {c}
        /\ \A v \in Workers \ {w} : request'[v] = request[v]
        /\ UNCHANGED <<queue, at, accepted, unsent>>
    BY <1>3, <2>1 DEF PollData, TypeOK, clientVars
  <2>3. Busy' = Busy
    BY <2>2 DEF Busy
  <2>4. Unhandled' \subseteq Unhandled
    BY <2>2 DEF Unhandled
  <2> QED BY <1>0, <2>2, <2>3, <2>4, LoadFalls
<1> QED BY <1>1, <1>2, <1>3, RespondKeepsLoad DEF Work

LEMMA LoadStep ==
  ASSUME EnoughWorkers, IInv, [Next]_vars
  PROVE  Load'
<1> USE DEF IInv
<1>0. Len(queue) \in Nat
  BY LenProperties DEF TypeOK
<1>1. ASSUME UNCHANGED <<queue, at, accepted, request, unsent, inbox>> PROVE Load'
  BY <1>1 DEF Load, Busy, Unhandled
<1>2. ASSUME NEW c \in Clients, (\E l \in Listeners : Connect(c, l)) \/ HangUp(c) PROVE Load'
  BY <1>1, <1>2 DEF Connect, HangUp, workVars
<1>3. ASSUME NEW c \in Clients, SendRequest(c) PROVE Load'
  <2>1. /\ c \in unsent /\ unsent' = unsent \ {c} /\ inbox' \subseteq inbox \cup {c}
        /\ UNCHANGED <<queue, at, accepted, request>>
    BY <1>3 DEF SendRequest, workVars
  <2>2. Busy' = Busy /\ Unhandled' \subseteq Unhandled
    BY <2>1 DEF Busy, Unhandled
  <2> QED BY <1>0, <2>1, <2>2, LoadFalls
<1>4. ASSUME NEW l \in Listeners, Open(l) \/ AcceptThrows(l) \/ SleepElapsed(l) PROVE Load'
  BY <1>1, <1>4 DEF Open, AcceptThrows, SleepElapsed, workVars, clientVars
<1>5. CASE UNCHANGED vars
  BY <1>1, <1>5 DEF vars
<1> QED BY <1>2, <1>3, <1>4, <1>5, AcceptKeepsLoad, TakeKeepsLoad, WorkKeepsLoad DEF Next

----------------------------------------------------------------------------
(***************************************************************************)
(* Invariance                                                              *)
(***************************************************************************)

LEMMA InitHolds ==
  ASSUME EnoughWorkers, Init
  PROVE  IInv
<1>1. /\ queue = <<>> /\ job = [w \in Workers |-> None] /\ at = [w \in Workers |-> "idle"]
      /\ backlog = [l \in Listeners |-> <<>>] /\ fds = [f \in Fds |-> None]
      /\ request = [w \in Workers |-> {}] /\ retry = [w \in Workers |-> 0]
      /\ accepted = {} /\ inbox = {} /\ unsent = Clients /\ linked = {} /\ replies = {}
      /\ up = TRUE /\ opened = {} /\ listening = [l \in Listeners |-> TRUE]
      /\ hungUp = {} /\ ended = {}
  BY DEF Init, Pool!Init
<1>2. slot = [l \in Listeners |-> NoSocket] /\ sock = [w \in Workers |-> NoSocket]
  BY DEF Init
<1>3. Len(queue) = 0 /\ queue \in Seq(Listeners \cup {Background})
  BY <1>1, EmptySeq
<1>4. slot \in [Listeners -> Sockets] /\ sock \in [Workers -> Sockets]
  BY <1>2 DEF NoSocket, Sockets
<1>5. backlog \in [Listeners -> Seq(Clients)] /\ \A l \in Listeners : Len(backlog[l]) = 0
  BY <1>1, EmptySeq
<1>6. TypeOK
  BY <1>1, <1>3, <1>4, <1>5, ServerAssumption DEF TypeOK
<1>7. Serving = {} /\ Busy = {} /\ \A l \in Listeners : ~Owed(l)
  BY <1>1, <1>3, ServerAssumption DEF Serving, Busy, Owed
<1>8. TasksInStep
  BY <1>1, <1>3, <1>7 DEF TasksInStep
<1>9. Arrivals
  BY <1>1, <1>5 DEF Arrivals
<1>10. Descriptors
  BY <1>1, <1>7 DEF Descriptors
<1>11. Requests
  BY <1>1, <1>7 DEF Requests
<1>12. Load
  <2>1. Clients \ accepted = Clients
    BY <1>1
  <2>2. Cardinality(Busy) = 0
    BY <1>7, FS_EmptySet
  <2>3. Cardinality(Unhandled) \in Nat /\ Cardinality(Unhandled) <= Cardinality(Spawners)
    <3>1. Unhandled \subseteq Spawners /\ IsFiniteSet(Spawners)
      BY ServerAssumption, FS_Subset DEF Unhandled
    <3> QED BY <3>1, FS_Subset, FS_CardinalityType
  <2>4. Cardinality(Clients) \in Nat /\ Cardinality(Spawners) \in Nat
    BY Sizes
  <2>5. Cardinality(Clients \ accepted) = Cardinality(Clients)
    BY <2>1, Zenon
  <2> QED BY <1>3, <2>2, <2>3, <2>4, <2>5 DEF Load
<1>13. AnswersGoHome
  BY <1>1 DEF AnswersGoHome
<1> QED BY <1>6, <1>8, <1>9, <1>10, <1>11, <1>12, <1>13 DEF IInv

LEMMA AnswersStep ==
  ASSUME IInv, [Next]_vars
  PROVE  AnswersGoHome'
<1> USE DEF IInv
<1>1. ASSUME UNCHANGED replies PROVE AnswersGoHome'
  BY <1>1 DEF AnswersGoHome
<1>2. ASSUME NEW w \in Workers, Respond(w) PROVE AnswersGoHome'
  <2>1. w \in Serving
    BY <1>2 DEF Respond, Serving
  <2>2. request[w] \subseteq {sock[w].conn} /\ Peer(w) = sock[w].conn
    BY <2>1, PeerIsOwn DEF Requests, Serving
  <2>3. replies' = replies \cup (request[w] \X ({Peer(w)} \ {None}))
    BY <1>2 DEF Respond
  <2>4. \A r \in request[w] \X ({Peer(w)} \ {None}) : r[1] = r[2]
    BY <2>2
  <2>5. \A r \in replies' : r \in replies \/ r[1] = r[2]
    BY ONLY <2>3, <2>4
  <2> QED BY <2>5 DEF AnswersGoHome
<1>3. ASSUME NEW c \in Clients, (\E l \in Listeners : Connect(c, l)) \/ SendRequest(c) \/ HangUp(c)
      PROVE  AnswersGoHome'
  BY <1>1, <1>3 DEF Connect, SendRequest, HangUp
<1>4. ASSUME NEW l \in Listeners, Open(l) \/ AcceptThrows(l) \/ SleepElapsed(l) \/ Accept(l)
      PROVE  AnswersGoHome'
  BY <1>1, <1>4 DEF Open, AcceptThrows, SleepElapsed, Accept
<1>5. ASSUME NEW w \in Workers,
             \/ Take(w) \/ CopyClientData(w) \/ FinishBackground(w) \/ PollData(w) \/ PollEnd(w)
             \/ PollNothing(w) \/ SendKills(w) \/ CloseSocket(w)
      PROVE  AnswersGoHome'
  BY <1>1, <1>5 DEF Take, CopyClientData, FinishBackground, PollData, PollEnd, PollNothing,
                    SendKills, CloseSocket
<1>6. CASE UNCHANGED vars
  BY <1>1, <1>6 DEF vars
<1> QED BY <1>2, <1>3, <1>4, <1>5, <1>6 DEF Next, Work

LEMMA TypeStep ==
  ASSUME IInv, [Next]_vars
  PROVE  TypeOK'
<1>1. CASE UNCHANGED vars
  BY <1>1 DEF vars, serverVars, IInv, TypeOK
<1> QED BY <1>1, AcceptType, OutsideType, WorkerType DEF Next

LEMMA InductiveInvariance ==
  ASSUME EnoughWorkers
  PROVE  Spec => []IInv
<1>1. Init => IInv
  BY InitHolds
<1>2. IInv /\ [Next]_vars => IInv'
  BY TypeStep, TasksStep, ArrivalsStep, DescriptorsStep, RequestsStep, LoadStep, AnswersStep
     DEF IInv
<1> QED BY <1>1, <1>2, PTL DEF Spec

(***************************************************************************)
(* With a worker for every task, the task that ListenThreadProc pushes     *)
(* copies clientData before the next connection overwrites it              *)
(* (CServerSocket.cpp): every connection is served by one worker, on a     *)
(* descriptor that is its own.                                             *)
(***************************************************************************)
THEOREM ConnectionsAreServedAlone ==
  ASSUME EnoughWorkers
  PROVE  Spec => []ServedAlone
<1>1. IInv => ServedAlone
  <2> SUFFICES ASSUME IInv PROVE ServedAlone
    OBVIOUS
  <2>1. OwnDescriptor
    BY PeerIsOwn DEF OwnDescriptor, IInv
  <2>2. SoleServer
    BY DEF SoleServer, IInv, Descriptors
  <2> QED BY <2>1, <2>2 DEF ServedAlone, IInv
<1> QED BY <1>1, InductiveInvariance, PTL

(***************************************************************************)
(* Under the same condition every answer of the pipeline goes to the       *)
(* client whose request it answers.                                        *)
(***************************************************************************)
THEOREM AnswersFindTheirClients ==
  ASSUME EnoughWorkers
  PROVE  Spec => []AnswersGoHome
BY InductiveInvariance, PTL DEF IInv

(***************************************************************************)
(* Whatever listeners, pipelines and handlers do, ThreadPoolSingleton::pool*)
(* is to them the queue that ThreadPool is shown to implement: each step   *)
(* pushes one task, takes one, ends one, or leaves the pool alone.         *)
(***************************************************************************)
THEOREM TheServerUsesAWorkQueue == Spec => Pool!Spec
<1>1. Init => Pool!Init
  BY DEF Init
<1>2. [Next]_vars => [Pool!Next]_(Pool!wqVars)
  <2> SUFFICES ASSUME [Next]_vars
               PROVE  Pool!Next \/ UNCHANGED <<queue, job>>
    BY DEF Pool!wqVars
  <2>1. ASSUME NEW l \in Listeners, Accept(l)
        PROVE  Pool!Submit
    BY <2>1 DEF Accept, Pool!Submit
  <2>2. ASSUME NEW w \in Workers, Respond(w)
        PROVE  Pool!Submit \/ UNCHANGED <<queue, job>>
    BY <2>2 DEF Respond, Pool!Submit
  <2>3. ASSUME NEW w \in Workers, Take(w)
        PROVE  Pool!Take(w)
    BY <2>3 DEF Take
  <2>4. ASSUME NEW w \in Workers, CloseSocket(w) \/ FinishBackground(w)
        PROVE  Pool!Finish(w)
    BY <2>4 DEF CloseSocket, FinishBackground
  <2>5. ASSUME NEW w \in Workers, \/ CopyClientData(w) \/ PollData(w) \/ PollEnd(w)
                                  \/ PollNothing(w) \/ SendKills(w)
        PROVE  UNCHANGED <<queue, job>>
    BY <2>5 DEF CopyClientData, PollData, PollEnd, PollNothing, SendKills
  <2>6. ASSUME NEW l \in Listeners, Open(l) \/ AcceptThrows(l) \/ SleepElapsed(l)
        PROVE  UNCHANGED <<queue, job>>
    BY <2>6 DEF Open, AcceptThrows, SleepElapsed
  <2>7. ASSUME NEW c \in Clients, SendRequest(c) \/ HangUp(c) \/ \E l \in Listeners : Connect(c, l)
        PROVE  UNCHANGED <<queue, job>>
    BY <2>7 DEF SendRequest, HangUp, Connect
  <2>8. CASE UNCHANGED vars
    BY <2>8 DEF vars
  <2> QED BY <2>1, <2>2, <2>3, <2>4, <2>5, <2>6, <2>7, <2>8 DEF Next, Work, Pool!Next
<1> QED BY <1>1, <1>2, PTL DEF Spec, Pool!Spec
=============================================================================
