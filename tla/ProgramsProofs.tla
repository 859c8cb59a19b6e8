---------------------------- MODULE ProgramsProofs ----------------------------
(***************************************************************************)
(* Proofs about the smaller programs, for any values of their constants.   *)
(* Each section is about one program: the others stay where they began.    *)
(* (RelaysProofs, about the relays, has the lemmas on sequences of bytes.) *)
(***************************************************************************)
EXTENDS RelaysProofs, FiniteSetTheorems, WellFoundedInduction

\* A step of a behaviour of one program is one of its own.
LEMMA StepIsOwn ==
  ASSUME [Next]_vars
  PROVE  /\ program' = program
         /\ program = "single-thread" => Slot!Next \/ UNCHANGED slotVars
         /\ program = "chat-client" => Client!Next \/ UNCHANGED clientVars
         /\ program = "ssl-client" => Echo!Next \/ UNCHANGED echoVars
         /\ program = "file-upload" => Upload!Next \/ UNCHANGED uploadVars
         /\ program = "turn-based" => Turns!Next \/ UNCHANGED turnVars
         /\ program = "logger" => Log!Next \/ UNCHANGED logVars
         /\ program = "load_balancer" => Balance!Next \/ UNCHANGED balancerVars
         /\ program = "socket" => Ref!Next \/ UNCHANGED socketVars
<1>1. CASE UNCHANGED vars
  BY <1>1 DEF vars
<1>2. CASE Next
  BY <1>2 DEF Next, InPassthrough, InProxySocket, InLibuv, InSslProxy, InSlotServer,
              InChatClient, InSslEcho, InUpload, InTurnChat, InLogger, InBalancer, InSocket
<1> QED BY <1>1, <1>2

\* The smallest of some numbers.
LEMMA MinIs ==
  ASSUME NEW S \in SUBSET Nat, NEW n \in S, \A m \in S : n <= m
  PROVE  Min(S) = n
<1>1. \E x \in S : \A y \in S : x <= y
  OBVIOUS
<1>2. Min(S) \in S /\ \A y \in S : Min(S) <= y
  BY <1>1 DEF Min
<1>3. n <= Min(S) /\ Min(S) <= n /\ n \in Nat /\ Min(S) \in Nat
  BY <1>2
<1> QED BY <1>3

\* Queues.
LEMMA Appended ==
  ASSUME NEW S, NEW q \in Seq(S), NEW x \in S
  PROVE  /\ Append(q, x) \in Seq(S)
         /\ Len(q) \in Nat /\ Len(Append(q, x)) = Len(q) + 1
         /\ \A k \in 1..Len(q) : Append(q, x)[k] = q[k]
         /\ Append(q, x)[Len(q) + 1] = x
BY AppendProperties, LenProperties

LEMMA LenIs ==
  ASSUME NEW S, NEW n \in Nat, NEW f \in [1..n -> S]
  PROVE  f \in Seq(S) /\ Len(f) = n
<1>1. f \in Seq(S)
  BY SeqDef
<1>2. Len(f) \in Nat /\ DOMAIN f = 1..Len(f) /\ DOMAIN f = 1..n
  BY <1>1, LenProperties
<1> QED BY <1>1, <1>2

LEMMA Beheaded ==
  ASSUME NEW S, NEW q \in Seq(S), q # <<>>
  PROVE  /\ Tail(q) \in Seq(S) /\ Head(q) \in S /\ Head(q) = q[1]
         /\ Len(q) \in Nat /\ Len(Tail(q)) \in Nat /\ Len(Tail(q)) = Len(q) - 1
         /\ \A k \in 1..Len(Tail(q)) : k + 1 \in 1..Len(q) /\ Tail(q)[k] = q[k + 1]
<1>1. /\ Tail(q) \in Seq(S) /\ Len(Tail(q)) = Len(q) - 1
      /\ \A k \in 1..Len(Tail(q)) : Tail(q)[k] = q[k + 1]
      /\ Head(q) = q[1]
  BY HeadTailProperties
<1>2. Len(q) \in Nat /\ Len(q) # 0
  BY LenProperties, EmptySeq
<1>3. q[1] \in S
  BY <1>2, ElementOfSeq
<1> QED BY <1>1, <1>2, <1>3

----------------------------------------------------------------------------
(***************************************************************************)
(* The turn-based chat                                                     *)
(***************************************************************************)

\* Where the line of a round is: with the client, on its way, with the server, ...
Round(atClient, atServer, forClient, forServer, ahead) ==
  /\ turn["client"] = atClient /\ turn["server"] = atServer
  /\ Len(toRead["client"]) = forClient /\ Len(toRead["server"]) = forServer
  /\ turns["client"] = turns["server"] + ahead

TurnInv ==
  /\ Turns!TypeOK
  /\ toRead \in [Turns!Ends -> Seq(Turns!Lines)]
  /\ noInput = {} /\ stopped = {} =>
       /\ cut = {}
       /\ \/ Round("starting", "starting", 0, 0, 0)
          \/ Round("typing", "receiving", 0, 0, 0)
          \/ Round("receiving", "receiving", 0, 1, 1)
          \/ Round("receiving", "typing", 0, 0, 1)
          \/ Round("receiving", "receiving", 1, 0, 0) /\ Head(toRead["client"]) # "exit"
          \/ Round("receiving", "left", 1, 0, 0) /\ Head(toRead["client"]) = "exit"
          \/ Round("left", "left", 0, 0, 0)

LEMMA TurnTypes ==
  ASSUME TurnInv, Turns!Next
  PROVE  Turns!TypeOK' /\ (toRead \in [Turns!Ends -> Seq(Turns!Lines)])'
<1> USE ProgramsAssumption DEF TurnInv, Turns!TypeOK, Turns!Ends
<1>1. CASE Turns!Meet
  BY <1>1 DEF Turns!Meet
<1>2. ASSUME NEW e \in Turns!Ends, Turns!Start(e) \/ Turns!SendNothing(e) \/ Turns!SendFails(e)
                                   \/ Turns!Interrupt(e)
      PROVE  Turns!TypeOK' /\ (toRead \in [Turns!Ends -> Seq(Turns!Lines)])'
  BY <1>2 DEF Turns!Start, Turns!SendNothing, Turns!SendFails, Turns!Interrupt, Turns!Stop
<1>3. ASSUME NEW e \in Turns!Ends, Turns!SendLine(e)
      PROVE  Turns!TypeOK' /\ (toRead \in [Turns!Ends -> Seq(Turns!Lines)])'
  <2>1. Turns!Partner(e) \in Turns!Ends
    BY DEF Turns!Partner
  <2>2. \A word \in Turns!Lines : Append(toRead[Turns!Partner(e)], word) \in Seq(Turns!Lines)
    BY <2>1, AppendProperties
  <2> QED BY <1>3, <2>1, <2>2 DEF Turns!SendLine, Turns!AfterSend
<1>4. ASSUME NEW e \in Turns!Ends, Turns!Receive(e)
      PROVE  Turns!TypeOK' /\ (toRead \in [Turns!Ends -> Seq(Turns!Lines)])'
  <2>1. toRead[e] # <<>> => Tail(toRead[e]) \in Seq(Turns!Lines)
    BY HeadTailProperties
  <2>2. toRead' \in [Turns!Ends -> Seq(Turns!Lines)]
    BY <1>4, <2>1 DEF Turns!Receive
  <2>3. turn' \in [Turns!Ends -> {"starting", "typing", "receiving", "left"}]
    BY <1>4 DEF Turns!Receive, Turns!Stop
  <2>4. stopped' \subseteq Turns!Ends /\ cut' \subseteq Turns!Ends
    BY <1>4 DEF Turns!Receive, Turns!Stop
  <2> QED BY <1>4, <2>2, <2>3, <2>4 DEF Turns!Receive
<1> QED BY <1>1, <1>2, <1>3, <1>4 DEF Turns!Next

LEMMA TurnStep ==
  ASSUME TurnInv, Turns!Next
  PROVE  TurnInv'
<1>1. CASE Turns!Meet
  BY <1>1, TurnTypes DEF TurnInv, Round, Turns!Meet, Turns!Ends
<1>2. ASSUME NEW e \in Turns!Ends, Turns!Start(e) \/ Turns!SendNothing(e) \/ Turns!Interrupt(e)
      PROVE  TurnInv'
  BY <1>2, TurnTypes DEF TurnInv, Turns!Start, Turns!SendNothing, Turns!Interrupt, Turns!Stop
<1>3. ASSUME NEW e \in Turns!Ends, Turns!SendFails(e)
      PROVE  TurnInv'
  BY <1>3, TurnTypes DEF TurnInv, Turns!SendFails, Turns!Stop
<1>4. ASSUME NEW e \in Turns!Ends, Turns!SendLine(e)
      PROVE  TurnInv'
  <2> SUFFICES ASSUME noInput' = {}, stopped' = {}
               PROVE  TurnInv'
    BY TurnTypes DEF TurnInv
  <2>1. noInput = {} /\ stopped = {} /\ cut' = cut /\ turn[e] = "typing"
    BY <1>4 DEF Turns!SendLine
  <2>2. PICK word \in Turns!Lines :
          /\ toRead' = [toRead EXCEPT ![Turns!Partner(e)] = Append(@, word)]
          /\ turn' = [turn EXCEPT ![e] = Turns!AfterSend(e, word)]
    BY <1>4 DEF Turns!SendLine
  <2>3. turns' = [turns EXCEPT ![e] = @ + 1]
    BY <1>4 DEF Turns!SendLine
  <2>4. CASE e = "client"
    <3>1. Round("typing", "receiving", 0, 0, 0)
      BY <2>1, <2>4 DEF TurnInv, Round
    <3>2. Len(toRead'["server"]) = 1 /\ toRead'["client"] = toRead["client"]
      BY <2>2, <2>4, <3>1, AppendProperties DEF TurnInv, Round, Turns!Partner, Turns!Ends
    <3>3. /\ turn'["client"] = "receiving" /\ turn'["server"] = "receiving"
          /\ turns'["client"] = turns'["server"] + 1
      BY <2>2, <2>3, <2>4, <3>1, ProgramsAssumption
         DEF TurnInv, Round, Turns!AfterSend, Turns!TypeOK, Turns!Ends
    <3>4. Round("receiving", "receiving", 0, 1, 1)'
      BY <3>1, <3>2, <3>3 DEF Round
    <3> QED BY <2>1, <3>4, TurnTypes DEF TurnInv
  <2>5. CASE e = "server"
    <3>1. Round("receiving", "typing", 0, 0, 1)
      BY <2>1, <2>5 DEF TurnInv, Round
    <3>2. /\ Len(toRead'["client"]) = 1 /\ toRead'["server"] = toRead["server"]
          /\ Head(toRead'["client"]) = word
      <4>1. toRead["client"] = <<>>
        BY <3>1, EmptySeq DEF TurnInv, Round, Turns!Ends
      <4>2. toRead'["client"] = Append(<<>>, word) /\ toRead'["server"] = toRead["server"]
        BY <2>2, <2>5, <4>1 DEF TurnInv, Turns!Partner, Turns!Ends
      <4>3. Append(<<>>, word) = <<word>>
        OBVIOUS
      <4> QED BY <4>2, <4>3
    <3>3. /\ turn'["client"] = "receiving"
          /\ turn'["server"] = IF word = "exit" THEN "left" ELSE "receiving"
          /\ turns'["client"] = turns'["server"]
      BY <2>2, <2>3, <2>5, <3>1, ProgramsAssumption
         DEF TurnInv, Round, Turns!AfterSend, Turns!TypeOK, Turns!Ends
    <3>4. \/ Round("receiving", "receiving", 1, 0, 0)' /\ Head(toRead'["client"]) # "exit"
          \/ Round("receiving", "left", 1, 0, 0)' /\ Head(toRead'["client"]) = "exit"
      BY <3>1, <3>2, <3>3, TurnTypes, ProgramsAssumption DEF Round, Turns!TypeOK, Turns!Ends
    <3> QED BY <2>1, <3>4, TurnTypes DEF TurnInv
  <2> QED BY <1>4, <2>4, <2>5 DEF Turns!Ends
<1>5. ASSUME NEW e \in Turns!Ends, Turns!Receive(e)
      PROVE  TurnInv'
  <2> SUFFICES ASSUME noInput' = {}, stopped' = {}
               PROVE  TurnInv'
    BY TurnTypes DEF TurnInv
  <2>1. noInput = {} /\ stopped = {} /\ cut = {} /\ turn[e] = "receiving" /\ turns' = turns
    <3>1. stopped = {}
      BY <1>5 DEF Turns!Receive, Turns!Stop
    <3> QED BY <1>5, <3>1 DEF TurnInv, Turns!Receive
  <2>2. /\ toRead[e] # <<>>
        /\ toRead' = [toRead EXCEPT ![e] = Tail(@)]
        /\ turn' = [turn EXCEPT ![e] =
                      IF e = "client" /\ Head(toRead[e]) = "exit" THEN "left" ELSE "typing"]
        /\ cut' = cut
    <3>1. toRead[e] = <<>> /\ turn[Turns!Partner(e)] = "left" => FALSE
      BY <2>1, EmptySeq DEF TurnInv, Round, Turns!Partner, Turns!Ends
    <3> QED BY <1>5, <3>1 DEF Turns!Receive
  <2>3. Len(toRead[e]) > 0 /\ Len(toRead'[e]) = Len(toRead[e]) - 1
    BY <2>2, HeadTailProperties, EmptySeq DEF TurnInv, Turns!Ends
  <2>4. CASE e = "client"
    <3>1. \/ Round("receiving", "receiving", 1, 0, 0) /\ Head(toRead["client"]) # "exit"
          \/ Round("receiving", "left", 1, 0, 0) /\ Head(toRead["client"]) = "exit"
      BY <2>1, <2>3, <2>4 DEF TurnInv, Round
    <3>2. Len(toRead'["client"]) = 0 /\ toRead'["server"] = toRead["server"]
      BY <2>2, <2>3, <2>4, <3>1 DEF TurnInv, Round, Turns!Ends
    <3>3. \/ Round("typing", "receiving", 0, 0, 0)'
          \/ Round("left", "left", 0, 0, 0)'
      BY <2>1, <2>2, <2>4, <3>1, <3>2 DEF TurnInv, Round, Turns!TypeOK, Turns!Ends
    <3> QED BY <2>1, <2>2, <3>3, TurnTypes DEF TurnInv
  <2>5. CASE e = "server"
    <3>1. Round("receiving", "receiving", 0, 1, 1)
      BY <2>1, <2>3, <2>5 DEF TurnInv, Round
    <3>2. Len(toRead'["server"]) = 0 /\ toRead'["client"] = toRead["client"]
      BY <2>2, <2>3, <2>5, <3>1 DEF TurnInv, Round, Turns!Ends
    <3>3. Round("receiving", "typing", 0, 0, 1)'
      BY <2>1, <2>2, <2>5, <3>1, <3>2 DEF TurnInv, Round, Turns!TypeOK, Turns!Ends
    <3> QED BY <2>1, <2>2, <3>3, TurnTypes DEF TurnInv
  <2> QED BY <1>5, <2>4, <2>5 DEF Turns!Ends
<1> QED BY <1>1, <1>2, <1>3, <1>4, <1>5 DEF Turns!Next

(***************************************************************************)
(* The two ends of the turn-based chat have one turn between them, however *)
(* many lines they type: neither waits while the other waits for it.       *)
(***************************************************************************)
THEOREM TheTurnsAlternate == Spec => []TurnsAlternate
<1> DEFINE Inv == program = "turn-based" => TurnInv
<1>1. Init => Inv
  <2> SUFFICES ASSUME Init PROVE TurnInv
    OBVIOUS
  <2>1. Turns!Init
    BY DEF Init
  <2>2. <<>> \in Seq(Turns!Lines) /\ Len(<<>>) = 0
    BY EmptySeq
  <2> QED BY <2>1, <2>2, ProgramsAssumption
          DEF TurnInv, Round, Turns!Init, Turns!TypeOK, Turns!Ends
<1>2. Inv /\ [Next]_vars => Inv'
  <2> SUFFICES ASSUME Inv, [Next]_vars, program' = "turn-based"
               PROVE  TurnInv'
    OBVIOUS
  <2>1. TurnInv /\ (Turns!Next \/ UNCHANGED turnVars)
    BY StepIsOwn
  <2>2. CASE UNCHANGED turnVars
    BY <2>1, <2>2 DEF turnVars, TurnInv, Round, Turns!TypeOK
  <2> QED BY <2>1, <2>2, TurnStep
<1>3. Inv => TurnsAlternate
  <2> SUFFICES ASSUME TurnInv PROVE Turns!TurnsAlternate
    BY DEF TurnsAlternate
  <2> SUFFICES ASSUME noInput = {}, stopped = {}
               PROVE  /\ Len(toRead["client"]) + Len(toRead["server"]) <= 1
                      /\ turns["server"] \in {turns["client"] - 1, turns["client"]}
                      /\ turn["client"] = "receiving" /\ turn["server"] = "receiving"
                           => toRead["client"] # <<>> \/ toRead["server"] # <<>>
                      /\ ~(turn["client"] = "typing" /\ turn["server"] = "typing")
    BY DEF TurnInv, Turns!TurnsAlternate, Turns!Ends
  <2>1. \A e \in Turns!Ends : turns[e] \in Nat /\ Len(toRead[e]) \in Nat
    BY ProgramsAssumption, LenProperties DEF TurnInv, Turns!TypeOK
  <2>2. \A e \in Turns!Ends : Len(toRead[e]) = 1 => toRead[e] # <<>>
    BY EmptySeq
  <2>3. \/ Round("starting", "starting", 0, 0, 0)
        \/ Round("typing", "receiving", 0, 0, 0)
        \/ Round("receiving", "receiving", 0, 1, 1)
        \/ Round("receiving", "typing", 0, 0, 1)
        \/ Round("receiving", "receiving", 1, 0, 0)
        \/ Round("receiving", "left", 1, 0, 0)
        \/ Round("left", "left", 0, 0, 0)
    BY DEF TurnInv
  <2>4. turns["server"] \in {turns["client"] - 1, turns["client"]}
    BY <2>1, <2>3 DEF Round, Turns!Ends
  <2>5. Len(toRead["client"]) + Len(toRead["server"]) <= 1
    <3>1. \/ Len(toRead["client"]) = 0 /\ Len(toRead["server"]) = 0
          \/ Len(toRead["client"]) = 1 /\ Len(toRead["server"]) = 0
          \/ Len(toRead["client"]) = 0 /\ Len(toRead["server"]) = 1
      BY <2>3, Zenon DEF Round
    <3>2. 0 + 0 <= 1 /\ 1 + 0 <= 1 /\ 0 + 1 <= 1
      OBVIOUS
    <3> QED BY <3>1, <3>2, Zenon
  <2>6. turn["client"] = "receiving" /\ turn["server"] = "receiving"
          => toRead["client"] # <<>> \/ toRead["server"] # <<>>
    BY <2>2, <2>3 DEF Round, Turns!Ends
  <2>7. ~(turn["client"] = "typing" /\ turn["server"] = "typing")
    BY <2>3 DEF Round
  <2> QED BY <2>4, <2>5, <2>6, <2>7
<1> QED BY <1>1, <1>2, <1>3, PTL DEF Spec

----------------------------------------------------------------------------
(***************************************************************************)
(* The single-threaded servers                                             *)
(***************************************************************************)

SlotTypes ==
  /\ waitsWith \in {"select", "poll"}
  /\ server \in {"starting", "waiting", "serving", "exited", "undefined"}
  /\ slots \in [Slot!Slots -> 0..Slot!Invalid]
  /\ fds \in Seq(Users) /\ arrived \in Seq(Users)
  /\ ready \subseteq 0..Len(fds)
  /\ user \in [Users -> {"new", "waiting", "talking", "gone"}]
  /\ unread \in [Users -> 0..MaxSaid] /\ said \in [Users -> 0..MaxSaid]
  /\ \A u \in Users : unread[u] <= said[u]

\* A user connects once, so that there are not more descriptors than users.
Dialled == {u \in Users : user[u] # "new"}
Counted == Len(fds) + Len(arrived) = Cardinality(Dialled)

(***************************************************************************)
(* The slots are filled in the order of the descriptors: as none is ever   *)
(* freed, slot s has descriptor s.  An invalid descriptor takes the next   *)
(* slot, and the server that stored it has no other turn.                  *)
(***************************************************************************)
Filled ==
  /\ \A s \in Slot!Slots : s <= Len(fds) => slots[s] = s
  /\ \A s \in Slot!Slots : s > Len(fds) => \/ slots[s] = Slot!Free
                                           \/ slots[s] = Slot!Invalid /\ server # "serving"

Exited == /\ server = "starting" => fds = <<>>
          /\ server = "exited" => fds = <<>> \/ broken # {}

\* Connections wait until they are accepted, so that accept() finds the one reported.
Reported == Slot!Listener \in ready => arrived # <<>>

SlotInv == SlotTypes /\ Counted /\ Filled /\ Exited /\ Reported

\* The operators of the library are the same in an instance.
LEMMA SlotOperators ==
  /\ Slot!Invalid = Cardinality(Users) + 1
  /\ \A S : Slot!Min(S) = Min(S)
<1>1. Slot!Cardinality(Users) = Cardinality(Users)
  BY Zenon DEF Slot!Cardinality, Cardinality
<1>2. \A S : Slot!Min(S) = Min(S)
  BY Zenon DEF Slot!Min, Min
<1> QED BY <1>1, <1>2 DEF Slot!Invalid

LEMMA SlotBounds ==
  ASSUME SlotInv
  PROVE  /\ Len(fds) \in Nat /\ Len(arrived) \in Nat
         /\ IsFiniteSet(Dialled) /\ Cardinality(Dialled) <= Cardinality(Users)
         /\ Cardinality(Users) \in Nat /\ Cardinality(Dialled) \in Nat
         /\ Len(fds) + Len(arrived) <= Cardinality(Users)
<1>1. Len(fds) \in Nat /\ Len(arrived) \in Nat
  BY LenProperties DEF SlotInv, SlotTypes
<1>2. /\ IsFiniteSet(Dialled) /\ Cardinality(Dialled) <= Cardinality(Users)
      /\ Cardinality(Users) \in Nat /\ Cardinality(Dialled) \in Nat
  <2>1. Dialled \subseteq Users
    BY DEF Dialled
  <2> QED BY <2>1, ProgramsAssumption, FS_Subset, FS_CardinalityType
<1> QED BY <1>1, <1>2 DEF SlotInv, Counted

\* The users.
LEMMA UserStep ==
  ASSUME SlotInv, NEW u \in Users, \/ Slot!Connect(u) \/ Slot!ReadWelcome(u) \/ Slot!Say(u)
                                   \/ Slot!Leave(u) \/ Slot!Break(u)
  PROVE  SlotInv'
<1> DEFINE States == {"new", "waiting", "talking", "gone"}
<1>1. UNCHANGED <<waitsWith, server, slots, fds, ready>>
  BY DEF Slot!Connect, Slot!ReadWelcome, Slot!Say, Slot!Leave, Slot!Break, Slot!tableVars
<1>2. broken \subseteq broken'
  BY DEF Slot!Connect, Slot!ReadWelcome, Slot!Say, Slot!Leave, Slot!Break
<1>3. Filled' /\ Exited'
  BY <1>1, <1>2 DEF SlotInv, Filled, Exited
<1>4. user' \in [Users -> States] /\ (Slot!Connect(u) \/ Dialled' = Dialled)
  BY DEF SlotInv, SlotTypes, Dialled, Slot!Connect, Slot!ReadWelcome, Slot!Say, Slot!Leave,
         Slot!Break, Slot!userVars
<1>5. /\ unread' \in [Users -> 0..MaxSaid] /\ said' \in [Users -> 0..MaxSaid]
      /\ \A v \in Users : unread'[v] <= said'[v]
  <2>1. CASE UNCHANGED <<unread, said>>
    BY <2>1 DEF SlotInv, SlotTypes
  <2>2. CASE Slot!Say(u)
    <3>1. \A v \in Users : unread[v] \in Nat /\ said[v] \in Nat /\ unread[v] <= said[v]
                           /\ said[v] <= MaxSaid
      BY ProgramsAssumption DEF SlotInv, SlotTypes
    <3>2. /\ said[u] < MaxSaid
          /\ said' = [said EXCEPT ![u] = said[u] + 1]
          /\ unread' = [unread EXCEPT ![u] = unread[u] + 1]
      BY <2>2 DEF Slot!Say
    <3>3. said[u] + 1 \in 0..MaxSaid /\ unread[u] + 1 \in 0..MaxSaid
      BY <3>1, <3>2, ProgramsAssumption
    <3> QED BY <3>1, <3>2, <3>3 DEF SlotInv, SlotTypes
  <2> QED BY <2>1, <2>2 DEF Slot!Connect, Slot!ReadWelcome, Slot!Leave, Slot!Break, Slot!userVars
<1>6. arrived' \in Seq(Users) /\ Counted'
  <2>1. CASE UNCHANGED arrived /\ Dialled' = Dialled
    BY <1>1, <2>1 DEF SlotInv, SlotTypes, Counted
  <2>2. CASE Slot!Connect(u)
    <3>1. arrived' = Append(arrived, u) /\ arrived \in Seq(Users)
      BY <2>2 DEF Slot!Connect, SlotInv, SlotTypes
    <3>2. arrived' \in Seq(Users) /\ Len(arrived') = Len(arrived) + 1
      BY <3>1, Appended
    <3>3. u \notin Dialled /\ Dialled' = Dialled \cup {u}
      BY <2>2 DEF Slot!Connect, Dialled, SlotInv, SlotTypes
    <3>4. Cardinality(Dialled') = Cardinality(Dialled) + 1
      BY <3>3, SlotBounds, FS_AddElement
    <3> QED BY <1>1, <3>2, <3>4, SlotBounds DEF SlotInv, Counted
  <2> QED BY <1>4, <2>1, <2>2
          DEF Slot!ReadWelcome, Slot!Say, Slot!Leave, Slot!Break, Slot!tableVars
<1>7. Reported'
  <2>1. CASE UNCHANGED arrived
    BY <1>1, <2>1 DEF SlotInv, Reported
  <2>2. CASE Slot!Connect(u)
    <3>1. arrived' = Append(arrived, u) /\ arrived \in Seq(Users)
      BY <2>2 DEF Slot!Connect, SlotInv, SlotTypes
    <3>2. arrived' # <<>>
      BY <3>1, AppendProperties
    <3> QED BY <3>2 DEF Reported
  <2> QED BY <2>1, <2>2 DEF Slot!ReadWelcome, Slot!Say, Slot!Leave, Slot!Break, Slot!tableVars
<1> QED BY <1>1, <1>3, <1>4, <1>5, <1>6, <1>7 DEF SlotInv, SlotTypes

\* The start of the server, and select() or poll().
LEMMA WaitStep ==
  ASSUME SlotInv, Slot!Start \/ Slot!Wait
  PROVE  SlotInv'
<1>1. UNCHANGED <<waitsWith, slots, fds, arrived, broken, unread, user, said>>
  BY DEF Slot!Start, Slot!Wait, Slot!tableVars, Slot!userVars
<1>2. Counted'
  BY <1>1 DEF SlotInv, Counted, Dialled
<1>3. CASE Slot!Start
  BY <1>1, <1>2, <1>3 DEF SlotInv, SlotTypes, Filled, Exited, Reported, Slot!Start
<1>4. CASE Slot!Wait
  <2>1. ready' \subseteq 0..Len(fds)
    <3>1. DOMAIN fds = 1..Len(fds) /\ 0 \in 0..Len(fds)
      BY SlotBounds, LenProperties DEF SlotInv, SlotTypes
    <3>2. \/ ready' = ready
          \/ ready' \subseteq DOMAIN fds \cup {0}
      BY <1>4 DEF Slot!Wait, Slot!Watched, Slot!Slotted, Slot!Listener
    <3>3. DOMAIN fds \subseteq 0..Len(fds)
      BY <3>1, SlotBounds
    <3> QED BY <3>1, <3>2, <3>3 DEF SlotInv, SlotTypes
  <2>2. Filled' /\ server' \in {"undefined", "serving"}
    BY <1>1, <1>4 DEF SlotInv, Filled, Slot!Wait
  <2>3. Reported'
    <3>1. 0 \notin DOMAIN fds
      BY LenProperties DEF SlotInv, SlotTypes
    <3> QED BY <1>1, <1>4, <3>1
            DEF SlotInv, Reported, Slot!Wait, Slot!Watched, Slot!Slotted, Slot!Listener
  <2> QED BY <1>1, <1>2, <2>1, <2>2, <2>3 DEF SlotInv, SlotTypes, Exited
<1> QED BY <1>3, <1>4

\* While requests are processed the free slots are those past the descriptors.
LEMMA EnterNext ==
  ASSUME SlotInv, server = "serving", NEW f, Slot!Enter(f)
  PROVE  /\ Len(fds) + 1 \in Slot!Slots => slots' = [slots EXCEPT ![Len(fds) + 1] = f]
         /\ Len(fds) + 1 \notin Slot!Slots => slots' = slots
<1> DEFINE free == {t \in Slot!Slots : slots[t] = Slot!Free}
<1>1. Slot!Slots = 1..NumSlots /\ NumSlots \in Nat /\ Len(fds) \in Nat
  BY ProgramsAssumption, SlotBounds DEF Slot!Slots
<1>2. \A t \in Slot!Slots : t \in free <=> t > Len(fds)
  BY <1>1 DEF SlotInv, Filled, Slot!Free
<1>3. CASE Len(fds) + 1 \in Slot!Slots
  <2>1. Len(fds) + 1 \in free /\ \A t \in free : Len(fds) + 1 <= t
    BY <1>1, <1>2, <1>3
  <2>2. free \in SUBSET Nat
    BY <1>1
  <2>3. Min(free) = Len(fds) + 1
    BY <2>1, <2>2, MinIs
  <2>4. free # {}
    BY <2>1
  <2> QED BY <1>3, <2>3, <2>4, SlotOperators DEF Slot!Enter
<1>4. CASE Len(fds) + 1 \notin Slot!Slots
  <2>1. free = {}
    BY <1>1, <1>2, <1>4
  <2> QED BY <1>4, <2>1 DEF Slot!Enter
<1> QED BY <1>3, <1>4

LEMMA ReadEachStep ==
  ASSUME SlotInv, Slot!ReadEach
  PROVE  /\ unread' \in [Users -> 0..MaxSaid]
         /\ \A u \in Users : unread'[u] <= unread[u]
         /\ \/ server' = "exited" /\ broken # {}
            \/ server' = "waiting"
<1>1. \A u \in Users : unread[u] \in 0..MaxSaid
  BY DEF SlotInv, SlotTypes
<1>2. CASE UNCHANGED unread /\ server' = "exited"
  <2>1. broken # {}
    BY <1>2 DEF Slot!ReadEach
  <2> QED BY <1>1, <1>2, <2>1, ProgramsAssumption DEF SlotInv, SlotTypes
<1>3. CASE server' = "waiting"
  <2>1. /\ unread' \in [Users -> 0..MaxSaid]
        /\ \A u \in Users : unread'[u] < unread[u] \/ unread'[u] = unread[u]
    BY <1>3 DEF Slot!ReadEach
  <2>2. \A u \in Users : unread'[u] \in Nat /\ unread[u] \in Nat
    BY <1>1, <2>1, ProgramsAssumption
  <2> QED BY <1>3, <2>1, <2>2
<1> QED BY <1>2, <1>3 DEF Slot!ReadEach

\* accept() and recv().
LEMMA RequestStep ==
  ASSUME SlotInv, Slot!ProcessRequest
  PROVE  SlotInv'
<1>1. /\ server = "serving" /\ ready' = {} /\ UNCHANGED <<waitsWith, broken, user, said>>
      /\ Slot!Accept \/ UNCHANGED <<slots, fds, arrived>>
      /\ Slot!ReadEach
  BY DEF Slot!ProcessRequest, Slot!userVars, Slot!tableVars
<1>2. /\ unread' \in [Users -> 0..MaxSaid] /\ \A u \in Users : unread'[u] <= said'[u]
      /\ server' \in {"exited", "waiting"} /\ Exited'
  <2>1. \A u \in Users : unread'[u] <= unread[u] /\ unread[u] <= said[u]
                         /\ unread'[u] \in Nat /\ unread[u] \in Nat /\ said[u] \in Nat
    BY <1>1, ReadEachStep, ProgramsAssumption DEF SlotInv, SlotTypes
  <2> QED BY <1>1, <2>1, ReadEachStep DEF Exited
<1>3. Slot!Slots = 1..NumSlots /\ NumSlots \in Nat /\ Len(fds) \in Nat
  BY ProgramsAssumption, SlotBounds DEF Slot!Slots
<1>4. /\ slots' \in [Slot!Slots -> 0..Slot!Invalid]
      /\ fds' \in Seq(Users) /\ arrived' \in Seq(Users)
      /\ Counted' /\ Filled'
  <2>1. CASE UNCHANGED <<slots, fds, arrived>>
    BY <1>1, <1>2, <2>1 DEF SlotInv, SlotTypes, Counted, Dialled, Filled
  <2>2. CASE /\ fds' = Append(fds, Head(arrived)) /\ arrived' = Tail(arrived) /\ arrived # <<>>
             /\ Slot!Enter(Len(fds'))
    <3>1. /\ Head(arrived) \in Users /\ arrived' \in Seq(Users) /\ Len(arrived') = Len(arrived) - 1
          /\ Len(arrived') \in Nat /\ Len(arrived) \in Nat
      BY <2>2, Beheaded DEF SlotInv, SlotTypes
    <3>2. fds' \in Seq(Users) /\ Len(fds') = Len(fds) + 1
      BY <2>2, <3>1, Appended DEF SlotInv, SlotTypes
    <3>3. Counted'
      BY <1>1, <1>3, <3>1, <3>2 DEF SlotInv, Counted, Dialled
    <3>4. Len(fds') \in 0..Slot!Invalid
      <4>1. Slot!Invalid = Cardinality(Users) + 1 /\ Cardinality(Users) \in Nat
        BY SlotBounds, SlotOperators
      <4>2. Len(fds) + 1 \in 0..Cardinality(Users) + 1
        BY <1>3, <3>1, SlotBounds
      <4> QED BY <3>2, <4>1, <4>2
    <3>5. /\ Len(fds) + 1 \in Slot!Slots => slots' = [slots EXCEPT ![Len(fds) + 1] = Len(fds) + 1]
          /\ Len(fds) + 1 \notin Slot!Slots => slots' = slots
      BY <1>1, <2>2, <3>2, EnterNext
    <3>6. slots' \in [Slot!Slots -> 0..Slot!Invalid]
      BY <3>2, <3>4, <3>5 DEF SlotInv, SlotTypes
    <3>7. Filled'
      <4>1. \A s \in Slot!Slots : s # Len(fds) + 1 => slots'[s] = slots[s]
        BY <3>5 DEF SlotInv, SlotTypes
      <4>2. \A s \in Slot!Slots : s = Len(fds) + 1 => slots'[s] = Len(fds) + 1
        BY <3>5 DEF SlotInv, SlotTypes
      <4>3. /\ \A s \in Slot!Slots : s <= Len(fds) => slots[s] = s
            /\ \A s \in Slot!Slots : s > Len(fds) => slots[s] = Slot!Free
        BY <1>1 DEF SlotInv, Filled
      <4>4. \A s \in Slot!Slots : s <= Len(fds) + 1 => slots'[s] = s
        BY <1>3, <4>1, <4>2, <4>3
      <4>5. \A s \in Slot!Slots : s > Len(fds) + 1 => slots'[s] = Slot!Free
        BY <1>3, <4>1, <4>3
      <4> QED BY <3>2, <4>4, <4>5 DEF Filled
    <3> QED BY <3>1, <3>2, <3>3, <3>6, <3>7
  <2>3. CASE UNCHANGED <<fds, arrived>> /\ Slot!Enter(Slot!Invalid)
    <3>1. /\ Len(fds) + 1 \in Slot!Slots => slots' = [slots EXCEPT ![Len(fds) + 1] = Slot!Invalid]
          /\ Len(fds) + 1 \notin Slot!Slots => slots' = slots
      BY <1>1, <2>3, EnterNext
    <3>2. Slot!Invalid \in 0..Slot!Invalid
      <4>1. Slot!Invalid = Cardinality(Users) + 1 /\ Cardinality(Users) \in Nat
        BY SlotBounds, SlotOperators
      <4>2. Cardinality(Users) + 1 \in 0..Cardinality(Users) + 1
        BY <4>1
      <4> QED BY <4>1, <4>2
    <3>3. slots' \in [Slot!Slots -> 0..Slot!Invalid]
      BY <3>1, <3>2 DEF SlotInv, SlotTypes
    <3>4. Filled'
      <4>1. \A s \in Slot!Slots : s # Len(fds) + 1 => slots'[s] = slots[s]
        BY <3>1 DEF SlotInv, SlotTypes
      <4>2. \A s \in Slot!Slots : s = Len(fds) + 1 => slots'[s] = Slot!Invalid
        BY <3>1 DEF SlotInv, SlotTypes
      <4>3. server' # "serving"
        BY <1>2
      <4>4. \A s \in Slot!Slots : s <= Len(fds) => s # Len(fds) + 1
        BY <1>3
      <4> QED BY <2>3, <4>1, <4>2, <4>3, <4>4 DEF SlotInv, Filled
    <3> QED BY <1>1, <2>3, <3>3, <3>4 DEF SlotInv, SlotTypes, Counted, Dialled
  <2>4. CASE Slot!Accept
    <3>1. arrived # <<>>
      BY <2>4 DEF Slot!Accept, SlotInv, Reported
    <3>2. Slot!Enter(Slot!Invalid) \/ UNCHANGED slots
          => Slot!Enter(Slot!Invalid) \/ UNCHANGED <<slots, fds, arrived>>
             \/ ~UNCHANGED <<fds, arrived>>
      OBVIOUS
    <3> QED BY <2>1, <2>2, <2>3, <2>4, <3>1 DEF Slot!Accept
  <2> QED BY <1>1, <2>1, <2>4
<1>5. (ready \subseteq 0..Len(fds))' /\ Reported'
  BY <1>1 DEF Reported
<1> QED BY <1>1, <1>2, <1>4, <1>5 DEF SlotInv, SlotTypes

LEMMA SlotStep ==
  ASSUME SlotInv, Slot!Next
  PROVE  SlotInv'
BY UserStep, WaitStep, RequestStep DEF Slot!Next, Slot!Server

LEMMA SlotsStart ==
  ASSUME Slot!Init
  PROVE  SlotInv
<1>1. \A u \in Users : user[u] = "new"
  BY DEF Slot!Init
<1>2. Dialled = {} /\ Len(fds) = 0 /\ Len(arrived) = 0
  BY <1>1 DEF Dialled, Slot!Init
<1>3. Counted
  BY <1>2, FS_EmptySet DEF Counted
<1>4. Slot!Invalid \in Nat /\ 0 \in 0..Slot!Invalid /\ 0 \in 0..MaxSaid
  <2>1. Slot!Invalid = Cardinality(Users) + 1 /\ Cardinality(Users) \in Nat
    BY ProgramsAssumption, FS_CardinalityType, SlotOperators
  <2>2. Cardinality(Users) + 1 \in Nat
    BY <2>1
  <2>3. Slot!Invalid \in Nat
    BY <2>1, <2>2
  <2> QED BY <2>3, ProgramsAssumption
<1>5. SlotTypes
  BY <1>2, <1>4, EmptySeq DEF Slot!Init, SlotTypes, Slot!Free
<1>6. Filled
  BY <1>2, ProgramsAssumption DEF Slot!Init, Filled, Slot!Slots, Slot!Free
<1> QED BY <1>3, <1>5, <1>6 DEF SlotInv, Exited, Reported, Slot!Init

\* A descriptor without a slot has come after NumSlots others.
LEMMA SlottedAre ==
  ASSUME SlotInv
  PROVE  /\ \A f \in DOMAIN fds : f \in Slot!Slotted <=> f <= NumSlots
         /\ \A f \in Slot!Slotted : f \in DOMAIN fds /\ f <= NumSlots
<1>1. DOMAIN fds = 1..Len(fds) /\ Len(fds) \in Nat
  BY SlotBounds, LenProperties DEF SlotInv, SlotTypes
<1>2. Slot!Slots = 1..NumSlots /\ NumSlots \in Nat
  BY ProgramsAssumption DEF Slot!Slots
<1>3. ASSUME NEW f \in DOMAIN fds, f <= NumSlots
      PROVE  f \in Slot!Slotted
  <2>1. f \in Slot!Slots /\ f <= Len(fds)
    BY <1>1, <1>2, <1>3
  <2>2. slots[f] = f
    BY <2>1 DEF SlotInv, Filled
  <2> QED BY <1>3, <2>1, <2>2 DEF Slot!Slotted
<1>4. ASSUME NEW f \in DOMAIN fds, NEW s \in Slot!Slots, slots[s] = f
      PROVE  f <= NumSlots
  <2>1. CASE s <= Len(fds)
    BY <1>2, <1>4, <2>1 DEF SlotInv, Filled
  <2>2. CASE s > Len(fds)
    <3>1. slots[s] = 0 \/ slots[s] = Cardinality(Users) + 1
      BY <2>2, SlotOperators DEF SlotInv, Filled, Slot!Free
    <3> QED BY <1>1, <1>4, <3>1, SlotBounds
  <2> QED BY <1>1, <1>2, <2>1, <2>2
<1> QED BY <1>3, <1>4 DEF Slot!Slotted

\* Every connection has a slot, alone, and is watched, until the table is full, and only
\* an abrupt end of a client ends the server (Server_select.cpp and Server_poll.cpp).
THEOREM TheTableIsSound == Spec => []TableIsSound
<1> DEFINE SlotI == program = "single-thread" => SlotInv
<1>1. Init => SlotI
  BY SlotsStart DEF Init
<1>2. SlotI /\ [Next]_vars => SlotI'
  <2> SUFFICES ASSUME SlotI, [Next]_vars, program' = "single-thread"
               PROVE  SlotInv'
    OBVIOUS
  <2>1. program = "single-thread" /\ (Slot!Next \/ UNCHANGED slotVars)
    BY StepIsOwn
  <2>2. CASE UNCHANGED slotVars
    BY <2>1, <2>2 DEF slotVars, SlotInv, SlotTypes, Counted, Dialled, Filled, Exited, Reported
  <2> QED BY <2>1, <2>2, SlotStep
<1>3. SlotI => TableIsSound
  <2> SUFFICES ASSUME SlotInv
               PROVE  Slot!TableIsSound
    BY DEF TableIsSound
  <2>1. DOMAIN fds = 1..Len(fds) /\ Len(fds) \in Nat
    BY SlotBounds, LenProperties DEF SlotInv, SlotTypes
  <2>2. Slot!Slots = 1..NumSlots /\ NumSlots \in Nat
    BY ProgramsAssumption DEF Slot!Slots
  <2>3. Slot!TypeOK
    <3>1. \A f \in DOMAIN fds : fds[f] \in Users
      BY <2>1, ElementOfSeq DEF SlotInv, SlotTypes
    <3> QED BY <3>1 DEF SlotInv, SlotTypes, Slot!TypeOK
  <2>4. \A s, t \in Slot!Slots :
          slots[s] = slots[t] /\ slots[s] \notin {Slot!Free, Slot!Invalid} => s = t
    <3>1. \A s \in Slot!Slots : slots[s] \notin {Slot!Free, Slot!Invalid} => slots[s] = s
      <4>1. \A s \in Slot!Slots : s <= Len(fds) \/ s > Len(fds)
        BY <2>1, <2>2
      <4> QED BY <4>1 DEF SlotInv, Filled
    <3> QED BY <3>1
  <2>5. \A f \in DOMAIN fds : f \notin Slot!Slotted => \A s \in Slot!Slots : slots[s] # Slot!Free
    <3> SUFFICES ASSUME NEW f \in DOMAIN fds, f \notin Slot!Slotted, NEW s \in Slot!Slots
                 PROVE  slots[s] # Slot!Free
      OBVIOUS
    <3>1. ~(f <= NumSlots)
      BY SlottedAre
    <3>2. s <= Len(fds) /\ s # 0
      BY <2>1, <2>2, <3>1
    <3> QED BY <3>2 DEF SlotInv, Filled, Slot!Free
  <2>6. Slot!Slotted = Slot!Watched
    <3>1. \A f \in Slot!Slotted : f < 0 + NumSlots + 1
      BY <2>1, <2>2, SlottedAre
    <3> QED BY <3>1 DEF Slot!Watched, Slot!Listener
  <2>7. server = "exited" => fds = <<>> \/ broken # {}
    BY DEF SlotInv, Exited
  <2> QED BY <2>3, <2>4, <2>5, <2>6, <2>7 DEF Slot!TableIsSound
<1> QED BY <1>1, <1>2, <1>3, PTL DEF Spec

----------------------------------------------------------------------------
(***************************************************************************)
(* The file upload                                                         *)
(***************************************************************************)

UploadTypes ==
  /\ process \in {"running", "ended"}
  /\ thread \in [Uploaders -> {"none", "header", "body", "saving", "writing", "answering",
                               "closed"}]
  /\ stream \in [Uploaders -> 0..(BodyLen + 1)]
  /\ consumed \in [Uploaders -> 0..(BodyLen + 1)]
  /\ DOMAIN fileData = Uploaders
  /\ written \in [Uploaders -> 0..BodyLen]
  /\ lock \in Uploaders \cup {Upload!Unlocked}
  /\ saved \subseteq Uploaders /\ answered \subseteq Uploaders

\* The thread that writes is the one that has coutMutex, and each writes once.
OneWrites ==
  \A u \in Uploaders :
    /\ thread[u] = "writing" <=> lock = u
    /\ thread[u] \in {"none", "header", "body", "saving"} => written[u] = 0
    /\ u \in saved => thread[u] \in {"answering", "closed"}

\* What a thread saves is what its client sent, with zeros for the rest.
Bodies ==
  \A u \in Uploaders : thread[u] \in {"saving", "writing"} \/ u \in saved =>
    /\ fileData[u] = [k \in 1..BodyLen |-> fileData[u][k]]
    /\ \A k \in 1..BodyLen : fileData[u][k] \in {Upload!Zero, <<u, consumed[u] + k - 1>>}

\* The file is as much as the owner of the lock has written, and then all of it.
FileIs ==
  /\ lock # Upload!Unlocked => file = [k \in 1..written[lock] |-> fileData[lock][k]]
  /\ lock = Upload!Unlocked /\ file # <<>> => \E u \in saved : file = fileData[u]

UploadInv == UploadTypes /\ OneWrites /\ Bodies /\ FileIs

\* write() at the end of the file makes it longer by one.
LEMMA PutAtTheEnd ==
  ASSUME NEW n \in Nat, NEW S, file \in [1..n -> S], NEW x
  PROVE  Upload!Put(n + 1, x) = [k \in 1..(n + 1) |-> IF k = n + 1 THEN x ELSE file[k]]
<1>1. Len(file) = n
  BY LenIs
<1>2. Upload!Max({n + 1, Len(file)}) = n + 1
  <2> DEFINE T == {n + 1, Len(file)}
  <2>1. n + 1 \in T /\ \A m \in T : m <= n + 1
    BY <1>1
  <2>2. Upload!Max(T) \in T /\ \A m \in T : Upload!Max(T) >= m
    BY <2>1 DEF Upload!Max
  <2> QED BY <1>1, <2>2
<1>3. \A k \in 1..(n + 1) : k # n + 1 => k <= Len(file)
  BY <1>1
<1> QED BY <1>2, <1>3 DEF Upload!Put

\* What is written to the file, and when.
LEMMA WriteFileStep ==
  ASSUME UploadInv, NEW u \in Uploaders, Upload!WriteFile(u)
  PROVE  UploadInv'
<1>1. /\ thread[u] = "writing" /\ lock = u /\ written[u] < BodyLen
      /\ written' = [written EXCEPT ![u] = written[u] + 1]
      /\ UNCHANGED <<process, thread, stream, left, consumed, fileData, lock, saved, answered>>
      /\ file' = Upload!Put(written'[u], fileData[u][written'[u]])
  BY DEF Upload!WriteFile, Upload!senderVars, UploadInv, OneWrites
<1>2. written[u] \in Nat /\ written'[u] = written[u] + 1 /\ written[u] + 1 \in 0..BodyLen
  BY <1>1, ProgramsAssumption DEF UploadInv, UploadTypes
<1>3. UploadTypes'
  BY <1>1, <1>2 DEF UploadInv, UploadTypes
<1>4. OneWrites'
  BY <1>1 DEF UploadInv, UploadTypes, OneWrites
<1>5. Bodies'
  BY <1>1 DEF UploadInv, Bodies
<1>6. FileIs'
  <2>1. lock # Upload!Unlocked
    BY <1>1, ProgramsAssumption DEF Upload!Unlocked
  <2>2. file = [k \in 1..written[u] |-> fileData[u][k]]
    BY <1>1, <2>1 DEF UploadInv, FileIs
  <2>3. file \in [1..written[u] -> {fileData[u][k] : k \in 1..written[u]}]
    BY <2>2
  <2>4. file' = [k \in 1..(written[u] + 1) |->
                   IF k = written[u] + 1 THEN fileData[u][written[u] + 1] ELSE file[k]]
    BY <1>1, <1>2, <2>3, PutAtTheEnd
  <2>5. \A k \in 1..(written[u] + 1) : k # written[u] + 1 => k \in 1..written[u]
    BY <1>2
  <2>6. file' = [k \in 1..(written[u] + 1) |-> fileData[u][k]]
    BY <2>2, <2>4, <2>5
  <2> QED BY <1>1, <1>2, <2>1, <2>6 DEF FileIs
<1> QED BY <1>3, <1>4, <1>5, <1>6 DEF UploadInv

LEMMA OpenFileStep ==
  ASSUME UploadInv, NEW u \in Uploaders, Upload!OpenFile(u)
  PROVE  UploadInv'
<1>1. /\ thread[u] = "saving" /\ lock = Upload!Unlocked /\ lock' = u /\ file' = <<>>
      /\ thread' = [thread EXCEPT ![u] = "writing"]
      /\ UNCHANGED <<process, stream, left, consumed, fileData, written, saved, answered>>
  BY DEF Upload!OpenFile, Upload!Goto, Upload!senderVars
<1>2. \A v \in Uploaders : v # Upload!Unlocked
  BY ProgramsAssumption DEF Upload!Unlocked
<1>3. UploadTypes'
  BY <1>1 DEF UploadInv, UploadTypes
<1>4. OneWrites'
  <2>1. \A v \in Uploaders : thread[v] # "writing"
    BY <1>1, <1>2 DEF UploadInv, OneWrites
  <2>2. \A v \in Uploaders : thread'[v] = IF v = u THEN "writing" ELSE thread[v]
    BY <1>1 DEF UploadInv, UploadTypes
  <2>3. u \notin saved
    BY <1>1 DEF UploadInv, OneWrites
  <2> QED BY <1>1, <1>2, <2>1, <2>2, <2>3 DEF UploadInv, OneWrites
<1>5. Bodies'
  BY <1>1 DEF UploadInv, UploadTypes, Bodies
<1>6. FileIs'
  <2>1. written[u] = 0
    BY <1>1 DEF UploadInv, OneWrites
  <2>2. 1..0 = {}
    OBVIOUS
  <2>3. <<>> = [k \in 1..0 |-> fileData[u][k]]
    BY <2>2
  <2> QED BY <1>1, <1>2, <2>1, <2>3 DEF FileIs
<1> QED BY <1>3, <1>4, <1>5, <1>6 DEF UploadInv

LEMMA CloseFileStep ==
  ASSUME UploadInv, NEW u \in Uploaders, Upload!CloseFile(u)
  PROVE  UploadInv'
<1>1. /\ thread[u] = "writing" /\ lock = u /\ lock' = Upload!Unlocked
      /\ written[u] = BodyLen /\ saved' = saved \cup {u}
      /\ thread' = [thread EXCEPT ![u] = "answering"]
      /\ UNCHANGED <<process, stream, left, consumed, fileData, written, file, answered>>
  BY DEF Upload!CloseFile, Upload!Goto, Upload!senderVars, UploadInv, OneWrites
<1>2. \A v \in Uploaders : v # Upload!Unlocked
  BY ProgramsAssumption DEF Upload!Unlocked
<1>3. UploadTypes'
  BY <1>1 DEF UploadInv, UploadTypes
<1>4. OneWrites'
  BY <1>1, <1>2 DEF UploadInv, UploadTypes, OneWrites
<1>5. Bodies'
  BY <1>1 DEF UploadInv, UploadTypes, Bodies
<1>6. FileIs'
  <2>1. file = [k \in 1..BodyLen |-> fileData[u][k]]
    BY <1>1, <1>2 DEF UploadInv, FileIs
  <2>2. fileData[u] = [k \in 1..BodyLen |-> fileData[u][k]]
    BY <1>1 DEF UploadInv, Bodies
  <2>3. file' = fileData'[u] /\ u \in saved'
    BY <1>1, <2>1, <2>2
  <2> QED BY <1>1, <2>3 DEF FileIs
<1> QED BY <1>3, <1>4, <1>5, <1>6 DEF UploadInv

LEMMA ReceiveBodyStep ==
  ASSUME UploadInv, NEW u \in Uploaders, Upload!ReceiveBody(u)
  PROVE  UploadInv'
<1> DEFINE body == [k \in 1..BodyLen |-> IF consumed[u] + k <= stream[u]
                                          THEN <<u, consumed[u] + k - 1>> ELSE Upload!Zero]
<1>1. /\ thread[u] = "body"
      /\ fileData' = [fileData EXCEPT ![u] = body]
      /\ \E next \in {"saving", "closed"} : thread' = [thread EXCEPT ![u] = next]
      /\ UNCHANGED <<process, stream, left, consumed, written, lock, file, saved, answered>>
  BY DEF Upload!ReceiveBody, Upload!Goto, Upload!senderVars
<1>2. UploadTypes'
  BY <1>1 DEF UploadInv, UploadTypes
<1>3. OneWrites'
  BY <1>1 DEF UploadInv, UploadTypes, OneWrites
<1>4. \A v \in Uploaders : v # u => fileData'[v] = fileData[v] /\ thread'[v] = thread[v]
  BY <1>1 DEF UploadInv, UploadTypes
<1>5. Bodies'
  <2>1. fileData'[u] = body
    BY <1>1 DEF UploadInv, UploadTypes
  <2>2. body = [k \in 1..BodyLen |-> body[k]]
    OBVIOUS
  <2>3. \A k \in 1..BodyLen : body[k] \in {Upload!Zero, <<u, consumed[u] + k - 1>>}
    OBVIOUS
  <2> HIDE DEF body
  <2> QED BY <1>1, <1>4, <2>1, <2>2, <2>3 DEF UploadInv, Bodies
<1>6. FileIs'
  <2>1. lock # u /\ u \notin saved
    BY <1>1 DEF UploadInv, OneWrites
  <2>2. lock # Upload!Unlocked => lock \in Uploaders
    BY DEF UploadInv, UploadTypes
  <2>3. \A v \in saved : v \in Uploaders /\ fileData'[v] = fileData[v]
    BY <1>4, <2>1 DEF UploadInv, UploadTypes
  <2> QED BY <1>1, <1>4, <2>1, <2>2, <2>3 DEF UploadInv, FileIs
<1> QED BY <1>2, <1>3, <1>5, <1>6 DEF UploadInv

\* The other steps leave the file, and what was or will be written to it, alone.
LEMMA OtherUploadStep ==
  ASSUME UploadInv, NEW u \in Uploaders,
         \/ Upload!Accept(u) \/ Upload!ReceiveRequest(u) \/ Upload!Respond(u)
         \/ Upload!SendPacket(u) \/ Upload!Quit(u)
  PROVE  UploadInv'
<1>1. UNCHANGED <<fileData, written, lock, file, saved>>
  BY DEF Upload!Accept, Upload!ReceiveRequest, Upload!Respond, Upload!SendPacket, Upload!Quit,
         Upload!senderVars
<1>2. \/ UNCHANGED thread
      \/ /\ thread[u] \in {"none", "header", "answering"}
         /\ \E next \in {"header", "body", "answering", "closed"} :
              thread' = [thread EXCEPT ![u] = next]
         /\ thread[u] = "answering" => thread' = [thread EXCEPT ![u] = "closed"]
  BY DEF Upload!Accept, Upload!ReceiveRequest, Upload!Respond, Upload!SendPacket, Upload!Quit,
         Upload!Goto
<1>3. \/ UNCHANGED consumed
      \/ thread[u] = "header" /\ consumed' = [consumed EXCEPT ![u] = stream[u]]
  BY DEF Upload!Accept, Upload!ReceiveRequest, Upload!Respond, Upload!SendPacket, Upload!Quit
<1>4. UploadTypes'
  <2>1. stream' \in [Uploaders -> 0..(BodyLen + 1)]
    <3>1. CASE UNCHANGED stream
      BY <3>1 DEF UploadInv, UploadTypes
    <3>2. CASE Upload!SendPacket(u)
      <4>1. stream[u] + 1 \in 0..(BodyLen + 1) /\ stream' = [stream EXCEPT ![u] = stream[u] + 1]
        BY <3>2, ProgramsAssumption DEF Upload!SendPacket, UploadInv, UploadTypes
      <4> QED BY <4>1 DEF UploadInv, UploadTypes
    <3> QED BY <3>1, <3>2
            DEF Upload!Accept, Upload!ReceiveRequest, Upload!Respond, Upload!Quit,
                Upload!senderVars
  <2>2. process' \in {"running", "ended"} /\ answered' \subseteq Uploaders
    BY DEF Upload!Accept, Upload!ReceiveRequest, Upload!Respond, Upload!SendPacket, Upload!Quit,
           UploadInv, UploadTypes
  <2> QED BY <1>1, <1>2, <1>3, <2>1, <2>2 DEF UploadInv, UploadTypes
<1>5. OneWrites'
  BY <1>1, <1>2 DEF UploadInv, UploadTypes, OneWrites
<1>6. Bodies'
  BY <1>1, <1>2, <1>3 DEF UploadInv, UploadTypes, OneWrites, Bodies
<1>7. FileIs'
  BY <1>1 DEF UploadInv, FileIs
<1> QED BY <1>4, <1>5, <1>6, <1>7 DEF UploadInv

\* Uploads that run at the same time into one file never mix (main.cpp of
\* src/file-upload): whenever the lock is free the file is one client's.
THEOREM UploadsDoNotMix == Spec => []FileIsOneUpload
<1> DEFINE UploadI == program = "file-upload" => UploadInv
<1>1. Init => UploadI
  <2> SUFFICES ASSUME Upload!Init
               PROVE  UploadInv
    BY DEF Init
  <2>1. \A u \in Uploaders : u # Upload!Unlocked
    BY ProgramsAssumption DEF Upload!Unlocked
  <2>2. 0 \in 0..BodyLen /\ 0 \in 0..(BodyLen + 1)
    BY ProgramsAssumption
  <2> QED BY <2>1, <2>2 DEF Upload!Init, UploadInv, UploadTypes, OneWrites, Bodies, FileIs
<1>2. UploadI /\ [Next]_vars => UploadI'
  <2> SUFFICES ASSUME UploadI, [Next]_vars, program' = "file-upload"
               PROVE  UploadInv'
    OBVIOUS
  <2>1. program = "file-upload" /\ (Upload!Next \/ UNCHANGED uploadVars)
    BY StepIsOwn
  <2>2. CASE UNCHANGED uploadVars
    BY <2>1, <2>2 DEF uploadVars, UploadInv, UploadTypes, OneWrites, Bodies, FileIs
  <2> QED BY <2>1, <2>2, WriteFileStep, OpenFileStep, CloseFileStep, ReceiveBodyStep,
             OtherUploadStep DEF Upload!Next, Upload!Handle
<1>3. UploadI => FileIsOneUpload
  <2> SUFFICES ASSUME UploadInv
               PROVE  Upload!FileIsOneUpload
    BY DEF FileIsOneUpload
  <2>1. Upload!TypeOK
    BY DEF UploadInv, UploadTypes, Upload!TypeOK
  <2> QED BY <2>1 DEF UploadInv, UploadTypes, Bodies, FileIs, Upload!FileIsOneUpload
<1> QED BY <1>1, <1>2, <1>3, PTL DEF Spec

----------------------------------------------------------------------------
(***************************************************************************)
(* The chat client                                                         *)
(***************************************************************************)

ClientTypes ==
  /\ listener \in {"getline", "holding", "inserting", "ended"}
  /\ loop \in {"look", "select", "read", "write", "closed", "killed"}
  /\ typed \in 0..MaxLines /\ line \in 0..typed
  /\ queued \in 0..typed \cup {Client!Nothing}
  /\ eof \in BOOLEAN /\ watching \in BOOLEAN
  /\ wire \in Seq(0..typed)

\* Whatever comes to the wire, the map or the thread later was typed later.
Later(n) == n # Client!Empty => \A i \in DOMAIN wire : wire[i] < n
WireOrdered == \A i, j \in DOMAIN wire : i < j /\ wire[j] # Client!Empty => wire[i] < wire[j]
InMap == queued # Client!Nothing => Later(queued)
InThread == listener \in {"holding", "inserting"} =>
              /\ Later(line)
              /\ queued # Client!Nothing /\ line # Client!Empty => queued < line

\* Only a terminal that has ended gives empty lines.
NotEmpty == ~eof => /\ \A i \in DOMAIN wire : wire[i] # Client!Empty
                    /\ queued # Client!Empty
                    /\ listener \in {"holding", "inserting"} => line # Client!Empty

(***************************************************************************)
(* What the loop has seen in the map is there, and what it has imagined is *)
(* about to come: insert() is under way.                                   *)
(***************************************************************************)
Imagined == watching /\ loop \in {"select", "read", "write"}
              => queued # Client!Nothing \/ listener = "inserting"

ClientInv == ClientTypes /\ WireOrdered /\ InMap /\ InThread /\ NotEmpty /\ Imagined

\* The lines are numbers.
LEMMA LinesAreNumbers ==
  ASSUME ClientInv
  PROVE  /\ typed \in Nat /\ typed <= MaxLines /\ MaxLines \in Nat
         /\ line \in Nat /\ line <= typed
         /\ Client!Nothing = MaxLines + 1 /\ Client!Empty = 0
         /\ queued \in Nat /\ (queued # Client!Nothing => queued <= typed)
         /\ line # Client!Nothing
         /\ \A i \in DOMAIN wire : wire[i] \in Nat /\ wire[i] <= typed
         /\ DOMAIN wire = 1..Len(wire) /\ Len(wire) \in Nat
<1>1. /\ typed \in Nat /\ typed <= MaxLines /\ MaxLines \in Nat
      /\ Client!Nothing = MaxLines + 1 /\ Client!Empty = 0
  BY ProgramsAssumption DEF ClientInv, ClientTypes, Client!Nothing, Client!Empty
<1>2. DOMAIN wire = 1..Len(wire) /\ Len(wire) \in Nat
  BY LenProperties DEF ClientInv, ClientTypes
<1>3. \A i \in DOMAIN wire : wire[i] \in 0..typed
  BY <1>2, ElementOfSeq DEF ClientInv, ClientTypes
<1> QED BY <1>1, <1>2, <1>3 DEF ClientInv, ClientTypes

\* inputListener() types: a line has a number that no other has had.
LEMMA TypeStep ==
  ASSUME ClientInv, Client!Type
  PROVE  ClientInv'
<1>1. /\ listener = "getline" /\ listener' = "holding" /\ ~eof
      /\ typed' = typed + 1 /\ line' = typed + 1 /\ typed < MaxLines
      /\ UNCHANGED <<eof, queued, loop, watching, wire>>
  BY DEF Client!Type, Client!loopVars
<1>2. typed + 1 \in 0..MaxLines /\ \A n \in 0..typed : n \in 0..(typed + 1) /\ n < typed + 1
  BY <1>1, LinesAreNumbers
<1>3. wire' \in Seq(0..(typed + 1))
  <2>1. \A i \in 1..Len(wire) : wire[i] \in 0..(typed + 1)
    BY <1>2, ElementOfSeq DEF ClientInv, ClientTypes
  <2>2. wire = [i \in 1..Len(wire) |-> wire[i]] /\ Len(wire) \in Nat
    BY LenProperties DEF ClientInv, ClientTypes
  <2>3. wire \in [1..Len(wire) -> 0..(typed + 1)]
    BY <2>1, <2>2
  <2> QED BY <1>1, <2>2, <2>3, LenIs
<1>4. ClientTypes'
  BY <1>1, <1>2, <1>3, LinesAreNumbers DEF ClientInv, ClientTypes, Client!Nothing
<1>5. \A i \in DOMAIN wire : wire[i] < typed + 1
  BY LinesAreNumbers
<1>6. queued # Client!Nothing => queued < typed + 1
  BY LinesAreNumbers
<1>7. typed + 1 # 0
  BY LinesAreNumbers
<1>8. (WireOrdered /\ InMap /\ InThread)'
  BY <1>1, <1>5, <1>6
     DEF ClientInv, WireOrdered, InMap, InThread, Later, Client!Nothing, Client!Empty
<1>9. (NotEmpty /\ Imagined)'
  BY <1>1, <1>7 DEF ClientInv, NotEmpty, Imagined, Client!Nothing, Client!Empty
<1> QED BY <1>4, <1>8, <1>9 DEF ClientInv

\* The other steps of inputListener().
LEMMA ListenerStep ==
  ASSUME ClientInv, Client!TypeExit \/ Client!GetNothing \/ Client!Lock \/ Client!Insert
  PROVE  ClientInv'
<1>1. UNCHANGED <<typed, loop, watching, wire>>
  BY DEF Client!TypeExit, Client!GetNothing, Client!Lock, Client!Insert, Client!loopVars
<1>2. WireOrdered'
  BY <1>1 DEF ClientInv, WireOrdered, Client!Empty
<1>3. CASE Client!TypeExit
  BY <1>1, <1>2, <1>3 DEF Client!TypeExit, ClientInv, ClientTypes, InMap, InThread, Later,
                         NotEmpty, Imagined, Client!Nothing, Client!Empty
<1>4. CASE Client!GetNothing
  <2>1. 0 \in 0..typed
    BY LinesAreNumbers
  <2> QED BY <1>1, <1>2, <1>4, <2>1
          DEF Client!GetNothing, ClientInv, ClientTypes, InMap, InThread, Later, NotEmpty,
              Imagined, Client!Nothing, Client!Empty
<1>5. CASE Client!Lock
  BY <1>1, <1>2, <1>5 DEF Client!Lock, ClientInv, ClientTypes, InMap, InThread, Later,
                         NotEmpty, Imagined, Client!Nothing, Client!Empty
<1>6. CASE Client!Insert
  <2>1. /\ listener = "inserting" /\ listener' = "getline" /\ UNCHANGED <<line, eof>>
        /\ queued' = IF queued = Client!Nothing THEN line ELSE queued
    BY <1>6 DEF Client!Insert
  <2>2. ClientTypes'
    BY <1>1, <2>1 DEF ClientInv, ClientTypes, Client!Nothing
  <2>3. queued' # Client!Nothing
    BY <2>1, LinesAreNumbers
  <2> QED BY <1>1, <1>2, <2>1, <2>2, <2>3
          DEF ClientInv, InMap, InThread, Later, NotEmpty, Imagined, Client!Nothing, Client!Empty
<1> QED BY <1>3, <1>4, <1>5, <1>6

\* The loop of main() sends what is in the map, and it is there.
LEMMA WriteStep ==
  ASSUME ClientInv, Client!Write
  PROVE  ClientInv'
<1>1. loop = "write" /\ loop' \in {"look", "killed"}
      /\ UNCHANGED <<listener, typed, line, eof, watching>>
  BY DEF Client!Write, Client!inputVars
<1>2. Imagined'
  BY <1>1 DEF Imagined
<1>3. CASE UNCHANGED <<wire, queued>>
  BY <1>1, <1>2, <1>3 DEF ClientInv, ClientTypes, WireOrdered, InMap, InThread, Later, NotEmpty,
                         Client!Nothing, Client!Empty
<1>4. CASE /\ watching /\ listener # "inserting"
           /\ wire' = Append(wire, Client!Message) /\ queued' = Client!Nothing
  <2>1. queued # Client!Nothing /\ wire' = Append(wire, queued)
    BY <1>1, <1>4 DEF ClientInv, Imagined, Client!Message
  <2>2. queued \in 0..typed /\ wire \in Seq(0..typed)
    BY <2>1 DEF ClientInv, ClientTypes
  <2>3. /\ wire' \in Seq(0..typed)
        /\ Len(wire') = Len(wire) + 1 /\ DOMAIN wire' = 1..(Len(wire) + 1)
        /\ \A k \in 1..Len(wire) : wire'[k] = wire[k]
        /\ wire'[Len(wire) + 1] = queued
    <3>1. wire' \in Seq(0..typed) /\ Len(wire') = Len(wire) + 1
      BY <2>1, <2>2, Appended
    <3> QED BY <2>1, <2>2, <3>1, Appended, LenProperties
  <2>4. ClientTypes'
    BY <1>1, <1>4, <2>3 DEF ClientInv, ClientTypes, Client!Nothing
  <2>5. DOMAIN wire = 1..Len(wire) /\ Len(wire) \in Nat
    BY LinesAreNumbers
  <2>6. \A k \in DOMAIN wire' : \/ k \in DOMAIN wire /\ wire'[k] = wire[k]
                                \/ k = Len(wire) + 1 /\ wire'[k] = queued
    BY <2>3, <2>5
  <2>7. \A k \in DOMAIN wire : k < Len(wire) + 1 /\ ~(Len(wire) + 1 < k)
    BY <2>5
  <2>8. ~(Len(wire) + 1 < Len(wire) + 1)
    BY <2>5
  <2>9. WireOrdered'
    BY <2>1, <2>6, <2>7, <2>8 DEF ClientInv, WireOrdered, InMap, Later, Client!Empty
  <2>10. (InMap /\ NotEmpty)'
    BY <1>1, <1>4, <2>6, LinesAreNumbers
       DEF ClientInv, InMap, NotEmpty, Client!Nothing, Client!Empty
  <2>11. InThread'
    BY <1>1, <1>4, <2>1, <2>6 DEF ClientInv, InThread, Later, Client!Nothing, Client!Empty
  <2> QED BY <1>2, <2>4, <2>9, <2>10, <2>11 DEF ClientInv
<1> QED BY <1>3, <1>4 DEF Client!Write

\* The steps that change neither what was typed nor what is sent.
LEMMA QuietClientStep ==
  ASSUME ClientInv,
         Client!Look \/ Client!Select \/ Client!Read \/ Client!Tell \/ Client!ServerLeaves
  PROVE  ClientInv'
<1>1. UNCHANGED <<listener, typed, line, eof, queued, wire>>
  BY DEF Client!Look, Client!Select, Client!Read, Client!Tell, Client!ServerLeaves,
         Client!inputVars, Client!loopVars
<1>2. (WireOrdered /\ InMap /\ InThread /\ NotEmpty)'
  BY <1>1 DEF ClientInv, WireOrdered, InMap, InThread, Later, NotEmpty, Client!Nothing,
              Client!Empty
<1>3. /\ loop' \in {"look", "select", "read", "write", "closed", "killed"}
      /\ watching' \in BOOLEAN /\ Imagined'
  <2>1. CASE Client!Look
    BY <1>1, <2>1 DEF Client!Look, Imagined, Client!Nothing
  <2>2. CASE ~Client!Look
    <3>1. UNCHANGED watching
      BY <2>2 DEF Client!Select, Client!Read, Client!Tell, Client!ServerLeaves, Client!loopVars
    <3>2. /\ loop' \in {"look", "read", "write", "closed"} \/ UNCHANGED loop
          /\ loop' # loop => loop \in {"select", "read"}
      BY <2>2 DEF Client!Select, Client!Read, Client!Tell, Client!ServerLeaves, Client!loopVars
    <3> QED BY <1>1, <3>1, <3>2 DEF ClientInv, ClientTypes, Imagined, Client!Nothing
  <2> QED BY <2>1, <2>2
<1>4. ClientTypes'
  BY <1>1, <1>3 DEF ClientInv, ClientTypes, Client!Nothing
<1> QED BY <1>2, <1>3, <1>4 DEF ClientInv

\* The chat client sends lines as they were typed, although its loop looks into the map
\* without the lock (Client.cpp of src/chat-server).
THEOREM LinesAreSentInOrder == Spec => []WireIsTyped
<1> DEFINE ClientI == program = "chat-client" => ClientInv
<1>1. Init => ClientI
  <2> SUFFICES ASSUME Client!Init
               PROVE  ClientInv
    BY DEF Init
  <2>1. /\ listener = "getline" /\ typed = 0 /\ line = 0 /\ eof = FALSE /\ loop = "look"
        /\ queued = Client!Nothing /\ watching = FALSE /\ wire = <<>>
    BY DEF Client!Init, Client!Empty
  <2>2. wire \in Seq(0..typed) /\ DOMAIN wire = {} /\ 0 \in 0..MaxLines /\ 0 \in 0..0
    BY <2>1, EmptySeq, ProgramsAssumption
  <2>3. Client!Nothing # 0
    BY ProgramsAssumption DEF Client!Nothing
  <2> QED BY <2>1, <2>2, <2>3 DEF ClientInv, ClientTypes, WireOrdered, InMap, InThread, NotEmpty,
                                 Imagined, Client!Empty
<1>2. ClientI /\ [Next]_vars => ClientI'
  <2> SUFFICES ASSUME ClientI, [Next]_vars, program' = "chat-client"
               PROVE  ClientInv'
    OBVIOUS
  <2>1. program = "chat-client" /\ (Client!Next \/ UNCHANGED clientVars)
    BY StepIsOwn
  <2>2. CASE UNCHANGED clientVars
    BY <2>1, <2>2 DEF clientVars, ClientInv, ClientTypes, WireOrdered, InMap, InThread, Later,
                      NotEmpty, Imagined, Client!Nothing, Client!Empty
  <2> QED BY <2>1, <2>2, TypeStep, ListenerStep, WriteStep, QuietClientStep
          DEF Client!Next, Client!Loop
<1>3. ClientI => WireIsTyped
  <2> SUFFICES ASSUME ClientInv
               PROVE  Client!WireIsTyped
    BY DEF WireIsTyped
  <2>1. Client!TypeOK
    <3>1. {wire[i] : i \in DOMAIN wire} \subseteq 0..typed
      BY LinesAreNumbers
    <3>2. queued \in 0..Client!Nothing
      BY LinesAreNumbers
    <3> QED BY <3>1, <3>2 DEF ClientInv, ClientTypes, Client!TypeOK
  <2> DEFINE way == wire \o (IF queued = Client!Nothing THEN <<>> ELSE <<queued>>)
  <2>2. \A k \in DOMAIN way :
          \/ k \in DOMAIN wire /\ way[k] = wire[k]
          \/ k = Len(wire) + 1 /\ way[k] = queued /\ queued # Client!Nothing
    <3>1. wire \in Seq(Nat) /\ DOMAIN wire = 1..Len(wire) /\ Len(wire) \in Nat
      <4>1. wire \in [1..Len(wire) -> Nat]
        BY LinesAreNumbers, LenProperties DEF ClientInv, ClientTypes
      <4> QED BY <4>1, LinesAreNumbers, LenIs
    <3>2. CASE queued = Client!Nothing
      BY <3>1, <3>2, ConcatEmptySeq
    <3>3. CASE queued # Client!Nothing
      <4>1. way = Append(wire, queued) /\ queued \in Nat
        BY <3>1, <3>3, LinesAreNumbers, AppendIsConcat
      <4>2. /\ DOMAIN way = 1..(Len(wire) + 1)
            /\ \A k \in 1..Len(wire) : way[k] = wire[k]
            /\ way[Len(wire) + 1] = queued
        BY <3>1, <4>1, Appended, LenProperties
      <4>3. \A k \in DOMAIN way : k \in DOMAIN wire \/ k = Len(wire) + 1
        BY <3>1, <4>2
      <4> QED BY <3>1, <3>3, <4>2, <4>3
    <3> QED BY <3>2, <3>3
  <2>3. /\ \A k \in DOMAIN wire : k < Len(wire) + 1 /\ ~(Len(wire) + 1 < k)
        /\ ~(Len(wire) + 1 < Len(wire) + 1)
    BY LinesAreNumbers
  <2> HIDE DEF way
  <2>4. \A i, j \in DOMAIN way : i < j /\ way[j] # Client!Empty => way[i] < way[j]
    BY <2>2, <2>3 DEF ClientInv, WireOrdered, InMap, Later
  <2>5. ~eof => \A i \in DOMAIN way : way[i] # Client!Empty
    BY <2>2 DEF ClientInv, NotEmpty
  <2> QED BY <2>1, <2>4, <2>5 DEF Client!WireIsTyped, way
<1> QED BY <1>1, <1>2, <1>3, PTL DEF Spec

----------------------------------------------------------------------------
(***************************************************************************)
(* The echo over TLS                                                       *)
(***************************************************************************)

\* The chunks of a caller: the echoes it has read, those it has not, the one that the
\* server has in hand, and those that the server has not read.
Circle(e, t, h, s) == e \o t \o h \o s
OnServer(c) == IF serving = c /\ doing = "echoing" THEN <<rxbuf>> ELSE <<>>
Around(c) == Circle(echoes[c], toCaller[c], OnServer(c), toServer[c])

CallerStates == {"new", "dialled", "shaken", "awaiting", "typing", "gone"}

EchoTypes ==
  /\ doing \in {"accepting", "shaking", "reading", "echoing", "leaving", "ended"}
  /\ objects = (IF serving = Echo!Nobody THEN 0 ELSE 1)
  /\ serving \in Callers \cup {Echo!Nobody}
  /\ serving = Echo!Nobody <=> doing \in {"accepting", "ended"}
  /\ running \in BOOLEAN /\ rxbuf \in Nat
  /\ calls \in Seq(Callers)
  /\ caller \in [Callers -> CallerStates]
  /\ asked \in [Callers -> Bytes] /\ toServer \in [Callers -> Bytes]
  /\ toCaller \in [Callers -> Bytes] /\ echoes \in [Callers -> Bytes]

\* Who waits for accept() has dialled, once, and not been served.
Calling ==
  /\ \A i \in DOMAIN calls : /\ caller[calls[i]] \in {"dialled", "gone"}
                             /\ doing = "shaking" => calls[i] # serving
  /\ \A i, j \in DOMAIN calls : calls[i] = calls[j] => i = j
  /\ doing = "shaking" => caller[serving] \in {"dialled", "gone"}

\* Nothing is said before the handshake.
Silent(c) == caller[c] \in {"new", "dialled", "shaken"} =>
               asked[c] = <<>> /\ echoes[c] = <<>> /\ toCaller[c] = <<>> /\ toServer[c] = <<>>

\* What the client that is served has sent is all there; the echoes of each are a beginning
\* of what it has sent, whoever has gone.
Whole(c) == serving = c /\ running /\ caller[c] # "gone" => Around(c) = asked[c]
Begun(c) == \E rest \in Bytes : asked[c] = echoes[c] \o toCaller[c] \o rest

\* How many chunks a client is behind.
Behind(c) ==
  /\ Len(asked[c]) <= RequestChunks + MaxTyped
  /\ caller[c] = "typing" => Len(echoes[c]) = Len(asked[c]) - (RequestChunks - 1)
  /\ caller[c] = "awaiting" => Len(echoes[c]) = Len(asked[c]) - RequestChunks

Echoed(c) == Silent(c) /\ Whole(c) /\ Begun(c) /\ Behind(c)

\* Why the server stops.
Stops == /\ ~running => rxbuf = Echo!Kill \/ refused # {}
         /\ doing \in {"accepting", "shaking", "reading", "echoing"} => running
         /\ doing = "ended" => ~running

EchoInv == EchoTypes /\ Calling /\ Stops /\ \A c \in Callers : Echoed(c)

\* Chunks move around.
LEMMA ReadByServer ==
  ASSUME NEW e \in Bytes, NEW t \in Bytes, NEW s \in Bytes, s # <<>>
  PROVE  Circle(e, t, <<Head(s)>>, Tail(s)) = Circle(e, t, <<>>, s)
<1>1. e \o t \in Bytes
  BY Joined
<1>2. /\ Append(e \o t, Head(s)) \in Bytes
      /\ Append(e \o t, Head(s)) \o Tail(s) = e \o t \o s
  BY <1>1, Shift
<1>3. Head(s) \in Nat
  BY HeadTailProperties DEF Bytes
<1>4. Append(e \o t, Head(s)) = e \o t \o <<Head(s)>>
  BY <1>1, <1>3, AppendIsConcat DEF Bytes
<1>5. e \o t \o <<>> = e \o t
  BY <1>1, ConcatEmptySeq DEF Bytes
<1> QED BY <1>2, <1>4, <1>5 DEF Circle

LEMMA SentBack ==
  ASSUME NEW e \in Bytes, NEW t \in Bytes, NEW s \in Bytes, NEW r \in Nat
  PROVE  /\ Append(t, r) \in Bytes
         /\ Circle(e, Append(t, r), <<>>, s) = Circle(e, t, <<r>>, s)
         /\ Circle(e, t, <<r>>, s) = e \o Append(t, r) \o s
<1>1. <<r>> \in Bytes /\ Append(t, r) \in Bytes /\ Append(t, r) = t \o <<r>>
  BY AppendIsConcat, AppendProperties DEF Bytes
<1>2. e \o t \o <<r>> = e \o Append(t, r)
  BY <1>1, Associative
<1>3. e \o Append(t, r) \o <<>> = e \o Append(t, r)
  BY <1>1, Joined, ConcatEmptySeq DEF Bytes
<1> QED BY <1>1, <1>2, <1>3 DEF Circle

LEMMA EchoBounds ==
  ASSUME EchoTypes, NEW c \in Callers
  PROVE  /\ asked[c] \in Bytes /\ toServer[c] \in Bytes /\ toCaller[c] \in Bytes
         /\ echoes[c] \in Bytes /\ OnServer(c) \in Bytes
         /\ Len(asked[c]) \in Nat /\ Len(echoes[c]) \in Nat
         /\ RequestChunks \in Nat /\ MaxTyped \in Nat /\ c # Echo!Nobody
<1>1. /\ asked[c] \in Bytes /\ toServer[c] \in Bytes /\ toCaller[c] \in Bytes
      /\ echoes[c] \in Bytes /\ rxbuf \in Nat
  BY DEF EchoTypes
<1>2. <<>> \in Bytes /\ <<rxbuf>> \in Bytes
  BY <1>1, EmptySeq DEF Bytes
<1>3. Len(asked[c]) \in Nat /\ Len(echoes[c]) \in Nat
  BY <1>1, LenProperties DEF Bytes
<1> QED BY <1>1, <1>2, <1>3, ProgramsAssumption DEF OnServer, Echo!Nobody

\* What is unchanged for a caller, is still as it was.
LEMMA Untouched ==
  ASSUME NEW c \in Callers, Echoed(c),
         asked'[c] = asked[c], echoes'[c] = echoes[c], toCaller'[c] = toCaller[c],
         toServer'[c] = toServer[c], caller'[c] = caller[c],
         serving' = c /\ running' => serving = c /\ running /\ OnServer(c)' = OnServer(c)
  PROVE  Echoed(c)'
BY DEF Echoed, Silent, Whole, Begun, Behind, Around

LEMMA EchoStart == Echo!Init => EchoInv
<1> SUFFICES ASSUME Echo!Init
             PROVE  EchoInv
  OBVIOUS
<1>1. <<>> \in Seq(Callers) /\ DOMAIN <<>> = {} /\ <<>> \in Bytes /\ Len(<<>>) = 0
  BY EmptySeq DEF Bytes
<1>2. EchoTypes /\ Calling /\ Stops
  BY <1>1 DEF Echo!Init, EchoTypes, Calling, Stops, CallerStates, Echo!Kill
<1>3. ASSUME NEW c \in Callers
      PROVE  Echoed(c)
  <2>1. caller[c] = "new" /\ asked[c] = <<>> /\ echoes[c] = <<>> /\ toCaller[c] = <<>>
        /\ toServer[c] = <<>> /\ serving = Echo!Nobody
    BY DEF Echo!Init
  <2>2. <<>> = <<>> \o <<>> \o <<>>
    BY <1>1, ConcatEmptySeq DEF Bytes
  <2>3. c # Echo!Nobody /\ 0 <= RequestChunks + MaxTyped
    BY ProgramsAssumption DEF Echo!Nobody
  <2> QED BY <1>1, <2>1, <2>2, <2>3 DEF Echoed, Silent, Whole, Begun, Behind
<1> QED BY <1>2, <1>3 DEF EchoInv

LEMMA DialStep ==
  ASSUME EchoInv, NEW c \in Callers, Echo!Dial(c)
  PROVE  EchoInv'
<1>1. /\ caller[c] = "new" /\ caller' = [caller EXCEPT ![c] = "dialled"]
      /\ calls' = Append(calls, c)
      /\ UNCHANGED <<doing, running, serving, objects, rxbuf, refused, asked, toServer,
                     toCaller, echoes>>
  BY DEF Echo!Dial, Echo!serverVars
<1>2. EchoTypes /\ Calling /\ Stops /\ \A d \in Callers : Echoed(d)
  BY DEF EchoInv
<1>3. /\ calls \in Seq(Callers) /\ calls' \in Seq(Callers)
      /\ Len(calls) \in Nat /\ DOMAIN calls = 1..Len(calls)
      /\ DOMAIN calls' = 1..(Len(calls) + 1)
      /\ \A k \in 1..Len(calls) : calls'[k] = calls[k]
      /\ calls'[Len(calls) + 1] = c
  BY <1>1, <1>2, Appended, LenProperties DEF EchoTypes
<1>4. \A k \in DOMAIN calls' : \/ k \in DOMAIN calls /\ calls'[k] = calls[k] /\ calls[k] # c
                               \/ k = Len(calls) + 1 /\ calls'[k] = c
  <2>1. \A k \in 1..(Len(calls) + 1) : k \in 1..Len(calls) \/ k = Len(calls) + 1
    BY <1>3
  <2>2. \A k \in DOMAIN calls : calls[k] # c
    BY <1>1, <1>2 DEF Calling
  <2> QED BY <1>3, <2>1, <2>2
<1>5. EchoTypes'
  BY <1>1, <1>2, <1>3 DEF EchoTypes, CallerStates
<1>6. Calling'
  <2>1. caller \in [Callers -> CallerStates] /\ \A k \in DOMAIN calls : calls[k] \in Callers
    BY <1>2, <1>3, ElementOfSeq DEF EchoTypes
  <2>2. /\ \A d \in Callers \ {c} : caller'[d] = caller[d]
        /\ caller'[c] = "dialled"
    BY <1>1, <2>1
  <2>3. doing = "shaking" => serving \in Callers /\ serving # c
    BY <1>1, <1>2 DEF EchoTypes, Calling
  <2> QED BY <1>1, <1>2, <1>4, <2>1, <2>2, <2>3 DEF Calling
<1>7. Stops'
  BY <1>1, <1>2 DEF Stops
<1>8. ASSUME NEW d \in Callers
      PROVE  Echoed(d)'
  <2>1. CASE d # c
    BY <1>1, <1>2, <2>1, Untouched DEF EchoTypes, OnServer
  <2>2. CASE d = c
    BY <1>1, <1>2, <2>2
       DEF EchoTypes, Echoed, Silent, Whole, Begun, Behind, Around, OnServer
  <2> QED BY <2>1, <2>2
<1> QED BY <1>5, <1>6, <1>7, <1>8 DEF EchoInv

\* As many chunks as a caller may send now.
MaySay(c, n) == /\ Len(asked[c]) + n <= RequestChunks + MaxTyped
                /\ Len(echoes[c]) = (Len(asked[c]) + n) - RequestChunks

\* SSL_write(): what is sent comes after all that was, at the server's end of the circle.
LEMMA SslWriteSays ==
  ASSUME EchoInv, NEW c \in Callers, NEW chunks \in Bytes, Echo!SslWrite(c, chunks),
         caller[c] \in {"shaken", "typing"},
         MaySay(c, Len(chunks))
  PROVE  EchoInv'
<1>1. /\ caller' = [caller EXCEPT ![c] = "awaiting"]
      /\ asked' = [asked EXCEPT ![c] = asked[c] \o chunks]
      /\ toServer' = [toServer EXCEPT ![c] =
                        IF serving = c THEN toServer[c] \o chunks ELSE toServer[c]]
      /\ UNCHANGED <<doing, running, serving, objects, rxbuf, calls, refused, toCaller, echoes>>
  BY DEF Echo!SslWrite, Echo!serverVars
<1>2. EchoTypes /\ Calling /\ Stops /\ \A d \in Callers : Echoed(d)
  BY DEF EchoInv
<1>3. /\ asked[c] \in Bytes /\ toServer[c] \in Bytes /\ toCaller[c] \in Bytes
      /\ echoes[c] \in Bytes /\ OnServer(c) \in Bytes
  BY <1>2, EchoBounds
<1>4. /\ asked[c] \o chunks \in Bytes /\ toServer[c] \o chunks \in Bytes
      /\ Len(asked[c] \o chunks) = Len(asked[c]) + Len(chunks)
      /\ echoes[c] \o toCaller[c] \in Bytes
  BY <1>3, Joined
<1>5. EchoTypes'
  BY <1>1, <1>2, <1>4 DEF EchoTypes, CallerStates
<1>6. Calling'
  <2>1. caller \in [Callers -> CallerStates]
        /\ \A k \in DOMAIN calls : calls[k] \in Callers /\ calls[k] # c
    BY <1>2, ElementOfSeq, LenProperties DEF EchoTypes, Calling
  <2>2. doing = "shaking" => serving \in Callers /\ serving # c
    BY <1>2 DEF EchoTypes, Calling
  <2> QED BY <1>1, <1>2, <2>1, <2>2 DEF Calling
<1>7. Stops'
  BY <1>1, <1>2 DEF Stops
<1>8. ASSUME NEW d \in Callers, d # c
      PROVE  Echoed(d)'
  BY <1>1, <1>2, <1>8, Untouched DEF EchoTypes, OnServer
<1>9. Echoed(c)'
  <2>1. /\ asked'[c] = asked[c] \o chunks /\ caller'[c] = "awaiting"
        /\ toServer'[c] = IF serving = c THEN toServer[c] \o chunks ELSE toServer[c]
        /\ OnServer(c)' = OnServer(c)
    BY <1>1, <1>2 DEF EchoTypes, OnServer
  <2>2. Silent(c)' /\ Behind(c)'
    <3>1. Len(asked'[c]) = Len(asked[c]) + Len(chunks) /\ echoes' = echoes
      BY <1>1, <1>4, <2>1
    <3>2. Len(asked'[c]) <= RequestChunks + MaxTyped
      BY <3>1 DEF MaySay
    <3>3. Len(echoes'[c]) = Len(asked'[c]) - RequestChunks
      BY <3>1 DEF MaySay
    <3>4. caller'[c] \notin {"new", "dialled", "shaken", "typing"}
      BY <2>1
    <3>5. Silent(c)'
      BY <3>4 DEF Silent
    <3> QED BY <3>2, <3>3, <3>4, <3>5 DEF Behind
  <2>3. Whole(c)'
    <3>1. Circle(echoes[c], toCaller[c], OnServer(c), toServer[c] \o chunks)
            = Circle(echoes[c], toCaller[c], OnServer(c), toServer[c]) \o chunks
      <4>1. \A w, s \in Bytes : w \o s \o chunks = w \o (s \o chunks)
        BY Associative
      <4>2. echoes[c] \o toCaller[c] \o OnServer(c) \in Bytes
        BY <1>3, <1>4, Joined
      <4> QED BY <1>3, <4>1, <4>2 DEF Circle
    <3> QED BY <1>1, <1>2, <2>1, <3>1 DEF Echoed, Whole, Around
  <2>4. Begun(c)'
    <3>1. PICK rest \in Bytes : asked[c] = echoes[c] \o toCaller[c] \o rest
      BY <1>2 DEF Echoed, Begun
    <3>2. asked[c] \o chunks = echoes[c] \o toCaller[c] \o (rest \o chunks)
      <4>1. \A w \in Bytes : w \o rest \o chunks = w \o (rest \o chunks)
        BY Associative
      <4> QED BY <1>4, <3>1, <4>1
    <3>3. rest \o chunks \in Bytes
      BY Joined
    <3> QED BY <1>1, <2>1, <3>2, <3>3 DEF Begun
  <2> QED BY <2>2, <2>3, <2>4 DEF Echoed
<1> QED BY <1>5, <1>6, <1>7, <1>8, <1>9 DEF EchoInv

LEMMA SpeakStep ==
  ASSUME EchoInv, NEW c \in Callers, Echo!SendRequest(c) \/ Echo!SendLine(c)
  PROVE  EchoInv'
<1>1. EchoTypes /\ Echoed(c)
  BY DEF EchoInv
<1>2. /\ asked[c] \in Bytes /\ Len(asked[c]) \in Nat /\ Len(echoes[c]) \in Nat
      /\ RequestChunks \in Nat /\ MaxTyped \in Nat
  BY <1>1, EchoBounds
<1>3. CASE Echo!SendRequest(c)
  <2> DEFINE chunks == [i \in 1..RequestChunks |-> i]
  <2>1. chunks \in [1..RequestChunks -> Nat]
    BY <1>2
  <2>2. chunks \in Bytes /\ Len(chunks) = RequestChunks
    BY <1>2, <2>1, LenIs DEF Bytes
  <2>3. caller[c] = "shaken" /\ Echo!SslWrite(c, chunks)
    BY <1>3 DEF Echo!SendRequest
  <2>4. Len(asked[c]) = 0 /\ Len(echoes[c]) = 0
    BY <1>1, <2>3, EmptySeq DEF Echoed, Silent
  <2>5. MaySay(c, Len(chunks))
    BY <1>2, <2>2, <2>4 DEF MaySay
  <2> HIDE DEF chunks
  <2> QED BY <2>2, <2>3, <2>5, SslWriteSays
<1>4. CASE Echo!SendLine(c)
  <2>1. PICK chunk \in {Echo!Kill, Len(asked[c]) + 1} :
          /\ caller[c] = "typing" /\ Len(asked[c]) < RequestChunks + MaxTyped
          /\ Echo!SslWrite(c, <<chunk>>)
    BY <1>4 DEF Echo!SendLine
  <2>2. <<chunk>> \in Bytes /\ Len(<<chunk>>) = 1
    BY <1>2 DEF Echo!Kill, Bytes
  <2>3. Len(echoes[c]) = Len(asked[c]) - (RequestChunks - 1)
    BY <1>1, <2>1 DEF Echoed, Behind
  <2>4. MaySay(c, Len(<<chunk>>))
    BY <1>2, <2>1, <2>2, <2>3 DEF MaySay
  <2> QED BY <2>1, <2>2, <2>4, SslWriteSays
<1> QED BY <1>3, <1>4

\* A caller goes; nothing else changes.
LEMMA GoneStep ==
  ASSUME EchoInv, NEW c \in Callers, caller' = [caller EXCEPT ![c] = "gone"],
         UNCHANGED <<doing, running, serving, objects, rxbuf, calls, refused, asked, toServer,
                     toCaller, echoes>>
  PROVE  EchoInv'
<1>1. EchoTypes /\ Calling /\ Stops /\ \A d \in Callers : Echoed(d)
  BY DEF EchoInv
<1>2. /\ \A d \in Callers : caller'[d] = IF d = c THEN "gone" ELSE caller[d]
      /\ \A k \in DOMAIN calls : calls[k] \in Callers
      /\ doing = "shaking" => serving \in Callers
  BY <1>1, ElementOfSeq, LenProperties DEF EchoTypes
<1>3. EchoTypes'
  BY <1>1 DEF EchoTypes, CallerStates
<1>4. Calling' /\ Stops'
  BY <1>1, <1>2 DEF Calling, Stops
<1>5. ASSUME NEW d \in Callers
      PROVE  Echoed(d)'
  <2>1. CASE d # c
    BY <1>1, <1>2, <2>1, Untouched DEF OnServer
  <2>2. CASE d = c
    <3>1. caller'[d] = "gone"
      BY <1>2, <2>2
    <3>2. Silent(d)' /\ Whole(d)'
      BY <3>1 DEF Silent, Whole
    <3>3. Begun(d)'
      BY <1>1 DEF Echoed, Begun
    <3>4. Behind(d)'
      BY <1>1, <3>1 DEF Echoed, Behind
    <3> QED BY <3>2, <3>3, <3>4 DEF Echoed
  <2> QED BY <2>1, <2>2
<1> QED BY <1>3, <1>4, <1>5 DEF EchoInv

LEMMA AwaitStep ==
  ASSUME EchoInv, NEW c \in Callers, Echo!AwaitEcho(c)
  PROVE  EchoInv'
<1>1. /\ caller[c] = "awaiting"
      /\ UNCHANGED <<doing, running, serving, objects, rxbuf, calls, refused, asked, toServer>>
  BY DEF Echo!AwaitEcho, Echo!serverVars
<1>2. EchoTypes /\ Calling /\ Stops /\ \A d \in Callers : Echoed(d)
  BY DEF EchoInv
<1>3. CASE caller' = [caller EXCEPT ![c] = "gone"] /\ UNCHANGED <<echoes, toCaller>>
  BY <1>1, <1>3, GoneStep
<1>4. CASE /\ toCaller[c] # <<>>
           /\ echoes' = [echoes EXCEPT ![c] = Append(@, Head(toCaller[c]))]
           /\ toCaller' = [toCaller EXCEPT ![c] = Tail(@)]
           /\ caller' = [caller EXCEPT ![c] = "typing"]
  <2>1. toCaller[c] \in Bytes /\ echoes[c] \in Bytes
    BY <1>2, EchoBounds
  <2>2. PICK e \in Bytes, t \in Bytes :
          /\ e = Append(echoes[c], Head(toCaller[c])) /\ t = Tail(toCaller[c])
          /\ e \o t = echoes[c] \o toCaller[c] /\ Len(e) = Len(echoes[c]) + 1
    BY <1>4, <2>1, Shift
  <2>3. /\ \A d \in Callers : caller'[d] = IF d = c THEN "typing" ELSE caller[d]
        /\ \A d \in Callers : echoes'[d] = IF d = c THEN e ELSE echoes[d]
        /\ \A d \in Callers : toCaller'[d] = IF d = c THEN t ELSE toCaller[d]
    BY <1>2, <1>4, <2>2 DEF EchoTypes
  <2>4. EchoTypes'
    BY <1>1, <1>2, <1>4, <2>2 DEF EchoTypes, CallerStates
  <2>5. Calling' /\ Stops'
    <3>1. /\ \A k \in DOMAIN calls : calls[k] \in Callers /\ calls[k] # c
          /\ doing = "shaking" => serving \in Callers /\ serving # c
      BY <1>1, <1>2, ElementOfSeq, LenProperties DEF EchoTypes, Calling
    <3> QED BY <1>1, <1>2, <2>3, <3>1 DEF Calling, Stops
  <2>6. ASSUME NEW d \in Callers, d # c
        PROVE  Echoed(d)'
    BY <1>1, <1>2, <2>3, <2>6, Untouched DEF OnServer
  <2>7. Echoed(c)'
    <3>1. Silent(c)'
      BY <2>3 DEF Silent
    <3>2. Whole(c)' /\ Begun(c)'
      BY <1>1, <1>2, <2>2, <2>3 DEF Echoed, Whole, Begun, Around, Circle, OnServer
    <3>3. Behind(c)'
      <4>1. Len(echoes[c]) = Len(asked[c]) - RequestChunks
            /\ Len(asked[c]) <= RequestChunks + MaxTyped
        BY <1>1, <1>2 DEF Echoed, Behind
      <4>2. \A m, n, r \in Nat : m = n - r => m + 1 = n - (r - 1)
        OBVIOUS
      <4>3. Len(e) = Len(asked[c]) - (RequestChunks - 1)
        BY <1>2, <2>2, <4>1, <4>2, EchoBounds
      <4> QED BY <1>1, <2>3, <4>1, <4>3 DEF Behind
    <3> QED BY <3>1, <3>2, <3>3 DEF Echoed
  <2> QED BY <2>4, <2>5, <2>6, <2>7 DEF EchoInv
<1> QED BY <1>3, <1>4 DEF Echo!AwaitEcho

\* At first there is nothing.
LEMMA NothingAround == Circle(<<>>, <<>>, <<>>, <<>>) = <<>>
<1>1. <<>> \in Seq(Nat)
  BY EmptySeq
<1> QED BY <1>1, ConcatEmptySeq DEF Circle

LEMMA AcceptCallStep ==
  ASSUME EchoInv, Echo!AcceptCall
  PROVE  EchoInv'
<1>1. /\ doing = "accepting" /\ calls # <<>> /\ serving' = Head(calls) /\ calls' = Tail(calls)
      /\ objects' = objects + 1 /\ doing' = "shaking"
      /\ UNCHANGED <<running, rxbuf, refused, caller, asked, toServer, toCaller, echoes>>
  BY DEF Echo!AcceptCall
<1>2. EchoTypes /\ Calling /\ Stops /\ \A d \in Callers : Echoed(d)
  BY DEF EchoInv
<1>3. /\ calls' \in Seq(Callers) /\ serving' = calls[1] /\ serving' \in Callers
      /\ Len(calls) \in Nat /\ Len(calls') = Len(calls) - 1
      /\ \A k \in 1..Len(calls') : k + 1 \in 1..Len(calls) /\ calls'[k] = calls[k + 1]
      /\ DOMAIN calls = 1..Len(calls) /\ DOMAIN calls' = 1..Len(calls')
      /\ Len(calls') \in Nat
  BY <1>1, <1>2, Beheaded, LenProperties DEF EchoTypes
<1>4. serving = Echo!Nobody /\ serving' # Echo!Nobody /\ objects = 0
  BY <1>1, <1>2, <1>3, ProgramsAssumption DEF EchoTypes, Echo!Nobody
<1>5. EchoTypes'
  BY <1>1, <1>2, <1>3, <1>4 DEF EchoTypes
<1>6. Calling'
  <2>1. 1 \in 1..Len(calls) /\ \A k \in 1..Len(calls') : k + 1 # 1
    BY <1>3
  <2>2. \A j, k \in 1..Len(calls') : j + 1 = k + 1 => j = k
    OBVIOUS
  <2> QED BY <1>1, <1>2, <1>3, <2>1, <2>2 DEF Calling
<1>7. Stops'
  BY <1>1, <1>2 DEF Stops
<1>8. ASSUME NEW d \in Callers
      PROVE  Echoed(d)'
  <2>1. serving # d
    BY <1>4, ProgramsAssumption DEF Echo!Nobody
  <2>2. CASE d # serving'
    BY <1>1, <1>2, <2>2, Untouched
  <2>3. CASE d = serving'
    <3>1. caller[d] \in {"dialled", "gone"}
      <4>1. 1 \in DOMAIN calls
        BY <1>3
      <4> QED BY <1>2, <1>3, <2>3, <4>1 DEF Calling
    <3>2. Silent(d)' /\ Begun(d)' /\ Behind(d)'
      BY <1>1, <1>2 DEF Echoed, Silent, Begun, Behind
    <3>3. Whole(d)'
      <4>1. CASE caller[d] = "gone"
        BY <1>1, <4>1 DEF Whole
      <4>2. CASE caller[d] = "dialled"
        BY <1>1, <1>2, <4>2, NothingAround DEF Echoed, Silent, Whole, Around, OnServer
      <4> QED BY <3>1, <4>1, <4>2
    <3> QED BY <3>2, <3>3 DEF Echoed
  <2> QED BY <2>2, <2>3
<1> QED BY <1>5, <1>6, <1>7, <1>8 DEF EchoInv


\* The first part of a sequence.
LEMMA BeginningOf ==
  ASSUME NEW e \in Bytes, NEW r \in Bytes
  PROVE  SubSeq(e \o r, 1, Len(e)) = e
<1>1. Len(e) \in Nat /\ e \o r \in Bytes
  BY Joined
<1>2. CASE Len(e) = 0
  <2>1. e = <<>>
    BY <1>2, EmptySeq DEF Bytes
  <2>2. SubSeq(e \o r, 1, 0) = <<>>
    BY SubSeqEmpty
  <2> QED BY <1>2, <2>1, <2>2
<1>3. CASE Len(e) # 0
  <2>1. 1 \in 1..Len(e) /\ Len(e) \in 1..Len(e)
    BY <1>1, <1>3
  <2>2. SubSeq(e \o r, 1, Len(e)) = SubSeq(e, 1, Len(e))
    BY <2>1, SubSeqOfConcat1 DEF Bytes
  <2> QED BY <2>2, SubSeqFull DEF Bytes
<1> QED BY <1>2, <1>3

LEMMA SslAcceptStep ==
  ASSUME EchoInv, Echo!SslAccept
  PROVE  EchoInv'
<1>1. /\ doing = "shaking"
      /\ UNCHANGED <<serving, objects, rxbuf, calls, asked, toServer, toCaller, echoes>>
  BY DEF Echo!SslAccept
<1>2. EchoTypes /\ Calling /\ Stops /\ \A d \in Callers : Echoed(d)
  BY DEF EchoInv
<1>3. serving \in Callers /\ caller[serving] \in {"dialled", "gone"} /\ running = TRUE
  BY <1>1, <1>2 DEF EchoTypes, Calling, Stops
<1>4. \A k \in DOMAIN calls : calls[k] \in Callers /\ calls[k] # serving
  BY <1>1, <1>2, ElementOfSeq, LenProperties DEF EchoTypes, Calling
<1>5. CASE /\ caller[serving] = "dialled" /\ caller' = [caller EXCEPT ![serving] = "shaken"]
           /\ doing' = "reading" /\ UNCHANGED <<running, refused>>
  <2>1. \A d \in Callers : caller'[d] = IF d = serving THEN "shaken" ELSE caller[d]
    BY <1>2, <1>5 DEF EchoTypes
  <2>2. EchoTypes' /\ Calling' /\ Stops'
    BY <1>1, <1>2, <1>3, <1>4, <1>5, <2>1 DEF EchoTypes, Calling, Stops, CallerStates
  <2>3. ASSUME NEW d \in Callers
        PROVE  Echoed(d)'
    <3>1. CASE d # serving
      BY <1>1, <1>2, <2>1, <3>1, Untouched
    <3>2. CASE d = serving
      <4>1. caller[d] = "dialled" /\ caller'[d] = "shaken"
        BY <1>5, <2>1, <3>2
      <4>2. Silent(d) /\ Whole(d) /\ Begun(d) /\ Behind(d)
        BY <1>2 DEF Echoed
      <4>3. Silent(d)'
        BY <1>1, <4>1, <4>2 DEF Silent
      <4>4. OnServer(d) = <<>> /\ OnServer(d)' = <<>>
        BY <1>1, <1>5 DEF OnServer
      <4>5. Around(d)' = Around(d)
        BY <1>1, <4>4 DEF Around
      <4>6. Whole(d)'
        BY <1>1, <1>3, <3>2, <4>1, <4>2, <4>5 DEF Whole
      <4>7. Begun(d)' /\ Behind(d)'
        BY <1>1, <4>1, <4>2 DEF Begun, Behind
      <4> QED BY <4>3, <4>6, <4>7 DEF Echoed
    <3> QED BY <3>1, <3>2
  <2> QED BY <2>2, <2>3 DEF EchoInv
<1>6. CASE /\ caller' = [caller EXCEPT ![serving] = "gone"]
           /\ refused' = refused \cup {serving} /\ running' = FALSE /\ doing' = "leaving"
  <2>1. \A d \in Callers : caller'[d] = IF d = serving THEN "gone" ELSE caller[d]
    BY <1>2, <1>6 DEF EchoTypes
  <2>2. EchoTypes' /\ Calling' /\ Stops'
    BY <1>1, <1>2, <1>3, <1>4, <1>6, <2>1 DEF EchoTypes, Calling, Stops, CallerStates
  <2>3. ASSUME NEW d \in Callers
        PROVE  Echoed(d)'
    <3>1. CASE d # serving
      BY <1>1, <1>2, <1>6, <2>1, <3>1, Untouched
    <3>2. CASE d = serving
      <4>1. caller'[d] = "gone"
        BY <2>1, <3>2
      <4>2. Silent(d)' /\ Whole(d)'
        BY <4>1 DEF Silent, Whole
      <4>3. Begun(d)'
        BY <1>1, <1>2 DEF Echoed, Begun
      <4>4. Behind(d)'
        BY <1>1, <1>2, <4>1 DEF Echoed, Behind
      <4> QED BY <4>2, <4>3, <4>4 DEF Echoed
    <3> QED BY <3>1, <3>2
  <2> QED BY <2>2, <2>3 DEF EchoInv
<1> QED BY <1>5, <1>6 DEF Echo!SslAccept

LEMMA SslReadingStep ==
  ASSUME EchoInv, Echo!SslRead
  PROVE  EchoInv'
<1>1. /\ doing = "reading"
      /\ UNCHANGED <<serving, objects, calls, refused, caller, asked, toCaller, echoes>>
  BY DEF Echo!SslRead
<1>2. EchoTypes /\ Calling /\ Stops /\ \A d \in Callers : Echoed(d)
  BY DEF EchoInv
<1>3. serving \in Callers /\ running = TRUE /\ \A d \in Callers : OnServer(d) = <<>>
  BY <1>1, <1>2 DEF EchoTypes, Stops, OnServer
<1>4. doing' \in {"echoing", "leaving"}
  BY DEF Echo!SslRead
<1>5. Calling'
  BY <1>1, <1>2, <1>4 DEF Calling
<1>6. CASE /\ caller[serving] = "gone" /\ doing' = "leaving"
           /\ UNCHANGED <<running, rxbuf, toServer>>
  <2>1. EchoTypes' /\ Stops'
    BY <1>1, <1>2, <1>3, <1>6 DEF EchoTypes, Stops
  <2>2. ASSUME NEW d \in Callers
        PROVE  Echoed(d)'
    BY <1>1, <1>2, <1>3, <1>6, Untouched DEF OnServer
  <2> QED BY <1>5, <2>1, <2>2 DEF EchoInv
<1>7. CASE /\ toServer[serving] # <<>> /\ rxbuf' = Head(toServer[serving])
           /\ toServer' = [toServer EXCEPT ![serving] = Tail(@)]
           /\ running' = (rxbuf' # Echo!Kill)
           /\ doing' = IF running' THEN "echoing" ELSE "leaving"
  <2> DEFINE s == toServer[serving]
  <2>1. s \in Bytes /\ s # <<>>
    BY <1>2, <1>3, <1>7, EchoBounds
  <2>2. Head(s) \in Nat /\ Tail(s) \in Bytes
    BY <2>1, HeadTailProperties DEF Bytes
  <2>3. \A d \in Callers : toServer'[d] = IF d = serving THEN Tail(s) ELSE toServer[d]
    BY <1>2, <1>7 DEF EchoTypes
  <2>4. EchoTypes'
    BY <1>1, <1>2, <1>3, <1>7, <2>2 DEF EchoTypes
  <2>5. Stops'
    BY <1>2, <1>3, <1>4, <1>7 DEF Stops
  <2>6. ASSUME NEW d \in Callers, d # serving
        PROVE  Echoed(d)'
    BY <1>1, <1>2, <2>3, <2>6, Untouched
  <2>7. Echoed(serving)'
    <3>1. Silent(serving) /\ Whole(serving) /\ Begun(serving) /\ Behind(serving)
      BY <1>2, <1>3 DEF Echoed
    <3>2. serving' = serving /\ Begun(serving)' /\ Behind(serving)'
      BY <1>1, <3>1 DEF Begun, Behind
    <3>3. Silent(serving)'
      BY <1>1, <1>7, <3>1 DEF Silent
    <3>4. Whole(serving)'
      <4>1. /\ echoes[serving] \in Bytes /\ toCaller[serving] \in Bytes
        BY <1>2, <1>3, EchoBounds
      <4>2. Circle(echoes[serving], toCaller[serving], <<Head(s)>>, Tail(s))
              = Circle(echoes[serving], toCaller[serving], <<>>, s)
        BY <2>1, <4>1, ReadByServer
      <4>3. running' => OnServer(serving)' = <<Head(s)>>
        BY <1>1, <1>7 DEF OnServer
      <4>4. toServer'[serving] = Tail(s)
        BY <1>3, <2>3
      <4>5. OnServer(serving) = <<>>
        BY <1>3
      <4> HIDE DEF s
      <4>6. Around(serving) = Circle(echoes[serving], toCaller[serving], <<>>, s)
        BY <4>5 DEF Around, s
      <4>7. running' => Around(serving)' = Around(serving)
        BY <1>1, <4>2, <4>3, <4>4, <4>6 DEF Around
      <4> QED BY <1>1, <1>3, <3>1, <4>7 DEF Whole
    <3> QED BY <3>2, <3>3, <3>4 DEF Echoed
  <2>8. serving' = serving
    BY <1>1
  <2> QED BY <1>5, <2>4, <2>5, <2>6, <2>7, <2>8 DEF EchoInv
<1> QED BY <1>6, <1>7 DEF Echo!SslRead

LEMMA EchoStep ==
  ASSUME EchoInv, Echo!Echo
  PROVE  EchoInv'
<1>1. /\ doing = "echoing" /\ doing' = "reading"
      /\ toCaller' = [toCaller EXCEPT ![serving] =
                         IF caller[serving] = "gone" THEN @ ELSE Append(@, rxbuf)]
      /\ UNCHANGED <<running, serving, objects, rxbuf, calls, refused, caller, asked, toServer,
                     echoes>>
  BY DEF Echo!Echo
<1>2. EchoTypes /\ Calling /\ Stops /\ \A d \in Callers : Echoed(d)
  BY DEF EchoInv
<1>3. serving \in Callers /\ running = TRUE /\ rxbuf \in Nat
  BY <1>1, <1>2 DEF EchoTypes, Stops
<1>4. /\ echoes[serving] \in Bytes /\ toCaller[serving] \in Bytes
      /\ toServer[serving] \in Bytes
  BY <1>2, <1>3, EchoBounds
<1> DEFINE e == echoes[serving]
           t == toCaller[serving]
           s == toServer[serving]
<1>5. /\ Append(t, rxbuf) \in Bytes
      /\ Circle(e, Append(t, rxbuf), <<>>, s) = Circle(e, t, <<rxbuf>>, s)
      /\ Circle(e, t, <<rxbuf>>, s) = e \o Append(t, rxbuf) \o s
  BY <1>3, <1>4, SentBack
<1>6. \A d \in Callers : toCaller'[d] = IF d = serving /\ caller[serving] # "gone"
                                          THEN Append(t, rxbuf) ELSE toCaller[d]
  BY <1>1, <1>2 DEF EchoTypes
<1>7. EchoTypes' /\ Calling' /\ Stops'
  BY <1>1, <1>2, <1>3, <1>4, <1>5 DEF EchoTypes, Calling, Stops
<1>8. ASSUME NEW d \in Callers, d # serving
      PROVE  Echoed(d)'
  BY <1>1, <1>2, <1>6, <1>8, Untouched
<1>9. Silent(serving) /\ Whole(serving) /\ Begun(serving) /\ Behind(serving)
  BY <1>2, <1>3 DEF Echoed
<1>10. Echoed(serving)'
  <2>1. serving' = serving /\ Behind(serving)'
    BY <1>1, <1>9 DEF Behind
  <2>2. CASE caller[serving] = "gone"
    <3>1. toCaller'[serving] = toCaller[serving]
      BY <1>3, <1>6, <2>2
    <3>2. Silent(serving)' /\ Whole(serving)'
      BY <1>1, <2>2 DEF Silent, Whole
    <3>3. Begun(serving)'
      BY <1>1, <1>9, <3>1 DEF Begun
    <3> QED BY <2>1, <3>2, <3>3 DEF Echoed
  <2>3. CASE caller[serving] # "gone"
    <3>1. toCaller'[serving] = Append(t, rxbuf)
      BY <1>3, <1>6, <2>3
    <3>2. OnServer(serving) = <<rxbuf>> /\ OnServer(serving)' = <<>>
      BY <1>1 DEF OnServer
    <3>3. Around(serving) = Circle(e, t, <<rxbuf>>, s)
          /\ Around(serving)' = Circle(e, Append(t, rxbuf), <<>>, s)
      BY <1>1, <3>1, <3>2 DEF Around
    <3> HIDE DEF e, t, s
    <3>4. asked[serving] = Circle(e, t, <<rxbuf>>, s)
      BY <1>3, <1>9, <2>3, <3>3 DEF Whole
    <3>5. Whole(serving)'
      BY <1>1, <1>5, <3>3, <3>4 DEF Whole
    <3>6. Begun(serving)'
      <4>1. asked'[serving'] = echoes'[serving'] \o toCaller'[serving'] \o s
        BY <1>1, <1>5, <3>1, <3>4 DEF e
      <4> QED BY <1>4, <4>1 DEF Begun, s
    <3>7. Silent(serving)'
      <4>1. asked[serving] # <<>>
        <5>1. e \o Append(t, rxbuf) \in Bytes /\ e \in Bytes /\ s \in Bytes
          BY <1>4, <1>5, Joined DEF e, s
        <5>2. Append(t, rxbuf) # <<>>
          <6>1. t \in Seq(Nat)
            BY <1>4 DEF t, Bytes
          <6>2. \A r \in Nat : Append(t, r) # <<>>
            BY <6>1, AppendProperties
          <6> QED BY <1>3, <6>2
        <5>3. e \o Append(t, rxbuf) # <<>>
          BY <1>5, <5>1, <5>2, ConcatEqualIffEmpty DEF Bytes
        <5>4. e \o Append(t, rxbuf) \o s # <<>>
          BY <5>1, <5>3, ConcatEqualIffEmpty DEF Bytes
        <5> QED BY <1>5, <3>4, <5>4
      <4>2. caller[serving] \notin {"new", "dialled", "shaken"}
        BY <1>9, <4>1 DEF Silent
      <4> QED BY <1>1, <4>2 DEF Silent
    <3> QED BY <2>1, <3>5, <3>6, <3>7 DEF Echoed
  <2> QED BY <2>2, <2>3
<1> QED BY <1>1, <1>7, <1>8, <1>10 DEF EchoInv

LEMMA CleanUpStep ==
  ASSUME EchoInv, Echo!CleanUp
  PROVE  EchoInv'
<1>1. /\ doing = "leaving" /\ objects' = objects - 1 /\ serving' = Echo!Nobody
      /\ doing' = IF running THEN "accepting" ELSE "ended"
      /\ UNCHANGED <<running, rxbuf, calls, refused, caller, asked, toServer, toCaller, echoes>>
  BY DEF Echo!CleanUp
<1>2. EchoTypes /\ Calling /\ Stops /\ \A d \in Callers : Echoed(d)
  BY DEF EchoInv
<1>3. EchoTypes' /\ Calling' /\ Stops'
  BY <1>1, <1>2 DEF EchoTypes, Calling, Stops
<1>4. ASSUME NEW d \in Callers
      PROVE  Echoed(d)'
  <2>1. serving' # d
    BY <1>1, ProgramsAssumption DEF Echo!Nobody
  <2> QED BY <1>1, <1>2, <2>1, Untouched
<1> QED BY <1>3, <1>4 DEF EchoInv

\* The echo server of src/ssl-client/Client.cpp echoes whole, in order, and to the client
\* that has sent; a client reads the echo of an earlier chunk than its last; and the
\* server ends only when it was told to, or after a failed handshake.
THEOREM EchoesAreBehind == Spec => []EchoesLag
<1> DEFINE EchoI == program = "ssl-client" => EchoInv
<1>1. Init => EchoI
  BY EchoStart DEF Init
<1>2. EchoI /\ [Next]_vars => EchoI'
  <2> SUFFICES ASSUME EchoI, [Next]_vars, program' = "ssl-client"
               PROVE  EchoInv'
    OBVIOUS
  <2>1. program = "ssl-client" /\ EchoInv /\ (Echo!Next \/ UNCHANGED echoVars)
    BY StepIsOwn
  <2>2. CASE UNCHANGED echoVars
    <3>1. EchoTypes' /\ Calling' /\ Stops'
      BY <2>1, <2>2 DEF echoVars, EchoInv, EchoTypes, Calling, Stops
    <3>2. ASSUME NEW d \in Callers
          PROVE  Echoed(d)'
      BY <2>1, <2>2, Untouched DEF echoVars, EchoInv, OnServer
    <3> QED BY <3>1, <3>2 DEF EchoInv
  <2>3. CASE Echo!Serve
    BY <2>1, <2>3, AcceptCallStep, SslAcceptStep, SslReadingStep, EchoStep, CleanUpStep
       DEF Echo!Serve
  <2>4. ASSUME NEW c \in Callers,
               Echo!Dial(c) \/ Echo!SendRequest(c) \/ Echo!SendLine(c) \/ Echo!AwaitEcho(c)
                 \/ Echo!HangUp(c)
        PROVE  EchoInv'
    <3>1. CASE Echo!HangUp(c)
      BY <2>1, <3>1, GoneStep DEF Echo!HangUp, Echo!serverVars
    <3> QED BY <2>1, <2>4, <3>1, DialStep, SpeakStep, AwaitStep
  <2> QED BY <2>1, <2>2, <2>3, <2>4 DEF Echo!Next
<1>3. EchoI => EchoesLag
  <2> SUFFICES ASSUME EchoInv
               PROVE  Echo!EchoesLag
    BY DEF EchoesLag
  <2>1. EchoTypes /\ Calling /\ Stops /\ \A c \in Callers : Echoed(c)
    BY DEF EchoInv
  <2>2. Echo!TypeOK
    BY <2>1 DEF EchoTypes, Echoed, Behind, Echo!TypeOK
  <2>3. doing = "ended" => rxbuf = Echo!Kill \/ refused # {}
    BY <2>1 DEF Stops
  <2>4. ASSUME NEW c \in Callers
        PROVE  LET held == IF serving = c /\ doing = "echoing" THEN <<rxbuf>> ELSE <<>>
               IN /\ serving = c /\ running /\ caller[c] # "gone"
                       => echoes[c] \o toCaller[c] \o held \o toServer[c] = asked[c]
                  /\ echoes[c] = SubSeq(asked[c], 1, Len(echoes[c]))
                  /\ caller[c] = "typing" => Len(echoes[c]) = Len(asked[c]) - (RequestChunks - 1)
    <3>1. Whole(c) /\ Begun(c) /\ Behind(c)
      BY <2>1 DEF Echoed
    <3>2. echoes[c] = SubSeq(asked[c], 1, Len(echoes[c]))
      <4>1. PICK e \in Bytes, t \in Bytes : e = echoes[c] /\ t = toCaller[c]
        BY <2>1, EchoBounds
      <4>2. PICK r \in Bytes : asked[c] = e \o t \o r
        BY <3>1, <4>1 DEF Begun
      <4>3. asked[c] = e \o (t \o r) /\ t \o r \in Bytes
        BY <4>2, Associative, Joined
      <4>4. SubSeq(e \o (t \o r), 1, Len(e)) = e
        BY <4>3, BeginningOf
      <4> QED BY <4>1, <4>3, <4>4
    <3> QED BY <3>1, <3>2 DEF Whole, Behind, Around, Circle, OnServer
  <2> QED BY <2>2, <2>3, <2>4 DEF Echo!EchoesLag
<1> QED BY <1>1, <1>2, <1>3, PTL DEF Spec

----------------------------------------------------------------------------
(***************************************************************************)
(* The load balancer                                                       *)
(***************************************************************************)

NumServices == Cardinality(DOMAIN Weights)

Stages == {"idle", "random", "positive", "decrement", "store", "zero", "index", "advance",
           "reload", "select"}

\* Where a task has a service in hand, and where the static position has been set.
HasIndex == {"advance", "reload", "select"}
IsSet == {"decrement", "store", "reload", "select"}

Indexed ==
  /\ strategy \in Balance!Strategies
  /\ at \in [Tasks -> Stages]
  /\ currentIndex \in Balance!Servers \cup {-1}
  /\ weight \in Int /\ inHand \in [Tasks -> Int]
  /\ weight # 0 => currentIndex # -1
  /\ \A t \in Tasks : /\ at[t] \in HasIndex => inHand[t] \in Balance!Servers
                      /\ at[t] \in IsSet => currentIndex # -1
                      /\ at[t] = "zero" /\ inHand[t] # 0 => currentIndex # -1
                      /\ at[t] = "random" <=> at[t] # "idle" /\ strategy = "Random"
                      /\ strategy = "RoundRobin" => at[t] \in {"idle", "index", "advance", "select"}
  /\ DOMAIN picked \subseteq Balance!Servers
  /\ \A i \in DOMAIN picked : picked[i] \in Nat
  /\ begun \in 0..MaxPicks
  /\ overlapped \in BOOLEAN

\* In round r, service c has had k of its turns.
Shares(r, c, k) ==
  \A i \in Balance!Servers :
    Balance!Times(i) = IF i < c THEN (r + 1) * Balance!Turns(i)
                       ELSE IF i > c THEN r * Balance!Turns(i)
                       ELSE r * Balance!Turns(i) + k

\* What a selection that nothing interferes with has left, and has in hand, in each stage.
TakesTurns(a, v, k) ==
  /\ a \in {"idle", "index", "advance"} => k = 1
  /\ a = "advance" => v = (currentIndex + 1) % NumServices
  /\ a = "select" => k = 0 /\ v = currentIndex
CountsDown(a, v, k) ==
  LET w == Weights[currentIndex]
      c == currentIndex
  IN /\ weight \in 0..w
     /\ a \in {"idle", "positive", "decrement", "store"} => k >= 1 /\ k + weight = w + 1
     /\ a = "decrement" => weight > 0 /\ v = weight
     /\ a = "store" => weight > 0 /\ v = weight - 1
     /\ a = "zero" => v = weight /\ k + weight = Balance!Turns(c)
     /\ a \in {"index", "advance"} => k = Balance!Turns(c) /\ weight = 0
     /\ a = "advance" => v = (c + 1) % NumServices
     /\ a = "reload" => k = 0 /\ v = c
     /\ a = "select" => k + weight = w /\ k < Balance!Turns(c) /\ v = c

\* The stages before the position moves on.
Early == {"positive", "decrement", "store", "zero", "index", "advance"}

Starting(a, v) ==
  /\ currentIndex = -1 /\ weight = 0 /\ picked = <<>>
  /\ a \in {"idle", "positive", "zero", "index", "advance"}
  /\ a # "idle" => begun >= 1
  /\ a \in {"zero", "advance"} => v = 0

\* Round r, turn k of it, once the position has been set.
GoingOn(a, v, r, k) ==
  /\ currentIndex \in Balance!Servers
  /\ r \in 0..MaxPicks /\ k \in 0..Balance!Turns(currentIndex)
  /\ r < begun /\ (a \in Early => r + 1 < begun)
  /\ Shares(r, currentIndex, k)
  /\ strategy = "RoundRobin" => TakesTurns(a, v, k)
  /\ strategy = "WeightedRoundRobin" => CountsDown(a, v, k)

Now(a, v) == Starting(a, v) \/ \E r, k \in Nat : GoingOn(a, v, r, k)

Shared ==
  ~overlapped /\ strategy # "Random" =>
    /\ \A t, u \in Tasks : at[t] # "idle" /\ at[u] # "idle" => t = u
    /\ (\A t \in Tasks : at[t] = "idle") => Now("idle", 0)
    /\ \A t \in Tasks : at[t] # "idle" => Now(at[t], inHand[t])

BalanceInv == Indexed /\ Shared

LEMMA Services ==
  /\ NumServices \in Nat \ {0} /\ Balance!Servers = 0..(NumServices - 1)
  /\ Balance!Cardinality(Balance!Servers) = NumServices
  /\ \A i \in Balance!Servers : Weights[i] \in Nat
<1>1. Balance!Cardinality(DOMAIN Weights) = Cardinality(DOMAIN Weights)
  BY Zenon DEF Balance!Cardinality, Cardinality
<1>2. NumServices \in Nat /\ NumServices # 0
  BY ProgramsAssumption, FS_CardinalityType, FS_EmptySet DEF NumServices
<1> QED BY <1>1, <1>2, ProgramsAssumption DEF NumServices, Balance!Servers

LEMMA TurnsAre ==
  ASSUME NEW i \in Balance!Servers
  PROVE  /\ Balance!Turns(i) \in Nat \ {0}
         /\ strategy = "RoundRobin" => Balance!Turns(i) = 1
         /\ strategy # "RoundRobin" =>
              Balance!Turns(i) = IF Weights[i] = 0 THEN 1 ELSE Weights[i]
<1>1. \A n \in Nat : Balance!Max({1, n}) = IF n = 0 THEN 1 ELSE n
  <2> SUFFICES ASSUME NEW n \in Nat
               PROVE  Balance!Max({1, n}) = IF n = 0 THEN 1 ELSE n
    OBVIOUS
  <2> DEFINE m == IF n = 0 THEN 1 ELSE n
  <2>1. m \in {1, n} /\ \A y \in {1, n} : m >= y
    OBVIOUS
  <2>2. \A x \in {1, n} : (\A y \in {1, n} : x >= y) => x = m
    OBVIOUS
  <2> HIDE DEF m
  <2>3. Balance!Max({1, n}) = m
    BY <2>1, <2>2, Zenon DEF Balance!Max
  <2> QED BY <2>3 DEF m
<1> QED BY <1>1, Services DEF Balance!Turns

\* The position after c.
LEMMA PositionAfter ==
  ASSUME NEW c \in Balance!Servers \cup {-1}
  PROVE  /\ (c + 1) % NumServices \in Balance!Servers
         /\ (c + 1) % NumServices = IF c = NumServices - 1 THEN 0 ELSE c + 1
<1>1. \A n \in Nat \ {0} : \A d \in 0..(n - 1) : (d + 1) % n = IF d = n - 1 THEN 0 ELSE d + 1
  OBVIOUS
<1>2. \A n \in Nat \ {0} : (-1 + 1) % n = 0
  OBVIOUS
<1> QED BY <1>1, <1>2, Services

LEMMA Products ==
  \A r, n \in Nat : r * n \in Nat /\ (r + 1) * n = r * n + n /\ (r + 1) * n \in Nat
OBVIOUS

\* Every order of the threads: what is in hand, and the position, is an index.
LEMMA IndexedStep ==
  ASSUME Indexed, Balance!Next
  PROVE  Indexed'
<1>0. PICK t \in Tasks :
        \/ Balance!RequestServer(t) \/ Balance!Random(t) \/ Balance!TestPositive(t)
        \/ Balance!ReadWeight(t) \/ Balance!StoreWeight(t) \/ Balance!TestZero(t)
        \/ Balance!ReadIndex(t) \/ Balance!Advance(t) \/ Balance!Reload(t) \/ Balance!Select(t)
  BY DEF Balance!Next
<1> USE DEF Indexed, Balance!Go, Balance!Have, Stages, HasIndex, IsSet
<1>1. CASE Balance!RequestServer(t)
  <2>1. begun' \in 0..MaxPicks
    BY <1>1, ProgramsAssumption DEF Balance!RequestServer
  <2>2. at'[t] \in {"index", "positive", "random"} /\ at' \in [Tasks -> Stages]
    BY <1>1 DEF Balance!RequestServer, Balance!Strategies
  <2> QED BY <1>1, <2>1, <2>2 DEF Balance!RequestServer, Balance!Strategies
<1>2. CASE Balance!Random(t) \/ Balance!Select(t)
  <2>1. PICK i \in Balance!Servers : Balance!Return(i)
    BY <1>2 DEF Balance!Random, Balance!Select
  <2>2. DOMAIN picked' \subseteq Balance!Servers /\ \A j \in DOMAIN picked' : picked'[j] \in Nat
    BY <2>1 DEF Balance!Return, Balance!Times
  <2> QED BY <1>2, <2>2 DEF Balance!Random, Balance!Select
<1>3. CASE Balance!TestPositive(t)
  BY <1>3 DEF Balance!TestPositive
<1>4. CASE Balance!ReadWeight(t)
  BY <1>4 DEF Balance!ReadWeight
<1>5. CASE Balance!StoreWeight(t)
  BY <1>5 DEF Balance!StoreWeight
<1>6. CASE Balance!TestZero(t)
  <2>1. currentIndex \in Int
    BY Services
  <2> QED BY <1>6, <2>1 DEF Balance!TestZero
<1>7. CASE Balance!ReadIndex(t)
  <2>1. (currentIndex + 1) % NumServices \in Balance!Servers /\ Balance!Servers \subseteq Int
    BY PositionAfter, Services
  <2> QED BY <1>7, <2>1, Services DEF Balance!ReadIndex
<1>8. CASE Balance!Advance(t)
  <2>1. -1 \notin Balance!Servers
    BY Services
  <2> QED BY <1>8, <2>1 DEF Balance!Advance
<1>9. CASE Balance!Reload(t)
  <2>1. PICK i \in {currentIndex, inHand[t]} : weight' = Weights[i] /\ Balance!Have(t, i)
    BY <1>9 DEF Balance!Reload
  <2>2. i \in Balance!Servers /\ i \in Int /\ Weights[i] \in Int /\ currentIndex # -1
    BY <1>9, <2>1, Services DEF Balance!Reload
  <2> QED BY <1>9, <2>1, <2>2 DEF Balance!Reload
<1> QED BY <1>0, <1>1, <1>2, <1>3, <1>4, <1>5, <1>6, <1>7, <1>8, <1>9

\* The turns of a service are over.
LEMMA NextTurn ==
  ASSUME NEW c \in Balance!Servers, NEW r \in Nat, Shares(r, c, Balance!Turns(c))
  PROVE  /\ c # NumServices - 1 => Shares(r, c + 1, 0)
         /\ c = NumServices - 1 => Shares(r + 1, 0, 0)
<1>1. \A i \in Balance!Servers : i \in Int /\ 0 <= i /\ i <= NumServices - 1
  BY Services
<1>2. \A i \in Balance!Servers :
        /\ Balance!Turns(i) \in Nat /\ r * Balance!Turns(i) \in Nat
        /\ (r + 1) * Balance!Turns(i) = r * Balance!Turns(i) + Balance!Turns(i)
        /\ (r + 1) * Balance!Turns(i) \in Nat
  BY Products, TurnsAre
<1>3. \A i \in Balance!Servers :
        /\ i < c => Balance!Times(i) = (r + 1) * Balance!Turns(i)
        /\ i = c => Balance!Times(i) = (r + 1) * Balance!Turns(i)
        /\ i > c => Balance!Times(i) = r * Balance!Turns(i)
  BY <1>1, <1>2 DEF Shares
<1>4. ASSUME c # NumServices - 1
      PROVE  Shares(r, c + 1, 0)
  <2> SUFFICES ASSUME NEW i \in Balance!Servers
               PROVE  Balance!Times(i) = IF i < c + 1 THEN (r + 1) * Balance!Turns(i)
                                         ELSE IF i > c + 1 THEN r * Balance!Turns(i)
                                         ELSE r * Balance!Turns(i) + 0
    BY DEF Shares
  <2>1. \/ i < c + 1 /\ (i < c \/ i = c)
        \/ ~(i < c + 1) /\ i > c
    BY <1>1
  <2>2. r * Balance!Turns(i) + 0 = r * Balance!Turns(i)
    BY <1>2
  <2> QED BY <1>3, <2>1, <2>2
<1>5. ASSUME c = NumServices - 1
      PROVE  Shares(r + 1, 0, 0)
  <2> SUFFICES ASSUME NEW i \in Balance!Servers
               PROVE  Balance!Times(i) = IF i < 0 THEN (r + 1 + 1) * Balance!Turns(i)
                                         ELSE IF i > 0 THEN (r + 1) * Balance!Turns(i)
                                         ELSE (r + 1) * Balance!Turns(i) + 0
    BY DEF Shares
  <2>1. ~(i < 0) /\ (i < c \/ i = c)
    BY <1>1, <1>5
  <2>2. (r + 1) * Balance!Turns(i) + 0 = (r + 1) * Balance!Turns(i)
    BY <1>2
  <2> QED BY <1>3, <2>1, <2>2
<1> QED BY <1>4, <1>5

LEMMA NoTurns ==
  ASSUME picked = <<>>
  PROVE  0 \in Balance!Servers /\ Shares(0, 0, 0)
<1>1. \A i \in Balance!Servers : Balance!Times(i) = 0
  BY DEF Balance!Times
<1>2. \A i \in Balance!Servers : i \in Int /\ ~(i < 0) /\ Balance!Turns(i) \in Nat
  BY Services, TurnsAre
<1>3. \A n \in Nat : 0 * n = 0 /\ 0 * n + 0 = 0
  OBVIOUS
<1> QED BY <1>1, <1>2, <1>3, Services DEF Shares

LEMMA TurnTaken ==
  ASSUME Indexed, NEW c \in Balance!Servers, NEW r \in Nat, NEW k \in Nat, Shares(r, c, k),
         Balance!Return(c), strategy' = strategy
  PROVE  Shares(r, c, k + 1)'
<1>1. \A i : Balance!Times(i)' = IF i = c THEN Balance!Times(c) + 1 ELSE Balance!Times(i)
  BY DEF Balance!Return, Balance!Times
<1>2. \A i : Balance!Turns(i)' = Balance!Turns(i)
  BY DEF Balance!Turns
<1>3. \A i \in Balance!Servers : i \in Int
  BY Services
<1>4. r * Balance!Turns(c) \in Nat
  BY Products, TurnsAre
<1>5. ASSUME NEW i \in Balance!Servers
      PROVE  Balance!Times(i)' = IF i < c THEN (r + 1) * Balance!Turns(i)
                                 ELSE IF i > c THEN r * Balance!Turns(i)
                                 ELSE r * Balance!Turns(i) + (k + 1)
  <2>1. CASE i = c
    <3>1. Balance!Times(c) = r * Balance!Turns(c) + k
      BY <1>3 DEF Shares
    <3>2. ~(c < c) /\ ~(c > c)
      BY <1>3
    <3> QED BY <1>1, <1>4, <2>1, <3>1, <3>2
  <2>2. CASE i # c
    <3>1. i < c \/ i > c
      BY <1>3, <2>2
    <3> QED BY <1>1, <2>2, <3>1 DEF Shares
  <2> QED BY <2>1, <2>2
<1> QED BY <1>2, <1>5 DEF Shares

\* The shares are counted in picked alone.
LEMMA SharesStay ==
  ASSUME picked' = picked, strategy' = strategy, NEW r, NEW c, NEW k
  PROVE  Shares(r, c, k)' <=> Shares(r, c, k)
<1>1. \A i : Balance!Times(i)' = Balance!Times(i) /\ Balance!Turns(i)' = Balance!Turns(i)
  BY DEF Balance!Times, Balance!Turns
<1> QED BY <1>1 DEF Shares

\* What the property says of it.
LEMMA SharesAre ==
  ASSUME NEW c \in Balance!Servers, NEW r \in Nat, NEW k \in 0..Balance!Turns(c),
         Shares(r, c, k)
  PROVE  \A i \in Balance!Servers :
           Balance!Times(i) \in
             CASE i < c -> {(r + 1) * Balance!Turns(i)}
               [] i > c -> {r * Balance!Turns(i)}
               [] i = c -> (r * Balance!Turns(i))..((r + 1) * Balance!Turns(i))
<1> SUFFICES ASSUME NEW i \in Balance!Servers
             PROVE  Balance!Times(i) \in
                      CASE i < c -> {(r + 1) * Balance!Turns(i)}
                        [] i > c -> {r * Balance!Turns(i)}
                        [] i = c -> (r * Balance!Turns(i))..((r + 1) * Balance!Turns(i))
  OBVIOUS
<1>1. i \in Int /\ c \in Int
  BY Services
<1>2. CASE i < c
  BY <1>1, <1>2 DEF Shares
<1>3. CASE i > c
  BY <1>1, <1>3 DEF Shares
<1>4. CASE i = c
  <2>1. PICK n \in Nat : n = Balance!Turns(c)
    BY TurnsAre
  <2>2. PICK m \in Nat : m = r * Balance!Turns(c)
    BY <2>1, Products
  <2>3. (r + 1) * Balance!Turns(c) = m + n
    BY <2>1, <2>2, Products
  <2>4. Balance!Times(c) = m + k
    BY <1>1, <2>2 DEF Shares
  <2>5. Balance!Times(c) \in m..(m + n)
    BY <2>1, <2>4
  <2>6. ~(i < c) /\ ~(i > c)
    BY <1>1, <1>4
  <2> QED BY <1>4, <2>2, <2>3, <2>5, <2>6
<1> QED BY <1>1, <1>2, <1>3, <1>4

\* A stage that leaves the shares and the position alone.
LEMMA SameShares ==
  ASSUME NEW a, NEW v, NEW b, NEW w, NEW r \in Nat, NEW k \in Nat, GoingOn(a, v, r, k),
         UNCHANGED <<strategy, currentIndex, picked, begun>>,
         b \in Early => a \in Early,
         strategy = "RoundRobin" => TakesTurns(b, w, k)',
         strategy = "WeightedRoundRobin" => CountsDown(b, w, k)'
  PROVE  GoingOn(b, w, r, k)'
<1>1. Balance!Turns(currentIndex)' = Balance!Turns(currentIndex)
  BY DEF Balance!Turns
<1>2. Shares(r, currentIndex, k)'
  BY SharesStay DEF GoingOn
<1> QED BY <1>1, <1>2 DEF GoingOn

\* The numbers of the current service.
LEMMA Numbers ==
  ASSUME NEW a, NEW v, NEW r \in Nat, NEW k \in Nat, GoingOn(a, v, r, k), strategy = "WeightedRoundRobin"
  PROVE  \E n \in Nat, m \in Nat : /\ n = Weights[currentIndex] /\ m = Balance!Turns(currentIndex)
                                   /\ m = (IF n = 0 THEN 1 ELSE n)
                                   /\ k \in 0..m /\ weight \in 0..n
BY TurnsAre, Services DEF GoingOn, CountsDown

LEMMA TestPositiveTurn ==
  ASSUME Indexed, NEW t \in Tasks, NEW a, NEW v, NEW b, NEW w,
         a = at[t], v = inHand[t], b = at'[t], w = inHand'[t],
         Now(a, v), Balance!TestPositive(t)
  PROVE  Now(b, w)'
<1>1. /\ a = "positive" /\ b = (IF weight > 0 THEN "decrement" ELSE "zero")
      /\ w = weight
      /\ UNCHANGED <<strategy, currentIndex, weight, picked, begun>>
  BY DEF Balance!TestPositive, Balance!Go, Balance!Have, Indexed
<1>2. CASE Starting(a, v)
  <2>1. b = "zero" /\ w = 0
    BY <1>1, <1>2 DEF Starting
  <2> QED BY <1>1, <1>2, <2>1 DEF Starting, Now
<1>3. ASSUME NEW r \in Nat, NEW k \in Nat, GoingOn(a, v, r, k)
      PROVE  GoingOn(b, w, r, k)'
  <2>1. strategy # "RoundRobin"
    BY <1>1 DEF Indexed
  <2>2. b \in Early => a \in Early
    BY <1>1 DEF Early
  <2>3. ASSUME strategy = "WeightedRoundRobin"
        PROVE  CountsDown(b, w, k)'
    <3>1. PICK n \in Nat, m \in Nat : 
            /\ n = Weights[currentIndex] /\ m = Balance!Turns(currentIndex)
            /\ m = (IF n = 0 THEN 1 ELSE n)
            /\ k \in 0..m /\ weight \in 0..n
      BY <1>3, <2>3, Numbers
    <3>2. k >= 1 /\ k + weight = n + 1
      BY <1>1, <1>3, <2>3, <3>1 DEF GoingOn, CountsDown
    <3>3. Balance!Turns(currentIndex)' = m /\ Weights[currentIndex]' = n
      BY <1>1, <3>1 DEF Balance!Turns
    <3>4. CASE weight > 0
      BY <1>1, <3>1, <3>2, <3>3, <3>4 DEF CountsDown
    <3>5. CASE ~(weight > 0)
      <4>1. weight = 0 /\ k + weight = m
        BY <3>1, <3>2, <3>5
      <4> QED BY <1>1, <3>1, <3>3, <3>5, <4>1 DEF CountsDown
    <3> QED BY <3>4, <3>5
  <2> QED BY <1>1, <1>3, <2>1, <2>2, <2>3, SameShares
<1> QED BY <1>2, <1>3 DEF Now

LEMMA ReadWeightTurn ==
  ASSUME Indexed, NEW t \in Tasks, NEW a, NEW v, NEW b, NEW w,
         a = at[t], v = inHand[t], b = at'[t], w = inHand'[t],
         Now(a, v), Balance!ReadWeight(t) \/ Balance!StoreWeight(t)
  PROVE  Now(b, w)'
<1>1. /\ UNCHANGED <<strategy, currentIndex, picked, begun>>
      /\ \/ a = "decrement" /\ b = "store" /\ weight' = weight /\ w \in {weight - 1, v - 1}
         \/ a = "store" /\ b = "zero" /\ weight' = v /\ w = v
  BY DEF Balance!ReadWeight, Balance!StoreWeight, Balance!Go, Balance!Have, Indexed
<1>2. ~Starting(a, v)
  BY <1>1 DEF Starting
<1>3. ASSUME NEW r \in Nat, NEW k \in Nat, GoingOn(a, v, r, k)
      PROVE  GoingOn(b, w, r, k)'
  <2>1. strategy # "RoundRobin"
    BY <1>1 DEF Indexed
  <2>2. b \in Early => a \in Early
    BY <1>1 DEF Early
  <2>3. ASSUME strategy = "WeightedRoundRobin"
        PROVE  CountsDown(b, w, k)'
    <3>1. PICK n \in Nat, m \in Nat :
            /\ n = Weights[currentIndex] /\ m = Balance!Turns(currentIndex)
            /\ m = (IF n = 0 THEN 1 ELSE n)
            /\ k \in 0..m /\ weight \in 0..n
      BY <1>3, <2>3, Numbers
    <3>2. /\ a = "decrement" => k >= 1 /\ k + weight = n + 1 /\ weight > 0 /\ v = weight
          /\ a = "store" => k >= 1 /\ k + weight = n + 1 /\ weight > 0 /\ v = weight - 1
      BY <1>3, <2>3, <3>1 DEF GoingOn, CountsDown
    <3>3. Balance!Turns(currentIndex)' = m /\ Weights[currentIndex]' = n
      BY <1>1, <3>1 DEF Balance!Turns
    <3>4. CASE a = "decrement"
      BY <1>1, <3>1, <3>2, <3>3, <3>4 DEF CountsDown
    <3>5. CASE a = "store"
      <4>1. v \in 0..n /\ k + v = m
        BY <3>1, <3>2, <3>5
      <4> QED BY <1>1, <3>1, <3>3, <3>5, <4>1 DEF CountsDown
    <3> QED BY <1>1, <3>4, <3>5
  <2> QED BY <1>1, <1>3, <2>1, <2>2, <2>3, SameShares
<1> QED BY <1>2, <1>3 DEF Now

LEMMA TestZeroTurn ==
  ASSUME Indexed, NEW t \in Tasks, NEW a, NEW v, NEW b, NEW w,
         a = at[t], v = inHand[t], b = at'[t], w = inHand'[t],
         Now(a, v), Balance!TestZero(t)
  PROVE  Now(b, w)'
<1>1. /\ a = "zero" /\ w = currentIndex
      /\ UNCHANGED <<strategy, currentIndex, weight, picked, begun>>
      /\ \E x \in {weight, v} : b = (IF x = 0 THEN "index" ELSE "select")
  BY DEF Balance!TestZero, Balance!Go, Balance!Have, Indexed
<1>2. CASE Starting(a, v)
  <2>1. b = "index"
    BY <1>1, <1>2 DEF Starting
  <2> QED BY <1>1, <1>2, <2>1 DEF Starting, Now
<1>3. ASSUME NEW r \in Nat, NEW k \in Nat, GoingOn(a, v, r, k)
      PROVE  GoingOn(b, w, r, k)'
  <2>1. strategy # "RoundRobin"
    BY <1>1 DEF Indexed
  <2>2. b \in Early => a \in Early
    BY <1>1 DEF Early
  <2>3. ASSUME strategy = "WeightedRoundRobin"
        PROVE  CountsDown(b, w, k)'
    <3>1. PICK n \in Nat, m \in Nat :
            /\ n = Weights[currentIndex] /\ m = Balance!Turns(currentIndex)
            /\ m = (IF n = 0 THEN 1 ELSE n)
            /\ k \in 0..m /\ weight \in 0..n
      BY <1>3, <2>3, Numbers
    <3>2. v = weight /\ k + weight = m
      BY <1>1, <1>3, <2>3, <3>1 DEF GoingOn, CountsDown
    <3>3. Balance!Turns(currentIndex)' = m /\ Weights[currentIndex]' = n
      BY <1>1, <3>1 DEF Balance!Turns
    <3>4. CASE weight = 0
      BY <1>1, <3>1, <3>2, <3>3, <3>4 DEF CountsDown
    <3>5. CASE weight # 0
      <4>1. k + weight = n /\ k < m /\ b = "select"
        BY <1>1, <3>1, <3>2, <3>5
      <4> QED BY <1>1, <3>1, <3>3, <4>1 DEF CountsDown
    <3> QED BY <3>4, <3>5
  <2> QED BY <1>1, <1>3, <2>1, <2>2, <2>3, SameShares
<1> QED BY <1>2, <1>3 DEF Now

LEMMA ReadIndexTurn ==
  ASSUME Indexed, NEW t \in Tasks, NEW a, NEW v, NEW b, NEW w,
         a = at[t], v = inHand[t], b = at'[t], w = inHand'[t],
         Now(a, v), Balance!ReadIndex(t)
  PROVE  Now(b, w)'
<1>1. /\ a = "index" /\ b = "advance" /\ w = (currentIndex + 1) % NumServices
      /\ UNCHANGED <<strategy, currentIndex, weight, picked, begun>>
  BY Services DEF Balance!ReadIndex, Balance!Go, Balance!Have, Indexed
<1>2. CASE Starting(a, v)
  <2>1. \A n \in Nat \ {0} : (-1 + 1) % n = 0
    OBVIOUS
  <2>2. w = 0
    BY <1>1, <1>2, <2>1, Services DEF Starting
  <2> QED BY <1>1, <1>2, <2>2 DEF Starting, Now
<1>3. ASSUME NEW r \in Nat, NEW k \in Nat, GoingOn(a, v, r, k)
      PROVE  GoingOn(b, w, r, k)'
  <2>1. strategy = "RoundRobin" => TakesTurns(b, w, k)'
    BY <1>1, <1>3 DEF GoingOn, TakesTurns
  <2>2. b \in Early => a \in Early
    BY <1>1 DEF Early
  <2>3. ASSUME strategy = "WeightedRoundRobin"
        PROVE  CountsDown(b, w, k)'
    <3>1. PICK n \in Nat, m \in Nat :
            /\ n = Weights[currentIndex] /\ m = Balance!Turns(currentIndex)
            /\ m = (IF n = 0 THEN 1 ELSE n)
            /\ k \in 0..m /\ weight \in 0..n
      BY <1>3, <2>3, Numbers
    <3>2. k = m /\ weight = 0
      BY <1>1, <1>3, <2>3, <3>1 DEF GoingOn, CountsDown
    <3>3. Balance!Turns(currentIndex)' = m /\ Weights[currentIndex]' = n
      BY <1>1, <3>1 DEF Balance!Turns
    <3> QED BY <1>1, <3>1, <3>2, <3>3 DEF CountsDown
  <2> QED BY <1>1, <1>3, <2>1, <2>2, <2>3, SameShares
<1> QED BY <1>2, <1>3 DEF Now

LEMMA ReloadTurn ==
  ASSUME Indexed, NEW t \in Tasks, NEW a, NEW v, NEW b, NEW w,
         a = at[t], v = inHand[t], b = at'[t], w = inHand'[t],
         Now(a, v), Balance!Reload(t)
  PROVE  Now(b, w)'
<1>1. /\ a = "reload" /\ b = "select"
      /\ UNCHANGED <<strategy, currentIndex, picked, begun>>
      /\ \E x \in {currentIndex, v} : weight' = Weights[x] /\ w = x
  BY DEF Balance!Reload, Balance!Go, Balance!Have, Indexed
<1>2. ~Starting(a, v)
  BY <1>1 DEF Starting
<1>3. ASSUME NEW r \in Nat, NEW k \in Nat, GoingOn(a, v, r, k)
      PROVE  GoingOn(b, w, r, k)'
  <2>1. strategy # "RoundRobin"
    BY <1>1 DEF Indexed
  <2>2. b \in Early => a \in Early
    BY <1>1 DEF Early
  <2>3. ASSUME strategy = "WeightedRoundRobin"
        PROVE  CountsDown(b, w, k)'
    <3>1. PICK n \in Nat, m \in Nat :
            /\ n = Weights[currentIndex] /\ m = Balance!Turns(currentIndex)
            /\ m = (IF n = 0 THEN 1 ELSE n)
            /\ k \in 0..m /\ weight \in 0..n
      BY <1>3, <2>3, Numbers
    <3>2. k = 0 /\ v = currentIndex
      BY <1>1, <1>3, <2>3, <3>1 DEF GoingOn, CountsDown
    <3>3. Balance!Turns(currentIndex)' = m /\ Weights[currentIndex]' = n
      BY <1>1, <3>1 DEF Balance!Turns
    <3>4. weight' = n /\ w = currentIndex /\ k + n = n /\ k < m
      BY <1>1, <3>1, <3>2
    <3> QED BY <1>1, <3>1, <3>3, <3>4 DEF CountsDown
  <2> QED BY <1>1, <1>3, <2>1, <2>2, <2>3, SameShares
<1> QED BY <1>2, <1>3 DEF Now

\* The position moves on, to the next service or around to the first.
LEMMA AdvanceTurn ==
  ASSUME Indexed, NEW t \in Tasks, NEW a, NEW v, NEW b, NEW w,
         a = at[t], v = inHand[t], b = at'[t], w = inHand'[t],
         Now(a, v), Balance!Advance(t)
  PROVE  Now(b, w)'
<1>1. /\ a = "advance" /\ b = (IF strategy = "RoundRobin" THEN "select" ELSE "reload")
      /\ currentIndex' = v /\ w = v
      /\ UNCHANGED <<strategy, weight, picked, begun>>
  BY DEF Balance!Advance, Balance!Go, Balance!Have, Indexed
<1>2. b \notin Early
  BY <1>1 DEF Early
<1>3. ASSUME NEW d \in Balance!Servers, d = v, NEW r \in 0..MaxPicks, r < begun, Shares(r, d, 0),
             weight = 0 \/ strategy = "RoundRobin"
      PROVE  Now(b, w)'
  <2>1. PICK n \in Nat, m \in Nat : n = Weights[d] /\ m = Balance!Turns(d)
    BY Services, TurnsAre
  <2>2. Balance!Turns(currentIndex)' = m /\ Weights[currentIndex]' = n /\ 0 \in 0..m
    BY <1>1, <1>3, <2>1 DEF Balance!Turns
  <2>3. Shares(r, d, 0)'
    BY <1>1, <1>3, SharesStay
  <2>4. strategy = "RoundRobin" => TakesTurns(b, w, 0)'
    BY <1>1 DEF TakesTurns
  <2>5. strategy = "WeightedRoundRobin" => CountsDown(b, w, 0)'
    BY <1>1, <1>3, <2>1, <2>2 DEF CountsDown
  <2>6. GoingOn(b, w, r, 0)'
    BY <1>1, <1>2, <1>3, <2>2, <2>3, <2>4, <2>5 DEF GoingOn
  <2>7. r \in Nat /\ 0 \in Nat
    BY ProgramsAssumption
  <2> QED BY <2>6, <2>7 DEF Now
<1>4. CASE Starting(a, v)
  <2>1. v = 0 /\ weight = 0 /\ begun >= 1 /\ Shares(0, 0, 0) /\ 0 \in Balance!Servers
    BY <1>1, <1>4, NoTurns DEF Starting
  <2>2. 0 \in 0..MaxPicks /\ 0 < begun
    BY <2>1, ProgramsAssumption DEF Indexed
  <2> QED BY <1>3, <2>1, <2>2
<1>5. ASSUME NEW r \in Nat, NEW k \in Nat, GoingOn(a, v, r, k)
      PROVE  Now(b, w)'
  <2>0. strategy # "Random"
    BY <1>1 DEF Indexed
  <2> DEFINE c == currentIndex
  <2>1. c \in Balance!Servers /\ Shares(r, c, k) /\ r + 1 < begun /\ r \in 0..MaxPicks
    BY <1>1, <1>5 DEF GoingOn, Early
  <2>2. v = (c + 1) % NumServices /\ k = Balance!Turns(c)
        /\ (weight = 0 \/ strategy = "RoundRobin")
    BY <1>1, <1>5, <2>0, <2>1, TurnsAre DEF GoingOn, TakesTurns, CountsDown, Indexed, Balance!Strategies
  <2>3. v \in Balance!Servers /\ v = IF c = NumServices - 1 THEN 0 ELSE c + 1
    BY <2>1, <2>2, PositionAfter
  <2>4. Shares(r, c, Balance!Turns(c))
    BY <2>1, <2>2
  <2>5. r + 1 \in 0..MaxPicks /\ r < begun
    BY <2>1, ProgramsAssumption DEF Indexed
  <2>6. CASE c = NumServices - 1
    BY <1>3, <2>1, <2>2, <2>3, <2>4, <2>5, <2>6, NextTurn
  <2>7. CASE c # NumServices - 1
    BY <1>3, <2>1, <2>2, <2>3, <2>4, <2>5, <2>7, NextTurn
  <2> QED BY <2>6, <2>7
<1> QED BY <1>4, <1>5 DEF Now

LEMMA SelectTurn ==
  ASSUME Indexed, NEW t \in Tasks, NEW a, NEW v, NEW b, NEW w,
         a = at[t], v = inHand[t], b = at'[t], w = inHand'[t],
         Now(a, v), Balance!Select(t), strategy # "Random"
  PROVE  Now(b, w)'
<1>1. /\ a = "select" /\ b = "idle"
      /\ UNCHANGED <<strategy, currentIndex, weight, begun>>
      /\ \E x \in {currentIndex, v} : Balance!Return(x)
  BY DEF Balance!Select, Balance!Go, Indexed
<1>2. ~Starting(a, v)
  BY <1>1 DEF Starting
<1>3. ASSUME NEW r \in Nat, NEW k \in Nat, GoingOn(a, v, r, k)
      PROVE  GoingOn(b, w, r, k + 1)'
  <2>1. /\ currentIndex \in Balance!Servers /\ r \in 0..MaxPicks /\ r < begun
        /\ k \in 0..Balance!Turns(currentIndex) /\ Shares(r, currentIndex, k)
    BY <1>3 DEF GoingOn
  <2>2. v = currentIndex
    BY <1>1, <1>3 DEF GoingOn, TakesTurns, CountsDown, Indexed, Balance!Strategies
  <2>3. Shares(r, currentIndex, k + 1)'
    <3>1. PICK c \in Balance!Servers : c = currentIndex
      BY <2>1
    <3>2. Balance!Return(c) /\ Shares(r, c, k)
      BY <1>1, <2>1, <2>2, <3>1
    <3>3. Shares(r, c, k + 1)'
      BY <1>1, <3>2, TurnTaken
    <3> QED BY <1>1, <3>1, <3>3
  <2>4. PICK m \in Nat : m = Balance!Turns(currentIndex) /\ Balance!Turns(currentIndex)' = m
    BY <1>1, <2>1, TurnsAre DEF Balance!Turns
  <2>5. CASE strategy = "RoundRobin"
    <3>1. k = 0 /\ m = 1
      BY <1>1, <1>3, <2>1, <2>4, <2>5, TurnsAre DEF GoingOn, TakesTurns
    <3>2. TakesTurns(b, w, k + 1)'
      BY <1>1, <3>1 DEF TakesTurns
    <3>3. k + 1 \in 0..m
      BY <3>1
    <3> QED BY <1>1, <2>1, <2>3, <2>4, <2>5, <3>2, <3>3 DEF GoingOn, Early
  <2>6. CASE strategy = "WeightedRoundRobin"
    <3>1. PICK n \in Nat : n = Weights[currentIndex] /\ weight \in 0..n
      BY <1>3, <2>6, Numbers
    <3>2. k + weight = n /\ k < m
      BY <1>1, <1>3, <2>4, <2>6, <3>1 DEF GoingOn, CountsDown
    <3>3. k + 1 \in 0..m /\ k + 1 >= 1 /\ (k + 1) + weight = n + 1
      BY <3>1, <3>2
    <3>4. CountsDown(b, w, k + 1)'
      BY <1>1, <3>1, <3>3 DEF CountsDown
    <3> QED BY <1>1, <2>1, <2>3, <2>4, <2>6, <3>3, <3>4 DEF GoingOn, Early
  <2> QED BY <2>5, <2>6 DEF Indexed, Balance!Strategies
<1> QED BY <1>2, <1>3 DEF Now

LEMMA RequestTurn ==
  ASSUME Indexed, NEW t \in Tasks, NEW v, NEW b, NEW w, b = at'[t], w = inHand'[t],
         Now("idle", v), Balance!RequestServer(t), strategy # "Random"
  PROVE  Now(b, w)'
<1>1. /\ b = (IF strategy = "RoundRobin" THEN "index" ELSE "positive")
      /\ begun' = begun + 1 /\ begun < MaxPicks
      /\ UNCHANGED <<strategy, currentIndex, weight, picked>>
  BY DEF Balance!RequestServer, Balance!Go, Indexed, Balance!Strategies
<1>2. begun \in Nat
  BY DEF Indexed
<1>3. CASE Starting("idle", v)
  BY <1>1, <1>2, <1>3 DEF Starting, Now
<1>4. ASSUME NEW r \in Nat, NEW k \in Nat, GoingOn("idle", v, r, k)
      PROVE  GoingOn(b, w, r, k)'
  <2>1. /\ currentIndex \in Balance!Servers /\ r \in 0..MaxPicks /\ r < begun
        /\ k \in 0..Balance!Turns(currentIndex) /\ Shares(r, currentIndex, k)
        /\ strategy = "RoundRobin" => TakesTurns("idle", v, k)
        /\ strategy = "WeightedRoundRobin" => CountsDown("idle", v, k)
    BY <1>4 DEF GoingOn
  <2>2. r < begun' /\ r + 1 < begun'
    BY <1>1, <1>2, <2>1
  <2>3. Balance!Turns(currentIndex)' = Balance!Turns(currentIndex)
    BY <1>1 DEF Balance!Turns
  <2>4. Shares(r, currentIndex, k)'
    BY <1>1, <2>1, SharesStay
  <2>5. strategy = "RoundRobin" => TakesTurns(b, w, k)'
    BY <1>1, <2>1 DEF TakesTurns
  <2>6. strategy = "WeightedRoundRobin" => CountsDown(b, w, k)'
    BY <1>1, <2>1 DEF CountsDown
  <2> QED BY <1>1, <2>1, <2>2, <2>3, <2>4, <2>5, <2>6 DEF GoingOn
<1> QED BY <1>3, <1>4 DEF Now

\* A step of the only task that is busy.
LEMMA SharedStep ==
  ASSUME Indexed, Shared, Balance!Next
  PROVE  Shared'
<1> SUFFICES ASSUME ~overlapped', strategy' # "Random"
             PROVE  /\ \A t, u \in Tasks : at'[t] # "idle" /\ at'[u] # "idle" => t = u
                    /\ (\A t \in Tasks : at'[t] = "idle") => Now("idle", 0)'
                    /\ \A t \in Tasks : at'[t] # "idle" =>
                         \A b, w : b = at'[t] /\ w = inHand'[t] => Now(b, w)'
  BY DEF Shared, Now, Starting, GoingOn, TakesTurns, CountsDown
<1>1. PICK t \in Tasks :
        \/ Balance!RequestServer(t) \/ Balance!Random(t) \/ Balance!TestPositive(t)
        \/ Balance!ReadWeight(t) \/ Balance!StoreWeight(t) \/ Balance!TestZero(t)
        \/ Balance!ReadIndex(t) \/ Balance!Advance(t) \/ Balance!Reload(t) \/ Balance!Select(t)
  BY DEF Balance!Next
<1>2. strategy' = strategy /\ strategy # "Random" /\ ~overlapped
  <2>1. CASE Balance!RequestServer(t)
    <3>1. strategy' = strategy /\ overlapped' = (overlapped \/ Balance!Idle # Tasks)
      BY <2>1 DEF Balance!RequestServer
    <3>2. ~overlapped
      BY <3>1, Zenon
    <3> QED BY <3>1, <3>2
  <2>2. CASE ~Balance!RequestServer(t)
    BY <1>1, <2>2
       DEF Balance!Random, Balance!TestPositive, Balance!ReadWeight, Balance!StoreWeight,
           Balance!TestZero, Balance!ReadIndex, Balance!Advance, Balance!Reload, Balance!Select
  <2> QED BY <2>1, <2>2
<1>3. /\ \A u, x \in Tasks : at[u] # "idle" /\ at[x] # "idle" => u = x
      /\ (\A u \in Tasks : at[u] = "idle") => Now("idle", 0)
      /\ at[t] # "idle" => Now(at[t], inHand[t])
  BY <1>2 DEF Shared
<1>4. \A u \in Tasks : u # t => at'[u] = "idle"
  <2>1. CASE Balance!RequestServer(t)
    BY <2>1 DEF Balance!RequestServer, Balance!Go, Balance!Idle, Indexed
  <2>2. CASE ~Balance!RequestServer(t)
    BY <1>1, <1>3, <2>2
       DEF Balance!Random, Balance!TestPositive, Balance!ReadWeight,
           Balance!StoreWeight, Balance!TestZero, Balance!ReadIndex, Balance!Advance,
           Balance!Reload, Balance!Select, Balance!Go, Indexed
  <2> QED BY <2>1, <2>2
<1>5. \A b, w : b = at'[t] /\ w = inHand'[t] => Now(b, w)'
  <2> SUFFICES ASSUME NEW b, NEW w, b = at'[t], w = inHand'[t]
               PROVE  Now(b, w)'
    OBVIOUS
  <2>1. CASE Balance!RequestServer(t)
    <3>1. \A u \in Tasks : at[u] = "idle"
      BY <2>1 DEF Balance!RequestServer, Balance!Idle
    <3> QED BY <1>2, <1>3, <2>1, <3>1, RequestTurn
  <2>2. ASSUME ~Balance!RequestServer(t)
        PROVE  at[t] # "idle" /\ at[t] # "random"
    BY <1>1, <1>2, <2>2
       DEF Balance!Random, Balance!TestPositive, Balance!ReadWeight,
           Balance!StoreWeight, Balance!TestZero, Balance!ReadIndex, Balance!Advance,
           Balance!Reload, Balance!Select, Balance!Go, Indexed
  <2>3. CASE ~Balance!RequestServer(t)
    <3>1. ~Balance!Random(t)
      BY <2>2, <2>3 DEF Balance!Random, Balance!Go
    <3>2. PICK a, v : a = at[t] /\ v = inHand[t]
      OBVIOUS
    <3>3. Now(a, v)
      BY <1>3, <2>2, <2>3, <3>2
    <3> QED BY <1>1, <1>2, <2>3, <3>1, <3>2, <3>3, TestPositiveTurn, ReadWeightTurn, TestZeroTurn,
               ReadIndexTurn, AdvanceTurn, ReloadTurn, SelectTurn
  <2> QED BY <2>1, <2>3
<1>6. ASSUME \A u \in Tasks : at'[u] = "idle"
      PROVE  Now("idle", 0)'
  <2>1. PICK w : w = inHand'[t]
    OBVIOUS
  <2>2. Now("idle", w)'
    BY <1>5, <1>6, <2>1
  <2> QED BY <2>2 DEF Now, Starting, GoingOn, TakesTurns, CountsDown
<1> QED BY <1>4, <1>5, <1>6

\* The load balancer of src/protocol-server selects a service of its list, however the
\* selections of its threads interleave; and every service has its whole turn in every
\* round as long as they do not (selectServer of both round-robin strategies).
THEOREM EveryServiceHasItsShare == Spec => []SharesAreKept
<1> DEFINE BalanceI == program = "load_balancer" => BalanceInv
<1>1. Init => BalanceI
  <2> SUFFICES ASSUME Balance!Init
               PROVE  BalanceInv
    BY DEF Init
  <2>1. Indexed
    <3>1. /\ strategy \in Balance!Strategies /\ currentIndex = -1 /\ weight = 0
          /\ at \in [Tasks -> Stages] /\ \A t \in Tasks : at[t] = "idle"
          /\ inHand \in [Tasks -> Int] /\ picked = <<>> /\ begun = 0 /\ overlapped = FALSE
      BY DEF Balance!Init, Stages
    <3>2. DOMAIN picked = {} /\ 0 \in 0..MaxPicks
      BY <3>1, ProgramsAssumption
    <3>3. /\ currentIndex \in Balance!Servers \cup {-1} /\ weight \in Int
          /\ DOMAIN picked \subseteq Balance!Servers /\ begun \in 0..MaxPicks
          /\ \A i \in DOMAIN picked : picked[i] \in Nat
      BY <3>1, <3>2
    <3>4. \A t \in Tasks : at[t] \notin HasIndex \cup IsSet \cup {"zero", "random"}
      BY <3>1 DEF HasIndex, IsSet
    <3>5. overlapped \in BOOLEAN
      BY <3>1
    <3> QED BY <3>1, <3>3, <3>4, <3>5 DEF Indexed
  <2>2. Starting("idle", 0)
    BY DEF Balance!Init, Starting
  <2> QED BY <2>1, <2>2 DEF Balance!Init, BalanceInv, Shared, Now
<1>2. BalanceI /\ [Next]_vars => BalanceI'
  <2> SUFFICES ASSUME BalanceI, [Next]_vars, program' = "load_balancer"
               PROVE  BalanceInv'
    OBVIOUS
  <2>1. program = "load_balancer" /\ BalanceInv /\ (Balance!Next \/ UNCHANGED balancerVars)
    BY StepIsOwn
  <2>2. CASE UNCHANGED balancerVars
    <3>1. Indexed'
      BY <2>1, <2>2 DEF balancerVars, BalanceInv, Indexed
    <3>2. Shared'
      <4>1. \A i : Balance!Times(i)' = Balance!Times(i) /\ Balance!Turns(i)' = Balance!Turns(i)
        BY <2>2 DEF balancerVars, Balance!Times, Balance!Turns
      <4> QED BY <2>1, <2>2, <4>1
              DEF balancerVars, BalanceInv, Shared, Now, Starting, GoingOn, TakesTurns, CountsDown,
                  Shares
    <3> QED BY <3>1, <3>2 DEF BalanceInv
  <2> QED BY <2>1, <2>2, IndexedStep, SharedStep DEF BalanceInv
<1>3. BalanceI => SharesAreKept
  <2> SUFFICES ASSUME BalanceInv
               PROVE  Balance!SharesAreKept
    BY DEF SharesAreKept
  <2>1. DOMAIN picked \subseteq Balance!Servers
    BY DEF BalanceInv, Indexed
  <2>2. ASSUME ~overlapped, strategy # "Random"
        PROVE  \E r \in 0..MaxPicks, c \in Balance!Servers, k \in Nat :
                 k \in 0..Balance!Turns(c) /\ Shares(r, c, k)
    <3>1. \E a, v : Now(a, v)
      BY <2>2 DEF BalanceInv, Shared
    <3>2. PICK a, v : Now(a, v)
      BY <3>1
    <3>3. CASE Starting(a, v)
      <4>1. 0 \in Balance!Servers /\ Shares(0, 0, 0)
        BY <3>3, NoTurns DEF Starting
      <4>2. 0 \in 0..MaxPicks /\ 0 \in 0..Balance!Turns(0)
        BY <4>1, TurnsAre, ProgramsAssumption
      <4> QED BY <4>1, <4>2
    <3>4. CASE \E r, k \in Nat : GoingOn(a, v, r, k)
      BY <3>4 DEF GoingOn
    <3> QED BY <3>2, <3>3, <3>4 DEF Now
  <2>3. ASSUME ~overlapped, strategy # "Random"
        PROVE  \E rounds \in 0..MaxPicks, p \in Balance!Servers : \A i \in Balance!Servers :
                 Balance!Times(i) \in
                   CASE i < p -> {(rounds + 1) * Balance!Turns(i)}
                     [] i > p -> {rounds * Balance!Turns(i)}
                     [] i = p -> (rounds * Balance!Turns(i))..((rounds + 1) * Balance!Turns(i))
    <3>1. PICK r \in 0..MaxPicks, c \in Balance!Servers, k \in Nat :
            k \in 0..Balance!Turns(c) /\ Shares(r, c, k)
      BY <2>2, <2>3
    <3>2. r \in Nat
      BY ProgramsAssumption
    <3> QED BY <3>1, <3>2, SharesAre
  <2> QED BY <2>1, <2>3 DEF Balance!SharesAreKept
<1> QED BY <1>1, <1>2, <1>3, PTL DEF Spec

----------------------------------------------------------------------------
(***************************************************************************)
(* The socket wrapper                                                      *)
(***************************************************************************)

RefTypes ==
  /\ object \in [Objects -> {"none", "Socket", "CClientSocket", "~Socket"}]
  /\ s_ \in [Objects -> Ref!Descriptors \cup {Ref!INVALID_SOCKET}]
  /\ refCounter \in [Objects -> 0..MaxCounters]
  /\ count \in [1..MaxCounters -> Nat]
  /\ nofSockets \in Nat
  /\ opened \in [Ref!Descriptors -> 0..MaxCounters]
  /\ shut \subseteq Ref!Live
  /\ careful \in BOOLEAN
  /\ \A o \in Objects : refCounter[o] = 0 <=> object[o] = "none"

\* A counter is as high as its holders are many, and so is the number of sockets.
CountsHolders(c) == count[c] >= Cardinality(Ref!Holders(c))
AllCounted == /\ \A c \in 1..MaxCounters : CountsHolders(c)
              /\ nofSockets >= Cardinality(Ref!Live)

\* An object that is not shut has its own descriptor, and nobody has that of one that is:
\* closing it again closes no stranger's.
Own(o) == s_[o] \in Ref!Descriptors =>
            opened[s_[o]] = IF o \in shut THEN 0 ELSE refCounter[o]
AllOwn == careful => \A o \in Ref!Live : Own(o)

RefInv == RefTypes /\ AllCounted /\ AllOwn

\* The smallest and the largest of some numbers are among them.
LEMMA RefLowest ==
  ASSUME NEW of, Ref!Free(of) # {}
  PROVE  Ref!Lowest(of) \in Ref!Free(of)
<1>1. Ref!Free(of) \subseteq Nat
  BY ProgramsAssumption DEF Ref!Free, Ref!Descriptors
<1>2. IsWellFoundedOn(OpToRel(<, Nat), Nat)
  BY NatLessThanWellFounded, Zenon
<1>3. PICK x \in Ref!Free(of) : \A y \in Ref!Free(of) : ~ (<<y, x>> \in OpToRel(<, Nat))
  BY <1>1, <1>2, WFMin, Zenon
<1>4. \A y \in Ref!Free(of) : ~ (y < x)
  BY <1>1, <1>3 DEF OpToRel
<1>5. \A y \in Ref!Free(of) : x <= y
  BY <1>1, <1>4
<1> QED BY <1>5 DEF Ref!Lowest, Ref!Min

LEMMA MaxIsLargest ==
  ASSUME NEW n \in Nat, NEW S \in SUBSET (0..n), S # {}
  PROVE  Ref!Max(S) \in S /\ \A y \in S : y <= Ref!Max(S)
<1> DEFINE Above == {k \in Nat : \A y \in S : y <= k}
<1>1. n \in Above
  OBVIOUS
<1>2. IsWellFoundedOn(OpToRel(<, Nat), Nat)
  BY NatLessThanWellFounded, Zenon
<1>3. PICK m \in Above : \A k \in Above : ~ (<<k, m>> \in OpToRel(<, Nat))
  <2>1. Above \subseteq Nat
    OBVIOUS
  <2> HIDE DEF Above
  <2> QED BY <1>1, <1>2, <2>1, WFMin, Zenon
<1>4. \A k \in Above : ~ (k < m)
  BY <1>3 DEF OpToRel
<1>5. m \in S
  <2> SUFFICES ASSUME m \notin S PROVE FALSE
    OBVIOUS
  <2>1. m - 1 \in Above
    <3>1. PICK y \in S : TRUE
      OBVIOUS
    <3>2. \A z \in S : z <= m - 1
      OBVIOUS
    <3> QED BY <3>1, <3>2
  <2> QED BY <1>4, <2>1
<1>6. \E x \in S : \A y \in S : x >= y
  BY <1>5
<1>7. Ref!Max(S) \in S /\ \A y \in S : Ref!Max(S) >= y
  BY <1>6, Zenon DEF Ref!Max
<1> QED BY <1>7

\* A new counter is nobody's.
LEMMA NewCounterIsNew ==
  ASSUME RefTypes, Ref!NewCounter <= MaxCounters
  PROVE  /\ Ref!NewCounter \in 1..MaxCounters
         /\ \A o \in Objects : refCounter[o] # Ref!NewCounter
<1> DEFINE S == Ref!Created \cup {0}
<1>1. S \in SUBSET (0..MaxCounters) /\ 0 \in S
  BY ProgramsAssumption DEF Ref!Created, RefTypes
<1>2. \A o \in Objects : refCounter[o] \in S
  BY DEF Ref!Created
<1>3. Ref!NewCounter = Ref!Max(S) + 1
  BY DEF Ref!NewCounter
<1> HIDE DEF S
<1>4. Ref!Max(S) \in S /\ \A y \in S : y <= Ref!Max(S)
  BY <1>1, MaxIsLargest, ProgramsAssumption
<1>5. PICK m \in S : m = Ref!Max(S) /\ \A y \in S : y <= m
  BY <1>4
<1>6. m \in Nat /\ S \subseteq Nat
  BY <1>1, ProgramsAssumption
<1>7. Ref!NewCounter = m + 1 /\ m + 1 \notin S /\ m + 1 >= 1
  BY <1>3, <1>5, <1>6
<1> QED BY <1>2, <1>6, <1>7, ProgramsAssumption

LEMMA SomeObjects ==
  ASSUME NEW S \in SUBSET Objects, NEW x
  PROVE  /\ Cardinality(S) \in Nat
         /\ Cardinality(S \cup {x}) <= Cardinality(S) + 1
         /\ x \in S => Cardinality(S) >= 1 /\ Cardinality(S \ {x}) = Cardinality(S) - 1
         /\ x \in S /\ Cardinality(S) = 1 => S = {x}
<1>1. IsFiniteSet(S)
  BY ProgramsAssumption, FS_Subset
<1>2. Cardinality(S) \in Nat /\ Cardinality(S \ {x}) \in Nat /\ IsFiniteSet(S \ {x})
  BY <1>1, FS_CardinalityType, FS_Subset
<1>3. Cardinality(S \cup {x}) = IF x \in S THEN Cardinality(S) ELSE Cardinality(S) + 1
  BY <1>1, FS_AddElement
<1>4. Cardinality(S \ {x}) = IF x \in S THEN Cardinality(S) - 1 ELSE Cardinality(S)
  BY <1>1, FS_RemoveElement
<1>5. Cardinality(S \ {x}) = 0 => S \ {x} = {}
  BY <1>2, FS_EmptySet
<1> QED BY <1>2, <1>3, <1>4, <1>5

LEMMA RefTypesStep ==
  ASSUME RefInv, Ref!Next
  PROVE  RefTypes'
<1>1. RefTypes /\ AllCounted /\ MaxCounters \in Nat /\ \A o \in Ref!Live : o \in Objects
  BY ProgramsAssumption DEF RefInv, Ref!Live
<1> USE DEF RefTypes, Ref!Live, Ref!INVALID_SOCKET
<1>2. \A o \in Objects : Ref!Closed(o) \in [Ref!Descriptors -> 0..MaxCounters]
  BY <1>1 DEF Ref!Closed, Ref!CloseSocket
<1>3. ASSUME NEW o \in Objects, NEW class \in {"Socket", "CClientSocket"},
             Ref!Construct(o, class)
      PROVE  RefTypes'
  <2>1. Ref!NewCounter \in 1..MaxCounters
    BY <1>1, <1>3, NewCounterIsNew DEF Ref!Construct
  <2>2. Ref!Lowest(opened) \in Ref!Descriptors
    BY <1>3, RefLowest DEF Ref!Construct, Ref!Free
  <2> QED BY <1>1, <1>3, <2>1, <2>2 DEF Ref!Construct
<1>4. ASSUME NEW o \in Objects, NEW p \in Objects, Ref!Copy(o, p) \/ Ref!Assign(o, p)
      PROVE  RefTypes'
  <2>1. refCounter[o] \in 1..MaxCounters /\ (Ref!Assign(o, p) => p \in Ref!Live)
    <3>1. object[o] # "none" /\ (Ref!Assign(o, p) => object[p] # "none")
      BY <1>4 DEF Ref!Copy, Ref!Assign
    <3> QED BY <1>1, <3>1
  <2>2. CASE Ref!Copy(o, p)
    BY <1>1, <2>1, <2>2 DEF Ref!Copy
  <2>3. CASE Ref!Assign(o, p)
    <3>1. /\ shut' \subseteq shut \cup {p} /\ UNCHANGED <<object, opened>> /\ careful' = FALSE
          /\ count' = [count EXCEPT ![refCounter[o]] = @ + 1]
          /\ refCounter' = [refCounter EXCEPT ![p] = refCounter[o]]
          /\ s_' = [s_ EXCEPT ![p] = s_[o]] /\ nofSockets' = nofSockets + 1
      BY <2>3 DEF Ref!Assign
    <3>2. Ref!Live' = Ref!Live /\ shut' \subseteq Ref!Live /\ object[p] # "none"
      BY <1>1, <2>1, <2>3, <3>1
    <3>3. count' \in [1..MaxCounters -> Nat] /\ nofSockets' \in Nat
      BY <1>1, <2>1, <3>1
    <3>4. /\ s_' \in [Objects -> Ref!Descriptors \cup {-1}]
          /\ refCounter' \in [Objects -> 0..MaxCounters]
          /\ \A q \in Objects : refCounter'[q] = 0 <=> object[q] = "none"
      BY <1>1, <2>1, <3>1, <3>2
    <3> QED BY <1>1, <3>1, <3>2, <3>3, <3>4
  <2> QED BY <1>4, <2>2, <2>3
<1>5. ASSUME NEW o \in Objects, Ref!Close(o) \/ Ref!DestroyClient(o)
      PROVE  RefTypes'
  BY <1>1, <1>2, <1>5 DEF Ref!Close, Ref!DestroyClient
<1>6. ASSUME NEW o \in Objects, Ref!Reconnect(o)
      PROVE  RefTypes'
  <2>1. PICK d : /\ d = Ref!Lowest(Ref!Closed(o))
                 /\ s_' = [s_ EXCEPT ![o] = d]
                 /\ opened' = IF d \in Ref!Descriptors
                                THEN [Ref!Closed(o) EXCEPT ![d] = refCounter[o]]
                                ELSE Ref!Closed(o)
    BY <1>6 DEF Ref!Reconnect
  <2>2. d \in Ref!Descriptors \cup {-1}
    BY <2>1, RefLowest DEF Ref!Lowest, Ref!Free
  <2> QED BY <1>1, <1>2, <1>6, <2>1, <2>2 DEF Ref!Reconnect
<1>7. ASSUME NEW o \in Objects, Ref!Destroy(o)
      PROVE  RefTypes'
  <2>1. /\ o \in Ref!Live /\ o \in Ref!Holders(refCounter[o])
        /\ Ref!Live \in SUBSET Objects /\ Ref!Holders(refCounter[o]) \in SUBSET Objects
        /\ refCounter[o] \in 1..MaxCounters
    BY <1>1, <1>7 DEF Ref!Destroy, Ref!Holders
  <2>2. count[refCounter[o]] - 1 \in Nat /\ nofSockets - 1 \in Nat
    <3>1. /\ Cardinality(Ref!Live) >= 1 /\ Cardinality(Ref!Live) \in Nat
          /\ Cardinality(Ref!Holders(refCounter[o])) >= 1
          /\ Cardinality(Ref!Holders(refCounter[o])) \in Nat
      BY <2>1, SomeObjects
    <3>2. /\ count[refCounter[o]] >= Cardinality(Ref!Holders(refCounter[o]))
          /\ nofSockets >= Cardinality(Ref!Live)
          /\ count[refCounter[o]] \in Nat /\ nofSockets \in Nat
      BY <1>1, <2>1 DEF AllCounted, CountsHolders
    <3> QED BY <3>1, <3>2
  <2> QED BY <1>1, <1>2, <1>7, <2>1, <2>2 DEF Ref!Destroy
<1>8. CASE Ref!ConstructThrows
  BY <1>1, <1>8 DEF Ref!ConstructThrows
<1> QED BY <1>3, <1>4, <1>5, <1>6, <1>7, <1>8 DEF Ref!Next

\* Construct() has a counter to itself, copies are counted up, and destructors down.
LEMMA CountedStep ==
  ASSUME RefInv, Ref!Next
  PROVE  AllCounted'
<1>1. /\ RefTypes /\ AllCounted /\ RefTypes' /\ MaxCounters \in Nat
      /\ Ref!Live \in SUBSET Objects /\ \A c \in 1..MaxCounters : Ref!Holders(c) \in SUBSET Objects
      /\ Ref!Live' \in SUBSET Objects /\ \A c \in 1..MaxCounters : Ref!Holders(c)' \in SUBSET Objects
  BY ProgramsAssumption, RefTypesStep DEF RefInv, Ref!Live, Ref!Holders
<1> USE DEF AllCounted, CountsHolders
<1>2. ASSUME NEW o \in Objects, NEW class \in {"Socket", "CClientSocket"},
             Ref!Construct(o, class)
      PROVE  AllCounted'
  <2>1. /\ Ref!NewCounter \in 1..MaxCounters
        /\ \A p \in Objects : refCounter[p] # Ref!NewCounter
    BY <1>1, <1>2, NewCounterIsNew DEF Ref!Construct
  <2> DEFINE new == Ref!NewCounter
  <2>2. /\ refCounter' = [refCounter EXCEPT ![o] = new] /\ count' = [count EXCEPT ![new] = 1]
        /\ object' = [object EXCEPT ![o] = class] /\ object[o] = "none"
        /\ nofSockets' = nofSockets + 1
    BY <1>2 DEF Ref!Construct
  <2> HIDE DEF new
  <2>3. new \in 1..MaxCounters /\ \A p \in Objects : refCounter[p] # new
    BY <2>1 DEF new
  <2>4. /\ Ref!Live' = Ref!Live \cup {o}
        /\ \A c \in 1..MaxCounters :
             Ref!Holders(c)' = IF c = new THEN {} \cup {o} ELSE Ref!Holders(c)
    <3>1. Ref!Live' = Ref!Live \cup {o} /\ o \notin Ref!Live
      BY <1>1, <2>2 DEF RefTypes, Ref!Live
    <3>2. \A p \in Objects : refCounter'[p] = IF p = o THEN new ELSE refCounter[p]
      BY <1>1, <2>2 DEF RefTypes
    <3>3. ASSUME NEW c \in 1..MaxCounters
          PROVE  Ref!Holders(c)' = IF c = new THEN {} \cup {o} ELSE Ref!Holders(c)
      <4>1. Ref!Holders(c)' = {p \in Ref!Live \cup {o} : refCounter'[p] = c}
        BY <3>1 DEF Ref!Holders
      <4>2. \A p \in Ref!Live : p \in Objects /\ p # o /\ refCounter'[p] = refCounter[p]
        BY <1>1, <3>1, <3>2
      <4>3. refCounter'[o] = new
        BY <3>2
      <4> QED BY <2>3, <4>1, <4>2, <4>3 DEF Ref!Holders
    <3> QED BY <3>1, <3>3
  <2>5. Cardinality({}) = 0 /\ Cardinality({} \cup {o}) <= Cardinality({}) + 1
    BY FS_EmptySet, SomeObjects
  <2>6. Cardinality(Ref!Live') <= Cardinality(Ref!Live) + 1
    BY <1>1, <2>4, SomeObjects
  <2>7. /\ Cardinality(Ref!Live) \in Nat /\ Cardinality(Ref!Live') \in Nat
        /\ Cardinality({} \cup {o}) \in Nat
    <3>1. {} \cup {o} \in SUBSET Objects
      OBVIOUS
    <3> QED BY <1>1, <3>1, SomeObjects
  <2>8. ASSUME NEW c \in 1..MaxCounters
        PROVE  CountsHolders(c)'
    <3>1. count'[c] = IF c = new THEN 1 ELSE count[c]
      BY <1>1, <2>2 DEF RefTypes
    <3>2. CASE c = new
      BY <2>4, <2>5, <2>7, <3>1, <3>2
    <3>3. CASE c # new
      BY <1>1, <2>4, <3>1, <3>3
    <3> QED BY <3>2, <3>3
  <2> QED BY <1>1, <2>2, <2>6, <2>7, <2>8 DEF RefTypes
<1>3. ASSUME NEW o \in Objects, NEW p \in Objects, Ref!Copy(o, p) \/ Ref!Assign(o, p)
      PROVE  AllCounted'
  <2>1. PICK c \in 1..MaxCounters :
          /\ c = refCounter[o] /\ refCounter' = [refCounter EXCEPT ![p] = c]
          /\ count' = [count EXCEPT ![c] = @ + 1] /\ nofSockets' = nofSockets + 1
    <3>1. object[o] # "none" /\ (Ref!Assign(o, p) => object[p] # "none")
      BY <1>3 DEF Ref!Copy, Ref!Assign
    <3>2. refCounter[o] \in 1..MaxCounters
      BY <1>1, <3>1 DEF RefTypes
    <3> QED BY <1>3, <3>2 DEF Ref!Copy, Ref!Assign
  <2>2. Ref!Live' = Ref!Live \cup {p}
    BY <1>1, <1>3 DEF Ref!Copy, Ref!Assign, RefTypes, Ref!Live
  <2>3. \A d \in 1..MaxCounters :
          Ref!Holders(d)' = IF d = c THEN Ref!Holders(d) \cup {p} ELSE Ref!Holders(d) \ {p}
    BY <1>1, <2>1, <2>2 DEF RefTypes, Ref!Holders, Ref!Live
  <2>4. \A d \in 1..MaxCounters :
          /\ Cardinality(Ref!Holders(d)) \in Nat
          /\ Cardinality(Ref!Holders(d) \cup {p}) <= Cardinality(Ref!Holders(d)) + 1
          /\ Cardinality(Ref!Holders(d) \ {p}) \in Nat
          /\ Cardinality(Ref!Holders(d) \ {p}) <= Cardinality(Ref!Holders(d))
    <3> SUFFICES ASSUME NEW d \in 1..MaxCounters, NEW S, S = Ref!Holders(d)
                 PROVE  /\ Cardinality(S) \in Nat /\ Cardinality(S \ {p}) \in Nat
                        /\ Cardinality(S \cup {p}) <= Cardinality(S) + 1
                        /\ Cardinality(S \ {p}) <= Cardinality(S)
      OBVIOUS
    <3>1. S \in SUBSET Objects /\ S \ {p} \in SUBSET Objects /\ (p \notin S => S \ {p} = S)
      BY <1>1
    <3>2. /\ Cardinality(S) \in Nat /\ Cardinality(S \ {p}) \in Nat
          /\ Cardinality(S \cup {p}) <= Cardinality(S) + 1
      BY <3>1, SomeObjects
    <3>3. p \in S => Cardinality(S \ {p}) = Cardinality(S) - 1
      BY <3>1, SomeObjects
    <3> QED BY <3>1, <3>2, <3>3
  <2>5. /\ Cardinality(Ref!Live') <= Cardinality(Ref!Live) + 1
        /\ Cardinality(Ref!Live) \in Nat /\ Cardinality(Ref!Live') \in Nat
    BY <1>1, <2>2, SomeObjects
  <2>6. \A d \in 1..MaxCounters : Cardinality(Ref!Holders(d)') \in Nat
    BY <1>1, SomeObjects
  <2>7. ASSUME NEW d \in 1..MaxCounters
        PROVE  CountsHolders(d)'
    <3>1. count'[d] = (IF d = c THEN count[d] + 1 ELSE count[d]) /\ count[d] \in Nat
      BY <1>1, <2>1 DEF RefTypes
    <3>2. count[d] >= Cardinality(Ref!Holders(d))
      BY <1>1
    <3>3. CASE d = c
      <4>1. Ref!Holders(d)' = Ref!Holders(d) \cup {p}
        BY <2>3, <3>3
      <4>2. Cardinality(Ref!Holders(d)') <= Cardinality(Ref!Holders(d)) + 1
        BY <2>4, <4>1
      <4>3. /\ Cardinality(Ref!Holders(d)') \in Nat /\ Cardinality(Ref!Holders(d)) \in Nat
            /\ count'[d] = count[d] + 1
        BY <2>4, <2>6, <3>1, <3>3
      <4> QED BY <3>1, <3>2, <4>2, <4>3
    <3>4. CASE d # c
      BY <2>3, <2>4, <2>6, <3>1, <3>2, <3>4
    <3> QED BY <3>3, <3>4
  <2> QED BY <1>1, <2>1, <2>5, <2>7 DEF RefTypes
<1>4. ASSUME NEW o \in Objects, Ref!Close(o) \/ Ref!DestroyClient(o) \/ Ref!Reconnect(o)
      PROVE  AllCounted'
  <2>1. UNCHANGED <<refCounter, count, nofSockets>> /\ Ref!Live' = Ref!Live
    BY <1>1, <1>4 DEF Ref!Close, Ref!DestroyClient, Ref!Reconnect, Ref!Live, RefTypes
  <2>2. \A c \in 1..MaxCounters : Ref!Holders(c)' = Ref!Holders(c)
    BY <2>1 DEF Ref!Holders
  <2> QED BY <1>1, <2>1, <2>2
<1>5. ASSUME NEW o \in Objects, Ref!Destroy(o)
      PROVE  AllCounted'
  <2>1. PICK c \in 1..MaxCounters :
          /\ c = refCounter[o] /\ refCounter' = [refCounter EXCEPT ![o] = 0]
          /\ count' = [count EXCEPT ![c] = @ - 1] /\ nofSockets' = nofSockets - 1
          /\ o \in Ref!Holders(c) /\ o \in Ref!Live
    <3>1. object[o] # "none" /\ refCounter[o] \in 1..MaxCounters
      BY <1>1, <1>5 DEF Ref!Destroy, RefTypes
    <3> QED BY <1>5, <3>1 DEF Ref!Destroy, Ref!Holders, Ref!Live
  <2>2. Ref!Live' = Ref!Live \ {o}
    BY <1>1, <1>5 DEF Ref!Destroy, RefTypes, Ref!Live
  <2>3. /\ Ref!Holders(c)' = Ref!Holders(c) \ {o}
        /\ \A d \in 1..MaxCounters : d # c => Ref!Holders(d)' = Ref!Holders(d)
    BY <1>1, <2>1, <2>2 DEF RefTypes, Ref!Holders, Ref!Live
  <2>4. /\ Cardinality(Ref!Holders(c)') = Cardinality(Ref!Holders(c)) - 1
        /\ Cardinality(Ref!Live') = Cardinality(Ref!Live) - 1
        /\ Cardinality(Ref!Holders(c)) \in Nat /\ Cardinality(Ref!Live) \in Nat
    <3>1. /\ Ref!Live \in SUBSET Objects /\ Ref!Holders(c) \in SUBSET Objects
          /\ o \in Ref!Holders(c) /\ o \in Ref!Live
      BY <1>1, <2>1
    <3> QED BY <2>2, <2>3, <3>1, SomeObjects
  <2>5. ASSUME NEW d \in 1..MaxCounters
        PROVE  CountsHolders(d)'
    <3>1. count'[d] = (IF d = c THEN count[c] - 1 ELSE count[d]) /\ count[d] \in Nat
      BY <1>1, <2>1 DEF RefTypes
    <3>2. count[d] >= Cardinality(Ref!Holders(d))
      BY <1>1
    <3>3. CASE d = c
      BY <2>4, <3>1, <3>2, <3>3
    <3>4. CASE d # c
      BY <2>3, <3>1, <3>2, <3>4
    <3> QED BY <3>3, <3>4
  <2> QED BY <1>1, <2>1, <2>4, <2>5 DEF RefTypes
<1>6. CASE Ref!ConstructThrows
  <2>1. UNCHANGED <<refCounter, count, object>> /\ nofSockets' = nofSockets + 1
    BY <1>6 DEF Ref!ConstructThrows
  <2>2. Ref!Live' = Ref!Live /\ \A c \in 1..MaxCounters : Ref!Holders(c)' = Ref!Holders(c)
    BY <2>1 DEF Ref!Live, Ref!Holders
  <2>3. Cardinality(Ref!Live) \in Nat
    BY <1>1, SomeObjects
  <2> QED BY <1>1, <2>1, <2>2, <2>3 DEF RefTypes
<1> QED BY <1>2, <1>3, <1>4, <1>5, <1>6 DEF Ref!Next

\* What an object that is alone with its counter closes is no other's.
LEMMA AloneCloses ==
  ASSUME RefInv, careful, NEW o \in Ref!Live, Ref!Alone(o)
  PROVE  /\ \A p \in Ref!Live \ {o} :
              /\ s_[p] \in Ref!Descriptors =>
                   Ref!Closed(o)[s_[p]] = IF p \in shut THEN 0 ELSE refCounter[p]
              /\ p \notin shut => refCounter[p] # 0
         /\ s_[o] \in Ref!Descriptors => Ref!Closed(o)[s_[o]] = 0
<1>1. /\ \A p \in Ref!Live \ {o} : refCounter[p] # refCounter[o] /\ refCounter[p] # 0
      /\ \A p \in Ref!Live : Own(p) /\ refCounter[p] # 0 /\ p \in Objects
      /\ refCounter[o] # 0
      /\ DOMAIN opened = Ref!Descriptors
  BY DEF RefInv, RefTypes, AllOwn, Ref!Alone, Ref!Holders, Ref!Live
<1> QED BY <1>1 DEF Own, Ref!Closed, Ref!CloseSocket

LEMMA OwnStep ==
  ASSUME RefInv, Ref!Next
  PROVE  AllOwn'
<1>1. RefTypes /\ AllOwn /\ \A p \in Ref!Live : p \in Objects /\ refCounter[p] # 0
  BY DEF RefInv, RefTypes, Ref!Live
<1> SUFFICES ASSUME careful', NEW q \in Ref!Live'
             PROVE  Own(q)'
  BY DEF AllOwn
<1>2. ASSUME NEW o \in Objects, NEW class \in {"Socket", "CClientSocket"},
             Ref!Construct(o, class)
      PROVE  Own(q)'
  <2>1. PICK d, new : /\ d = Ref!Lowest(opened) /\ new = Ref!NewCounter
                      /\ s_' = [s_ EXCEPT ![o] = d]
                      /\ refCounter' = [refCounter EXCEPT ![o] = new]
                      /\ opened' = [opened EXCEPT ![d] = new]
    BY <1>2 DEF Ref!Construct
  <2>2. /\ object' = [object EXCEPT ![o] = class] /\ object[o] = "none" /\ careful
        /\ shut = {} /\ shut' = {} /\ o \notin Ref!Live
    BY <1>2 DEF Ref!Construct, Ref!Live
  <2>3. d \in Ref!Descriptors /\ opened[d] = 0
    BY <1>2, <2>1, RefLowest DEF Ref!Construct, Ref!Free
  <2>4. q # o => q \in Ref!Live
    BY <1>1, <2>2 DEF Ref!Live, RefTypes
  <2>5. CASE q = o
    BY <1>1, <2>1, <2>2, <2>3, <2>5 DEF Own, RefTypes
  <2>6. CASE q # o
    <3>1. s_'[q] = s_[q] /\ refCounter'[q] = refCounter[q]
      BY <1>1, <2>1, <2>4, <2>6 DEF RefTypes
    <3>2. s_[q] \in Ref!Descriptors => opened[s_[q]] = refCounter[q] /\ refCounter[q] # 0
      BY <1>1, <2>2, <2>4, <2>6 DEF AllOwn, Own
    <3> QED BY <1>1, <2>1, <2>2, <2>3, <3>1, <3>2 DEF Own, RefTypes
  <2> QED BY <2>5, <2>6
<1>3. ASSUME NEW o \in Objects, NEW p \in Objects, Ref!Copy(o, p)
      PROVE  Own(q)'
  <2>1. /\ o \in Ref!Live /\ p \notin Ref!Live /\ careful /\ opened' = opened
        /\ s_' = [s_ EXCEPT ![p] = s_[o]] /\ refCounter' = [refCounter EXCEPT ![p] = refCounter[o]]
        /\ shut' = IF o \in shut THEN shut \cup {p} ELSE shut
    BY <1>3 DEF Ref!Copy, Ref!Live
  <2>2. q = p \/ q \in Ref!Live
    BY <1>1, <1>3 DEF Ref!Copy, Ref!Live, RefTypes
  <2>3. p \notin shut /\ Own(o) /\ (q \in Ref!Live => Own(q))
    BY <1>1, <2>1 DEF AllOwn, RefTypes
  <2> QED BY <1>1, <2>1, <2>2, <2>3 DEF Own, RefTypes
<1>4. ASSUME NEW o \in Objects, NEW p \in Objects, Ref!Assign(o, p)
      PROVE  Own(q)'
  BY <1>4 DEF Ref!Assign
<1>5. ASSUME NEW o \in Objects, Ref!Close(o) \/ Ref!DestroyClient(o)
      PROVE  Own(q)'
  <2>1. /\ o \in Ref!Live /\ careful /\ Ref!Alone(o) /\ opened' = Ref!Closed(o)
        /\ shut' = shut \cup {o} /\ UNCHANGED <<s_, refCounter>>
    BY <1>5 DEF Ref!Close, Ref!DestroyClient, Ref!Live
  <2>2. q \in Ref!Live
    BY <1>1, <1>5 DEF Ref!Close, Ref!DestroyClient, Ref!Live, RefTypes
  <2> QED BY <2>1, <2>2, AloneCloses DEF Own
<1>6. ASSUME NEW o \in Objects, Ref!Reconnect(o)
      PROVE  Own(q)'
  <2>1. PICK d : /\ d = Ref!Lowest(Ref!Closed(o))
                 /\ s_' = [s_ EXCEPT ![o] = d]
                 /\ opened' = IF d \in Ref!Descriptors
                                THEN [Ref!Closed(o) EXCEPT ![d] = refCounter[o]]
                                ELSE Ref!Closed(o)
    BY <1>6 DEF Ref!Reconnect
  <2>2. /\ o \in Ref!Live /\ careful /\ Ref!Alone(o) /\ shut \subseteq {o} /\ shut' = {}
        /\ UNCHANGED refCounter /\ q \in Ref!Live
    BY <1>6 DEF Ref!Reconnect, Ref!Live
  <2>3. d \in Ref!Descriptors => Ref!Closed(o)[d] = 0
    <3>1. Ref!Free(Ref!Closed(o)) = {} => d \notin Ref!Descriptors
      BY <2>1 DEF Ref!Lowest, Ref!INVALID_SOCKET, Ref!Descriptors
    <3> QED BY <2>1, <3>1, RefLowest DEF Ref!Free
  <2>4. DOMAIN Ref!Closed(o) = Ref!Descriptors
    BY <1>1 DEF RefTypes, Ref!Closed, Ref!CloseSocket
  <2>5. CASE q = o
    BY <1>1, <2>1, <2>2, <2>4, <2>5 DEF Own, RefTypes
  <2>6. CASE q # o
    <3>1. s_'[q] = s_[q] /\ q \notin shut /\ q \in Ref!Live \ {o}
      BY <1>1, <2>1, <2>2, <2>6 DEF RefTypes
    <3>2. /\ s_[q] \in Ref!Descriptors => Ref!Closed(o)[s_[q]] = refCounter[q]
          /\ refCounter[q] # 0
      BY <2>2, <3>1, AloneCloses
    <3> QED BY <2>1, <2>2, <2>3, <2>4, <3>1, <3>2 DEF Own
  <2> QED BY <2>5, <2>6
<1>7. ASSUME NEW o \in Objects, Ref!Destroy(o)
      PROVE  Own(q)'
  <2>1. /\ o \in Ref!Live /\ careful /\ shut' = shut \ {o} /\ object' = [object EXCEPT ![o] = "none"]
        /\ s_' = [s_ EXCEPT ![o] = Ref!INVALID_SOCKET]
        /\ refCounter' = [refCounter EXCEPT ![o] = 0]
        /\ opened' = IF count[refCounter[o]] = 1 THEN Ref!Closed(o) ELSE opened
    BY <1>7 DEF Ref!Destroy, Ref!Live
  <2>2. q \in Ref!Live \ {o}
    BY <1>1, <2>1 DEF Ref!Live, RefTypes
  <2>3. s_'[q] = s_[q] /\ refCounter'[q] = refCounter[q]
    BY <1>1, <2>1, <2>2 DEF RefTypes
  <2>4. Own(q)
    BY <1>1, <2>1, <2>2 DEF AllOwn
  <2>5. count[refCounter[o]] = 1 => Ref!Alone(o)
    <3>1. /\ refCounter[o] \in 1..MaxCounters /\ o \in Ref!Holders(refCounter[o])
          /\ Ref!Holders(refCounter[o]) \in SUBSET Objects
      BY <1>1, <2>1, ProgramsAssumption DEF RefTypes, Ref!Holders, Ref!Live
    <3>2. count[refCounter[o]] >= Cardinality(Ref!Holders(refCounter[o]))
      BY <3>1 DEF RefInv, AllCounted, CountsHolders
    <3> DEFINE n == Cardinality(Ref!Holders(refCounter[o]))
    <3>3. n \in Nat /\ n >= 1 /\ (n = 1 => Ref!Holders(refCounter[o]) = {o})
      BY <3>1, SomeObjects
    <3> HIDE DEF n
    <3>4. count[refCounter[o]] >= n
      BY <3>2 DEF n
    <3> QED BY <3>3, <3>4 DEF Ref!Alone
  <2>6. CASE count[refCounter[o]] = 1
    BY <2>1, <2>2, <2>3, <2>5, <2>6, AloneCloses DEF Own
  <2>7. CASE count[refCounter[o]] # 1
    BY <2>1, <2>2, <2>3, <2>4, <2>7 DEF Own
  <2> QED BY <2>6, <2>7
<1>8. CASE Ref!ConstructThrows
  BY <1>1, <1>8 DEF Ref!ConstructThrows, AllOwn, Own, Ref!Live
<1> QED BY <1>2, <1>3, <1>4, <1>5, <1>6, <1>7, <1>8 DEF Ref!Next

\* However Socket objects are made, copied, assigned, closed, reconnected and destroyed
\* (Socket.cpp and CClientSocket.cpp), no counter is deleted under an object that holds it,
\* and as long as all are used with care an object that was not closed holds the
\* descriptor that was opened for it.
THEOREM CountersCoverTheirHolders == Spec => []DescriptorsAreHeld
<1> DEFINE RefI == program = "socket" => RefInv
<1>1. Init => RefI
  <2> SUFFICES ASSUME Ref!Init
               PROVE  RefInv
    BY DEF Init
  <2>1. RefTypes /\ Ref!Live = {}
    BY ProgramsAssumption DEF Ref!Init, RefTypes, Ref!Live, Ref!INVALID_SOCKET
  <2>2. (\A c \in 1..MaxCounters : Ref!Holders(c) = {}) /\ Cardinality({}) = 0
    BY <2>1, FS_EmptySet DEF Ref!Holders
  <2>3. /\ \A c \in 1..MaxCounters : count[c] = 0
        /\ nofSockets = 0
    BY DEF Ref!Init
  <2> QED BY <2>1, <2>2, <2>3 DEF RefInv, AllCounted, CountsHolders, AllOwn
<1>2. RefI /\ [Next]_vars => RefI'
  <2> SUFFICES ASSUME RefI, [Next]_vars, program' = "socket"
               PROVE  RefInv'
    OBVIOUS
  <2>1. program = "socket" /\ RefInv /\ (Ref!Next \/ UNCHANGED socketVars)
    BY StepIsOwn
  <2>2. CASE UNCHANGED socketVars
    BY <2>1, <2>2 DEF RefInv, RefTypes, AllCounted, CountsHolders, AllOwn, Own, Ref!Live,
                      Ref!Holders, socketVars
  <2> QED BY <2>1, <2>2, RefTypesStep, CountedStep, OwnStep DEF RefInv
<1>3. RefI => DescriptorsAreHeld
  <2> SUFFICES ASSUME RefInv
               PROVE  Ref!DescriptorsAreHeld
    BY DEF DescriptorsAreHeld
  <2>1. \A S : Ref!Cardinality(S) = Cardinality(S)
    BY Zenon DEF Ref!Cardinality, Cardinality
  <2>2. \A o \in Ref!Live : refCounter[o] \in 1..MaxCounters
    BY ProgramsAssumption DEF RefInv, RefTypes, Ref!Live
  <2>3. /\ \A o \in Ref!Live : count[refCounter[o]] >= Cardinality(Ref!Holders(refCounter[o]))
        /\ nofSockets >= Cardinality(Ref!Live)
    BY <2>2 DEF RefInv, AllCounted, CountsHolders
  <2>4. careful => \A o \in Ref!Live \ shut :
                     s_[o] \in Ref!Descriptors => opened[s_[o]] = refCounter[o]
    BY DEF RefInv, AllOwn, Own
  <2> QED BY <2>1, <2>3, <2>4 DEF Ref!DescriptorsAreHeld
<1> QED BY <1>1, <1>2, <1>3, PTL DEF Spec

----------------------------------------------------------------------------
(***************************************************************************)
(* The logger                                                              *)
(***************************************************************************)

\* No thread makes two loggers: there is one by the time that it looks again.
LogTypes ==
  /\ dead \in BOOLEAN
  /\ made \in Nat /\ instance \in 0..made /\ (instance = 0 <=> made = 0)
  /\ made <= Cardinality({t \in Threads : mine[t] # 0})
  /\ mine \in [Threads -> 0..made]
  /\ phase \in [Threads -> {"idle", "creating", "logging"}]
  /\ logged \in [Threads -> 0..MaxLog]
  /\ \A t \in Threads : /\ phase[t] # "idle" => logged[t] < MaxLog
                        /\ phase[t] = "creating" => mine[t] = 0
                        /\ phase[t] = "logging" => mine[t] # 0
  /\ queue_ \in [Log!Instances -> Seq(Log!Lines)] /\ output \in Seq(Log!Lines)
  /\ lost \subseteq Log!Lines /\ strays \subseteq Log!Lines
  /\ \A i \in Log!Instances : queue_[i] # <<>> => loggerType # "" /\ i <= made

\* The order of the lines of a thread, and where a line may be.
Earlier(l, m) == l[1] = m[1] => l[2] < m[2]
InOrder(q) == \A j, k \in DOMAIN q : j < k => Earlier(q[j], q[k])
Distinct(q) == \A j, k \in DOMAIN q : q[j] = q[k] => j = k
Before(S, T) == \A l \in S, m \in T : Earlier(l, m)

Queued(i) == Log!RangeOf(queue_[i])
Written == Log!RangeOf(output)
Gone == lost \cup strays
HasSaid == {l \in Log!Lines : l[2] <= logged[l[1]]}

OnePlace ==
  /\ \A i \in Log!Instances : Queued(i) \cap (Written \cup Gone) = {}
  /\ \A i, j \in Log!Instances : i # j => Queued(i) \cap Queued(j) = {}
  /\ Written \cap Gone = {}
  /\ \A i \in Log!Instances : Queued(i) \subseteq HasSaid
  /\ Written \cup Gone \subseteq HasSaid
  /\ \/ dead /\ loggerType = "NET"
     \/ \A l \in HasSaid : l \in Written \cup Gone \/ \E i \in Log!Instances : l \in Queued(i)

Ordered ==
  /\ Distinct(output) /\ \A i \in Log!Instances : Distinct(queue_[i]) /\ InOrder(queue_[i])
  /\ made <= 1 => InOrder(output) /\ \A i \in Log!Instances : Before(Written, Queued(i))

LogInv == LogTypes /\ OnePlace /\ Ordered

LEMMA LogQueueGrows ==
  ASSUME NEW q \in Seq(Log!Lines), NEW x \in Log!Lines
  PROVE  /\ Append(q, x) \in Seq(Log!Lines)
         /\ Log!RangeOf(Append(q, x)) = Log!RangeOf(q) \cup {x}
         /\ Distinct(q) /\ x \notin Log!RangeOf(q) => Distinct(Append(q, x))
         /\ InOrder(q) /\ Before(Log!RangeOf(q), {x}) => InOrder(Append(q, x))
<1>1. /\ Append(q, x) \in Seq(Log!Lines) /\ Len(q) \in Nat /\ Len(Append(q, x)) = Len(q) + 1
      /\ \A k \in 1..Len(q) : Append(q, x)[k] = q[k]
      /\ Append(q, x)[Len(q) + 1] = x
  BY Appended
<1>2. DOMAIN q = 1..Len(q) /\ DOMAIN Append(q, x) = 1..(Len(q) + 1)
  BY <1>1, LenProperties
<1> DEFINE n == Len(q)  a == Append(q, x)
<1>3. /\ n \in Nat /\ DOMAIN q = 1..n /\ DOMAIN a = 1..(n + 1)
      /\ \A k \in 1..n : a[k] = q[k] /\ a[n + 1] = x
      /\ a \in Seq(Log!Lines) /\ a[n + 1] = x
  BY <1>1, <1>2
<1> HIDE DEF n, a
<1>4. Log!RangeOf(a) = Log!RangeOf(q) \cup {x}
  <2>1. \A k \in 1..(n + 1) : k \in 1..n \/ k = n + 1
    BY <1>3
  <2>2. \A k \in 1..n : k \in 1..(n + 1)
    BY <1>3
  <2>3. n + 1 \in 1..(n + 1)
    BY <1>3
  <2> QED BY <1>3, <2>1, <2>2, <2>3 DEF Log!RangeOf
<1>5. ASSUME Distinct(q), x \notin Log!RangeOf(q)
      PROVE  Distinct(a)
  <2>1. \A k \in 1..n : q[k] # x
    BY <1>3, <1>5 DEF Log!RangeOf
  <2> QED BY <1>3, <1>5, <2>1 DEF Distinct
<1>6. ASSUME InOrder(q), Before(Log!RangeOf(q), {x})
      PROVE  InOrder(a)
  <2>1. \A k \in 1..n : Earlier(q[k], x)
    BY <1>3, <1>6 DEF Log!RangeOf, Before
  <2>2. ASSUME NEW j \in 1..(n + 1), NEW k \in 1..(n + 1), j < k
        PROVE  Earlier(a[j], a[k])
    <3>1. j \in 1..n
      BY <1>3, <2>2
    <3>2. CASE k = n + 1
      BY <1>3, <2>1, <3>1, <3>2
    <3>3. CASE k \in 1..n
      BY <1>3, <1>6, <2>2, <3>1, <3>3 DEF InOrder
    <3> QED BY <1>3, <3>2, <3>3
  <2> QED BY <1>3, <2>2 DEF InOrder
<1> QED BY <1>3, <1>4, <1>5, <1>6 DEF a

LEMMA LogQueueShrinks ==
  ASSUME NEW q \in Seq(Log!Lines), q # <<>>
  PROVE  /\ Tail(q) \in Seq(Log!Lines) /\ Head(q) \in Log!Lines
         /\ Log!RangeOf(q) = {Head(q)} \cup Log!RangeOf(Tail(q))
         /\ Distinct(q) => Distinct(Tail(q)) /\ Head(q) \notin Log!RangeOf(Tail(q))
         /\ InOrder(q) => InOrder(Tail(q)) /\ Before({Head(q)}, Log!RangeOf(Tail(q)))
<1> DEFINE r == Tail(q)  n == Len(r)
<1>1. /\ r \in Seq(Log!Lines) /\ Head(q) \in Log!Lines /\ Head(q) = q[1]
      /\ n \in Nat /\ Len(q) = n + 1
      /\ \A k \in 1..n : r[k] = q[k + 1]
  BY Beheaded
<1>2. DOMAIN q = 1..(n + 1) /\ DOMAIN r = 1..n
  BY <1>1, LenProperties
<1>3. /\ \A k \in 1..n : k + 1 \in 1..(n + 1)
      /\ \A k \in 1..(n + 1) : k = 1 \/ \E j \in 1..n : k = j + 1
      /\ 1 \in 1..(n + 1)
  <2>1. \A k \in 1..(n + 1) : k # 1 => k - 1 \in 1..n /\ k = (k - 1) + 1
    BY <1>1
  <2> QED BY <1>1, <2>1
<1> HIDE DEF n, r
<1>4. Log!RangeOf(q) = {Head(q)} \cup Log!RangeOf(r)
  <2>1. ASSUME NEW k \in DOMAIN q
        PROVE  q[k] = Head(q) \/ \E j \in DOMAIN r : q[k] = r[j]
    <3>1. CASE k = 1
      BY <1>1, <3>1
    <3>2. CASE k # 1
      <4>1. PICK j \in 1..n : k = j + 1
        BY <1>2, <1>3, <3>2
      <4>2. q[k] = r[j] /\ j \in DOMAIN r
        BY <1>1, <1>2, <4>1
      <4> QED BY <4>2
    <3> QED BY <3>1, <3>2
  <2>2. /\ \E k \in DOMAIN q : q[k] = Head(q)
        /\ \A j \in DOMAIN r : \E k \in DOMAIN q : q[k] = r[j]
    BY <1>1, <1>2, <1>3
  <2> QED BY <2>1, <2>2 DEF Log!RangeOf
<1>5. ASSUME Distinct(q)
      PROVE  Distinct(r) /\ Head(q) \notin Log!RangeOf(r)
  <2>1. ASSUME NEW j \in 1..n, NEW k \in 1..n, r[j] = r[k]
        PROVE  j = k
    <3>1. q[j + 1] = q[k + 1] /\ j + 1 \in DOMAIN q /\ k + 1 \in DOMAIN q
      BY <1>1, <1>2, <1>3, <2>1
    <3>2. j + 1 = k + 1
      BY <1>5, <3>1 DEF Distinct
    <3> QED BY <3>2
  <2>2. ASSUME NEW j \in 1..n, r[j] = q[1]
        PROVE  FALSE
    <3>1. q[j + 1] = q[1] /\ j + 1 \in DOMAIN q /\ 1 \in DOMAIN q
      BY <1>1, <1>2, <1>3, <2>2
    <3>2. j + 1 = 1
      BY <1>5, <3>1 DEF Distinct
    <3> QED BY <3>2
  <2> QED BY <1>1, <1>2, <2>1, <2>2 DEF Distinct, Log!RangeOf
<1>6. ASSUME InOrder(q)
      PROVE  InOrder(r) /\ Before({Head(q)}, Log!RangeOf(r))
  <2>1. ASSUME NEW j \in 1..n, NEW k \in 1..n, j < k
        PROVE  Earlier(r[j], r[k])
    <3>1. /\ j + 1 < k + 1 /\ j + 1 \in DOMAIN q /\ k + 1 \in DOMAIN q
          /\ r[j] = q[j + 1] /\ r[k] = q[k + 1]
      BY <1>1, <1>2, <1>3, <2>1
    <3>2. Earlier(q[j + 1], q[k + 1])
      BY <1>6, <3>1 DEF InOrder
    <3> QED BY <3>1, <3>2
  <2>2. ASSUME NEW j \in 1..n
        PROVE  Earlier(q[1], r[j])
    <3>1. 1 < j + 1 /\ 1 \in DOMAIN q /\ j + 1 \in DOMAIN q /\ r[j] = q[j + 1]
      BY <1>1, <1>2, <1>3
    <3>2. Earlier(q[1], q[j + 1])
      BY <1>6, <3>1 DEF InOrder
    <3> QED BY <3>1, <3>2
  <2> QED BY <1>1, <1>2, <2>1, <2>2 DEF InOrder, Before, Log!RangeOf
<1> QED BY <1>1, <1>4, <1>5, <1>6 DEF r

LEMMA InstancesAre ==
  ASSUME LogTypes
  PROVE  /\ Log!Instances = 1..Cardinality(Threads) /\ Cardinality(Threads) \in Nat
         /\ made <= Cardinality(Threads) /\ made \in Nat
         /\ \A t \in Threads : phase[t] = "logging" => mine[t] \in Log!Instances /\ mine[t] <= made
<1>1. Log!Cardinality(Threads) = Cardinality(Threads)
  BY Zenon DEF Log!Cardinality, Cardinality
<1>2. Cardinality(Threads) \in Nat
  BY ProgramsAssumption, FS_CardinalityType
<1> DEFINE Through == {t \in Threads : mine[t] # 0}
<1>3. Cardinality(Through) \in Nat /\ Cardinality(Through) <= Cardinality(Threads)
  BY ProgramsAssumption, FS_CardinalityType, FS_Subset
<1>4. made <= Cardinality(Through) /\ made \in Nat
  BY DEF LogTypes
<1>5. \A t \in Threads : phase[t] = "logging" => mine[t] \in 1..made
  <2>1. \A t \in Threads : mine[t] \in 0..made /\ (phase[t] = "logging" => mine[t] # 0)
    BY DEF LogTypes
  <2> QED BY <1>4, <2>1
<1> HIDE DEF Through
<1>6. made <= Cardinality(Threads)
  BY <1>2, <1>3, <1>4
<1> QED BY <1>1, <1>2, <1>4, <1>5, <1>6 DEF Log!Instances

LEMMA LogTypesStep ==
  ASSUME LogInv, Log!Next
  PROVE  LogTypes'
<1>1. LogTypes /\ OnePlace
  BY DEF LogInv
<1> DEFINE Through == {t \in Threads : mine[t] # 0}
<1>2. ASSUME NEW t \in Threads, Log!GetInstance(t)
      PROVE  LogTypes'
  <2>1. /\ mine' = [mine EXCEPT ![t] = instance] /\ phase[t] = "idle" /\ logged[t] < MaxLog
        /\ phase' = [phase EXCEPT ![t] = IF instance = 0 THEN "creating" ELSE "logging"]
        /\ UNCHANGED <<loggerType, dead, instance, made, logged, queue_, output, lost, strays>>
    BY <1>2 DEF Log!GetInstance, Log!NoLogger, Log!netVars
  <2>2. /\ made \in Nat /\ instance \in 0..made /\ (instance = 0 <=> made = 0)
        /\ mine \in [Threads -> 0..made]
    BY <1>1 DEF LogTypes
  <2>3. \A u \in Threads : mine[u] # 0 => mine'[u] # 0
    BY <2>1, <2>2
  <2>4. Through \subseteq Through' /\ IsFiniteSet(Through')
    BY <2>3, ProgramsAssumption, FS_Subset
  <2>5. /\ Cardinality(Through) <= Cardinality(Through')
        /\ Cardinality(Through) \in Nat /\ Cardinality(Through') \in Nat
    BY <2>4, FS_Subset, FS_CardinalityType
  <2>6. made <= Cardinality(Through)
    BY <1>1 DEF LogTypes
  <2> HIDE DEF Through
  <2>7. made <= Cardinality(Through')
    BY <2>2, <2>5, <2>6
  <2> QED BY <1>1, <2>1, <2>2, <2>7 DEF LogTypes, Through
<1>3. ASSUME NEW t \in Threads, Log!Create(t)
      PROVE  LogTypes'
  <2>1. /\ made' = made + 1 /\ instance' = made' /\ mine' = [mine EXCEPT ![t] = made']
        /\ phase' = [phase EXCEPT ![t] = "logging"] /\ phase[t] = "creating"
        /\ UNCHANGED <<loggerType, dead, logged, queue_, output, lost, strays>>
    BY <1>3 DEF Log!Create, Log!netVars
  <2>2. /\ made \in Nat /\ instance \in 0..made /\ mine \in [Threads -> 0..made]
        /\ mine[t] = 0 /\ logged[t] < MaxLog
    BY <1>1, <2>1 DEF LogTypes
  <2>3. Through' = Through \cup {t} /\ t \notin Through
    BY <2>1, <2>2
  <2>4. IsFiniteSet(Through)
    BY ProgramsAssumption, FS_Subset
  <2>5. Cardinality(Through \cup {t}) = Cardinality(Through) + 1 /\ Cardinality(Through) \in Nat
    BY <2>3, <2>4, FS_AddElement, FS_CardinalityType
  <2>6. made <= Cardinality(Through)
    BY <1>1 DEF LogTypes
  <2> HIDE DEF Through
  <2>7. made' <= Cardinality(Through')
    BY <2>1, <2>2, <2>3, <2>5, <2>6
  <2>8. /\ made' \in Nat /\ instance' \in 0..made' /\ (instance' = 0 <=> made' = 0)
        /\ mine' \in [Threads -> 0..made'] /\ made <= made' /\ made' # 0
    BY <2>1, <2>2
  <2>9. \A i \in Log!Instances : queue_'[i] # <<>> => loggerType' # "" /\ i <= made'
    <3>1. \A i \in Log!Instances : queue_[i] # <<>> => loggerType # "" /\ i <= made
      BY <1>1 DEF LogTypes
    <3>2. Log!Instances \subseteq Nat
      BY <1>1, InstancesAre
    <3>3. \A i \in Nat : i <= made => i <= made'
      BY <2>1, <2>2
    <3>4. queue_' = queue_ /\ loggerType' = loggerType
      BY <2>1
    <3> QED BY <3>1, <3>2, <3>3, <3>4
  <2>10. \A u \in Threads : /\ phase'[u] # "idle" => logged'[u] < MaxLog
                            /\ phase'[u] = "creating" => mine'[u] = 0
                            /\ phase'[u] = "logging" => mine'[u] # 0
    BY <1>1, <2>1, <2>8 DEF LogTypes
  <2> QED BY <1>1, <2>1, <2>7, <2>8, <2>9, <2>10 DEF LogTypes, Through
<1>4. ASSUME NEW t \in Threads, Log!CreateThrows(t)
      PROVE  LogTypes'
  BY <1>1, <1>4 DEF Log!CreateThrows, LogTypes, Log!threadVars, Log!netVars
<1>5. ASSUME NEW t \in Threads, Log!Log(t)
      PROVE  LogTypes'
  <2>1. PICK i, n : i = mine[t] /\ n = logged[t] + 1
    OBVIOUS
  <2>2. /\ i \in Log!Instances /\ i <= made
        /\ logged[t] < MaxLog /\ logged[t] \in Nat /\ MaxLog \in Nat
    <3>1. phase[t] = "logging"
      BY <1>5 DEF Log!Log
    <3>2. i \in Log!Instances /\ i <= made
      BY <1>1, <2>1, <3>1, InstancesAre
    <3>3. logged[t] < MaxLog /\ logged[t] \in 0..MaxLog
      BY <1>1, <3>1 DEF LogTypes
    <3> QED BY <3>2, <3>3, ProgramsAssumption
  <2>3. <<t, n>> \in Log!Lines /\ n \in 0..MaxLog
    BY <2>1, <2>2 DEF Log!Lines
  <2>4. /\ logged' = [logged EXCEPT ![t] = n] /\ phase' = [phase EXCEPT ![t] = "idle"]
        /\ UNCHANGED <<loggerType, dead, instance, made, mine, strays>>
        /\ \/ Log!LogToConsole(<<t, n>>)
           \/ Log!Write(i, <<t, n>>) \/ Log!WriteOnNewDay(i, <<t, n>>)
    BY <1>5, <2>1 DEF Log!Log, Log!netVars
  <2>5. \A q \in Seq(Log!Lines) : Append(q, <<t, n>>) \in Seq(Log!Lines)
    BY <2>3, LogQueueGrows
  <2>6. /\ <<<<t, n>>>> \in Seq(Log!Lines)
        /\ \A j \in Log!Instances : Log!RangeOf(queue_[j]) \subseteq Log!Lines
    <3>1. <<>> \in Seq(Log!Lines) /\ <<<<t, n>>>> = Append(<<>>, <<t, n>>)
      OBVIOUS
    <3>2. \A j \in Log!Instances : queue_[j] \in Seq(Log!Lines)
      BY <1>1 DEF LogTypes
    <3> QED BY <2>5, <3>1, <3>2, ElementOfSeq, LenProperties DEF Log!RangeOf
  <2>7. /\ queue_' \in [Log!Instances -> Seq(Log!Lines)] /\ output' \in Seq(Log!Lines)
        /\ lost' \subseteq Log!Lines
    BY <1>1, <2>2, <2>4, <2>5, <2>6 DEF LogTypes, Log!LogToConsole, Log!Write, Log!WriteOnNewDay
  <2>8. \A j \in Log!Instances : queue_'[j] # <<>> => loggerType' # "" /\ j <= made'
    <3>1. /\ \A j \in Log!Instances : queue_[j] # <<>> => loggerType # "" /\ j <= made
          /\ DOMAIN queue_ = Log!Instances
      BY <1>1 DEF LogTypes
    <3>2. CASE loggerType = ""
      BY <2>4, <3>1, <3>2 DEF Log!LogToConsole, Log!Write, Log!WriteOnNewDay
    <3>3. CASE loggerType # ""
      <4>1. \A j \in Log!Instances : j # i => queue_'[j] = queue_[j]
        BY <2>4, <3>1, <3>3 DEF Log!LogToConsole, Log!Write, Log!WriteOnNewDay
      <4>2. loggerType' = loggerType /\ made' = made
        BY <2>4
      <4> QED BY <2>2, <3>1, <3>3, <4>1, <4>2
    <3> QED BY <3>2, <3>3
  <2>9. logged' \in [Threads -> 0..MaxLog] /\ phase' \in [Threads -> {"idle", "creating", "logging"}]
    BY <1>1, <2>3, <2>4 DEF LogTypes
  <2>10. \A u \in Threads : /\ phase'[u] # "idle" => logged'[u] < MaxLog
                            /\ phase'[u] = "creating" => mine'[u] = 0
                            /\ phase'[u] = "logging" => mine'[u] # 0
    BY <1>1, <2>4 DEF LogTypes
  <2> QED BY <1>1, <2>4, <2>7, <2>8, <2>9, <2>10 DEF LogTypes
<1>6. ASSUME NEW i \in Log!Instances, Log!Flush(i)
      PROVE  LogTypes'
  <2>1. /\ queue_[i] # <<>> /\ queue_' = [queue_ EXCEPT ![i] = Tail(@)]
        /\ UNCHANGED <<loggerType, instance, made, mine, phase, logged>>
        /\ Log!WriteToMedia(i, Head(queue_[i]))
    BY <1>6 DEF Log!Flush, Log!threadVars
  <2>2. Tail(queue_[i]) \in Seq(Log!Lines) /\ Head(queue_[i]) \in Log!Lines
    BY <1>1, <2>1, LogQueueShrinks DEF LogTypes
  <2>3. \A x \in Log!Lines : Append(output, x) \in Seq(Log!Lines)
    BY <1>1, LogQueueGrows DEF LogTypes
  <2>4. /\ dead' \in BOOLEAN /\ output' \in Seq(Log!Lines) /\ lost' \subseteq Log!Lines
        /\ strays' \subseteq Log!Lines
    BY <1>1, <2>1, <2>2, <2>3 DEF LogTypes, Log!WriteToMedia, Log!WriteFile, Log!InsertRow,
                                  Log!SendTcpMessage, Log!netVars
  <2> QED BY <1>1, <2>1, <2>2, <2>4 DEF LogTypes
<1>7. ASSUME NEW i \in Log!Instances, Log!BeginFlush(i) \/ Log!EndFlush(i) \/ Log!LinkChanges(i)
      PROVE  LogTypes'
  BY <1>1, <1>7 DEF Log!BeginFlush, Log!EndFlush, Log!LinkChanges, LogTypes, Log!threadVars,
                    Log!netVars
<1>8. CASE Log!Midnight
  BY <1>1, <1>8 DEF Log!Midnight, LogTypes, Log!threadVars, Log!netVars
<1> QED BY <1>2, <1>3, <1>4, <1>5, <1>6, <1>7, <1>8 DEF Log!Next, Log!LogWorker

\* A line that a thread adds is in no place yet, and later than those of the thread.
LEMMA NewLine ==
  ASSUME LogTypes, NEW t \in Threads, logged[t] < MaxLog,
         logged' = [logged EXCEPT ![t] = @ + 1]
  PROVE  /\ <<t, logged[t] + 1>> \in Log!Lines \ HasSaid
         /\ HasSaid' = HasSaid \cup {<<t, logged[t] + 1>>}
         /\ Before(HasSaid, {<<t, logged[t] + 1>>})
<1> DEFINE n == logged[t] + 1
<1>1. /\ n \in 1..MaxLog /\ logged[t] = n - 1
      /\ \A u \in Threads : logged[u] \in Nat /\ logged'[u] = IF u = t THEN n ELSE logged[u]
  <2>1. /\ MaxLog \in Nat /\ logged[t] \in 0..MaxLog
        /\ \A u \in Threads : logged[u] \in 0..MaxLog /\ DOMAIN logged = Threads
    BY ProgramsAssumption DEF LogTypes
  <2>2. \A u \in Threads : logged[u] \in Nat
    BY <2>1
  <2>3. n \in 1..MaxLog /\ logged[t] = n - 1
    BY <2>1
  <2> QED BY <2>1, <2>2, <2>3
<1> HIDE DEF n
<1>2. \A l \in Log!Lines : /\ l[1] \in Threads /\ l[2] \in 1..MaxLog
                           /\ l = <<l[1], l[2]>>
  BY DEF Log!Lines
<1>3. <<t, n>> \in Log!Lines \ HasSaid
  BY <1>1 DEF Log!Lines, HasSaid
<1>4. ASSUME NEW l \in Log!Lines
      PROVE  l \in HasSaid' <=> l \in HasSaid \/ l = <<t, n>>
  <2>1. l[1] \in Threads /\ l[2] \in Int /\ l = <<l[1], l[2]>>
    BY <1>2, ProgramsAssumption
  <2>2. CASE l[1] # t
    BY <1>1, <2>1, <2>2 DEF HasSaid
  <2>3. CASE l[1] = t
    <3>1. l[2] <= n <=> l[2] <= n - 1 \/ l[2] = n
      BY <1>1, <2>1, ProgramsAssumption
    <3>2. l = <<t, n>> <=> l[2] = n
      BY <2>1, <2>3
    <3> QED BY <1>1, <2>3, <3>1, <3>2 DEF HasSaid
  <2> QED BY <2>2, <2>3
<1>5. HasSaid \subseteq Log!Lines /\ HasSaid' \subseteq Log!Lines
  BY DEF HasSaid, Log!Lines
<1>6. Before(HasSaid, {<<t, n>>})
  <2> SUFFICES ASSUME NEW l \in HasSaid, l[1] = t
               PROVE  l[2] < n
    BY DEF Before, Earlier
  <2>1. l[2] <= n - 1 /\ l[2] \in 1..MaxLog
    BY <1>1, <1>2 DEF HasSaid
  <2> QED BY <1>1, <2>1, ProgramsAssumption
<1> QED BY <1>3, <1>4, <1>5, <1>6 DEF n

\* Log(): to the console, to the queue, or to a new one.
LEMMA LogStep ==
  ASSUME LogInv, LogTypes', NEW t \in Threads, Log!Log(t)
  PROVE  OnePlace' /\ Ordered'
<1>1. LogTypes /\ OnePlace /\ Ordered /\ \A l, m : Earlier(l, m) <=> (l[1] = m[1] => l[2] < m[2])
  BY DEF LogInv, Earlier
<1>2. PICK x, i : x = <<t, logged[t] + 1>> /\ i = mine[t]
  OBVIOUS
<1>3. /\ x \in Log!Lines /\ x \notin HasSaid /\ HasSaid' = HasSaid \cup {x}
      /\ Before(HasSaid, {x}) /\ i \in Log!Instances /\ i <= made
  <2>1. phase[t] = "logging" /\ logged' = [logged EXCEPT ![t] = @ + 1]
    BY <1>2 DEF Log!Log
  <2>2. logged[t] < MaxLog
    BY <1>1, <2>1 DEF LogTypes
  <2>3. i \in Log!Instances /\ i <= made
    BY <1>1, <1>2, <2>1, InstancesAre
  <2> QED BY <1>1, <1>2, <2>1, <2>2, <2>3, NewLine
<1>4. /\ UNCHANGED <<loggerType, dead, made, strays>> /\ dead = FALSE
      /\ \/ Log!LogToConsole(x) \/ Log!Write(i, x) \/ Log!WriteOnNewDay(i, x)
  BY <1>2 DEF Log!Log, Log!netVars, LogTypes
<1>5. /\ output \in Seq(Log!Lines) /\ \A j \in Log!Instances : queue_[j] \in Seq(Log!Lines)
      /\ DOMAIN queue_ = Log!Instances
      /\ x \notin Written /\ \A j \in Log!Instances : x \notin Queued(j)
      /\ Before(Written, {x}) /\ \A j \in Log!Instances : Before(Queued(j), {x})
  BY <1>1, <1>3 DEF LogTypes, OnePlace, Before
<1>6. CASE Log!LogToConsole(x)
  <2>1. /\ loggerType = "" /\ output' = Append(output, x)
        /\ UNCHANGED <<queue_, lost>> /\ UNCHANGED Gone
    BY <1>4, <1>6 DEF Log!LogToConsole, Gone
  <2>2. /\ Written' = Written \cup {x} /\ Distinct(output')
        /\ InOrder(output) => InOrder(output')
    BY <1>1, <1>3, <1>5, <2>1, LogQueueGrows DEF Written, Ordered
  <2>3. \A j \in Log!Instances : Queued(j)' = Queued(j) /\ Queued(j) = {}
    <3>1. \A j \in Log!Instances : queue_[j] = <<>>
      BY <1>1, <2>1 DEF LogTypes
    <3>2. Log!RangeOf(<<>>) = {}
      BY DEF Log!RangeOf
    <3> QED BY <2>1, <3>1, <3>2 DEF Queued
  <2>4. OnePlace'
    <3>1. x \notin Gone /\ \A j \in Log!Instances : Queued(j)' = {}
      BY <1>1, <1>3, <2>3 DEF OnePlace
    <3>2. \A l \in HasSaid' : l \in Written' \cup Gone'
      BY <1>1, <1>3, <1>4, <2>1, <2>2, <2>3 DEF OnePlace
    <3>3. Written' \cap Gone' = {} /\ Written' \cup Gone' \subseteq HasSaid'
      BY <1>1, <1>3, <2>1, <2>2, <3>1 DEF OnePlace
    <3> QED BY <3>1, <3>2, <3>3 DEF OnePlace
  <2> QED BY <1>1, <1>4, <2>1, <2>2, <2>3, <2>4 DEF Ordered, Before
<1>7. CASE Log!Write(i, x)
  <2>1. /\ queue_' = [queue_ EXCEPT ![i] = Append(@, x)]
        /\ UNCHANGED <<output, lost>> /\ UNCHANGED <<Gone, Written>>
    BY <1>4, <1>7 DEF Log!Write, Gone, Written
  <2>2. \A j \in Log!Instances :
          /\ Queued(j)' = IF j = i THEN Queued(j) \cup {x} ELSE Queued(j)
          /\ Distinct(queue_'[j]) /\ InOrder(queue_'[j])
    BY <1>1, <1>3, <1>5, <2>1, LogQueueGrows DEF Queued, Ordered
  <2>3. OnePlace'
    <3>1. x \notin Gone
      BY <1>1, <1>3 DEF OnePlace
    <3>2. \A l \in HasSaid' : l \in Written' \cup Gone' \/ \E j \in Log!Instances : l \in Queued(j)'
      BY <1>1, <1>3, <1>4, <2>1, <2>2 DEF OnePlace
    <3>3. Written' \cap Gone' = {} /\ Written' \cup Gone' \subseteq HasSaid'
      BY <1>1, <1>3, <2>1 DEF OnePlace
    <3>4. \A j \in Log!Instances :
            Queued(j)' \cap (Written' \cup Gone') = {} /\ Queued(j)' \subseteq HasSaid'
      BY <1>1, <1>3, <1>5, <2>1, <2>2, <3>1 DEF OnePlace
    <3>5. \A j, k \in Log!Instances : j # k => Queued(j)' \cap Queued(k)' = {}
      BY <1>1, <1>5, <2>2 DEF OnePlace
    <3> QED BY <3>2, <3>3, <3>4, <3>5 DEF OnePlace
  <2> QED BY <1>1, <1>4, <1>5, <2>1, <2>2, <2>3 DEF Ordered, Before
<1>8. CASE Log!WriteOnNewDay(i, x)
  <2>1. /\ queue_' = [queue_ EXCEPT ![i] = <<x>>] /\ lost' = lost \cup Queued(i)
        /\ UNCHANGED output /\ UNCHANGED Written /\ Gone' = Gone \cup Queued(i)
    BY <1>4, <1>8 DEF Log!WriteOnNewDay, Gone, Written, Queued
  <2>2. Log!RangeOf(<<x>>) = {x} /\ Distinct(<<x>>) /\ InOrder(<<x>>)
    BY DEF Log!RangeOf, Distinct, InOrder
  <2>3. \A j \in Log!Instances :
          /\ Queued(j)' = IF j = i THEN {x} ELSE Queued(j)
          /\ Distinct(queue_'[j]) /\ InOrder(queue_'[j])
    BY <1>1, <1>3, <1>5, <2>1, <2>2 DEF Queued, Ordered
  <2>4. OnePlace'
    <3>1. x \notin Gone'
      BY <1>1, <1>3, <1>5, <2>1 DEF OnePlace
    <3>2. \A l \in HasSaid' : l \in Written' \cup Gone' \/ \E j \in Log!Instances : l \in Queued(j)'
      BY <1>1, <1>3, <1>4, <2>1, <2>3 DEF OnePlace
    <3>3. Written' \cap Gone' = {} /\ Written' \cup Gone' \subseteq HasSaid'
      BY <1>1, <1>3, <2>1 DEF OnePlace
    <3>4. \A j \in Log!Instances :
            Queued(j)' \cap (Written' \cup Gone') = {} /\ Queued(j)' \subseteq HasSaid'
      BY <1>1, <1>3, <1>5, <2>1, <2>3, <3>1 DEF OnePlace
    <3>5. \A j, k \in Log!Instances : j # k => Queued(j)' \cap Queued(k)' = {}
      BY <1>1, <1>5, <2>3 DEF OnePlace
    <3> QED BY <3>2, <3>3, <3>4, <3>5 DEF OnePlace
  <2> QED BY <1>1, <1>4, <1>5, <2>1, <2>3, <2>4 DEF Ordered, Before
<1> QED BY <1>4, <1>6, <1>7, <1>8

\* Flush(): the head of the queue is written, or lost, or the end of the process.
LEMMA FlushStep ==
  ASSUME LogInv, LogTypes', NEW i \in Log!Instances, Log!Flush(i)
  PROVE  OnePlace' /\ Ordered'
<1>1. LogTypes /\ OnePlace /\ Ordered
  BY DEF LogInv
<1>2. PICK q, h, r : q = queue_[i] /\ h = Head(q) /\ r = Tail(q)
  OBVIOUS
<1>3. /\ q # <<>> /\ queue_' = [queue_ EXCEPT ![i] = r] /\ ~dead
      /\ UNCHANGED <<loggerType, made, logged>> /\ UNCHANGED HasSaid
      /\ Log!WriteToMedia(i, h)
  BY <1>2 DEF Log!Flush, Log!threadVars, HasSaid
<1>4. /\ output \in Seq(Log!Lines) /\ q \in Seq(Log!Lines) /\ DOMAIN queue_ = Log!Instances
      /\ Distinct(q) /\ InOrder(q)
  BY <1>1, <1>2 DEF LogTypes, Ordered
<1>5. /\ h \in Log!Lines /\ Queued(i) = {h} \cup Log!RangeOf(r) /\ h \notin Log!RangeOf(r)
      /\ Distinct(r) /\ InOrder(r) /\ Before({h}, Log!RangeOf(r))
  BY <1>2, <1>3, <1>4, LogQueueShrinks DEF Queued
<1>6. \A j \in Log!Instances : /\ Queued(j)' = IF j = i THEN Log!RangeOf(r) ELSE Queued(j)
                               /\ Distinct(queue_'[j]) /\ InOrder(queue_'[j])
  BY <1>1, <1>3, <1>4, <1>5 DEF Queued, Ordered
<1>7. /\ h \in Queued(i) /\ h \in HasSaid
      /\ h \notin Written /\ h \notin Gone /\ \A j \in Log!Instances : h \notin Queued(j)'
  BY <1>1, <1>5, <1>6 DEF OnePlace
<1>8. made <= 1 => \A j \in Log!Instances : j # i => Queued(j) = {}
  <2> SUFFICES ASSUME made <= 1, NEW j \in Log!Instances, j # i, queue_[j] # <<>>
               PROVE  FALSE
    BY DEF Queued, Log!RangeOf
  <2>1. j <= made /\ i <= made
    BY <1>1, <1>2, <1>3 DEF LogTypes
  <2>2. i \in Nat \ {0} /\ j \in Nat \ {0} /\ made \in Nat
    BY <1>1, InstancesAre
  <2> QED BY <2>1, <2>2
<1>9. CASE output' = Append(output, h) /\ UNCHANGED <<dead, lost, strays>>
  <2>1. made <= 1 /\ InOrder(output) => InOrder(output')
    <3>1. made <= 1 => Before(Written, {h})
      BY <1>1, <1>5 DEF Ordered, Before
    <3> QED BY <1>4, <1>5, <1>9, <3>1, LogQueueGrows DEF Written
  <2>2. Written' = Written \cup {h} /\ Distinct(output') /\ UNCHANGED Gone
    BY <1>1, <1>4, <1>5, <1>7, <1>9, LogQueueGrows DEF Written, Ordered, Gone
  <2>3. OnePlace'
    BY <1>1, <1>3, <1>5, <1>6, <1>7, <1>9, <2>2 DEF OnePlace
  <2>4. made <= 1 => \A j \in Log!Instances : Before(Written', Queued(j)')
    BY <1>1, <1>5, <1>6, <1>8, <2>2 DEF Ordered, Before
  <2> QED BY <1>1, <1>3, <1>6, <2>1, <2>2, <2>3, <2>4 DEF Ordered
<1>10. CASE Gone' = Gone \cup {h} /\ UNCHANGED <<dead, output>>
  <2>1. UNCHANGED Written
    BY <1>10 DEF Written
  <2>2. OnePlace'
    BY <1>1, <1>3, <1>5, <1>6, <1>7, <1>10, <2>1 DEF OnePlace
  <2> QED BY <1>1, <1>3, <1>5, <1>6, <1>10, <2>1, <2>2 DEF Ordered, Before
<1>11. CASE loggerType = "NET" /\ dead' = TRUE /\ UNCHANGED <<output, lost, strays>>
  <2>1. UNCHANGED <<Written, Gone>>
    BY <1>11 DEF Written, Gone
  <2>2. OnePlace'
    BY <1>1, <1>3, <1>5, <1>6, <1>7, <1>11, <2>1 DEF OnePlace
  <2> QED BY <1>1, <1>3, <1>5, <1>6, <1>11, <2>1, <2>2 DEF Ordered, Before
<1> QED BY <1>3, <1>9, <1>10, <1>11
        DEF Log!WriteToMedia, Log!WriteFile, Log!InsertRow, Log!SendTcpMessage, Log!netVars, Gone

\* The other steps leave the lines where they are; Create() may make a second logger.
LEMMA LinesStep ==
  ASSUME LogInv, Log!Next
  PROVE  LogInv'
<1>1. LogTypes' /\ LogTypes /\ OnePlace /\ Ordered
  BY LogTypesStep DEF LogInv
<1>2. ASSUME UNCHANGED <<loggerType, logged, queue_, output, lost, strays>>, dead => dead',
             made <= made'
      PROVE  OnePlace' /\ Ordered'
  <2>1. /\ UNCHANGED <<Written, Gone, HasSaid>>
        /\ \A i \in Log!Instances : Queued(i)' = Queued(i)
    BY <1>2 DEF Written, Gone, HasSaid, Queued
  <2>2. made' <= 1 => made <= 1
    <3>1. made \in Nat /\ made' \in Nat
      BY <1>1 DEF LogTypes
    <3> QED BY <1>2, <3>1
  <2>3. OnePlace'
    BY <1>1, <1>2, <2>1 DEF OnePlace
  <2> QED BY <1>1, <1>2, <2>1, <2>2, <2>3 DEF Ordered
<1>3. made <= made /\ made <= made + 1 /\ (dead => dead)
  <2>1. made \in Nat
    BY <1>1 DEF LogTypes
  <2> QED BY <2>1
<1>4. ASSUME NEW t \in Threads, Log!GetInstance(t) \/ Log!Create(t) \/ Log!CreateThrows(t)
      PROVE  OnePlace' /\ Ordered'
  <2>1. /\ UNCHANGED <<loggerType, logged, queue_, output, lost, strays>>
        /\ dead' = TRUE \/ dead' = dead
        /\ made' = made \/ made' = made + 1
    BY <1>4 DEF Log!GetInstance, Log!Create, Log!CreateThrows, Log!threadVars, Log!netVars
  <2> QED BY <1>2, <1>3, <2>1
<1>5. ASSUME \/ \E i \in Log!Instances : Log!BeginFlush(i) \/ Log!EndFlush(i) \/ Log!LinkChanges(i)
             \/ Log!Midnight
      PROVE  OnePlace' /\ Ordered'
  <2>1. UNCHANGED <<loggerType, logged, queue_, output, lost, strays, dead, made>>
    BY <1>5 DEF Log!BeginFlush, Log!EndFlush, Log!LinkChanges, Log!Midnight, Log!threadVars,
                Log!netVars
  <2> QED BY <1>2, <1>3, <2>1
<1> QED BY <1>1, <1>4, <1>5, LogStep, FlushStep DEF LogInv, Log!Next, Log!LogWorker

\* A line that was logged is in one place, once, whatever the race in Logger::getInstance(),
\* midnight and the writers of src/protocol-server do; and the lines of a thread are written
\* in order as long as the race has made one logger.
THEOREM LinesHaveOnePlace == Spec => []LinesAreKept
<1> DEFINE LogI == program = "logger" => LogInv
<1>1. Init => LogI
  <2> SUFFICES ASSUME Log!Init
               PROVE  LogInv
    BY DEF Init
  <2>1. /\ dead = FALSE /\ instance = 0 /\ made = 0 /\ mine = [t \in Threads |-> 0]
        /\ phase = [t \in Threads |-> "idle"] /\ logged = [t \in Threads |-> 0]
        /\ queue_ = [i \in Log!Instances |-> <<>>] /\ output = <<>> /\ lost = {} /\ strays = {}
    BY DEF Log!Init, Log!NoLogger
  <2>2. {t \in Threads : mine[t] # 0} = {} /\ Cardinality({}) = 0
    BY <2>1, FS_EmptySet
  <2>3. LogTypes
    <3>1. 0 \in 0..MaxLog /\ 0 \in 0..0 /\ <<>> \in Seq(Log!Lines)
      BY ProgramsAssumption
    <3>2. made \in Nat /\ made <= Cardinality({t \in Threads : mine[t] # 0})
      <4>1. Cardinality({t \in Threads : mine[t] # 0}) = 0
        BY <2>2, Zenon
      <4> QED BY <2>1, <4>1
    <3> QED BY <2>1, <3>1, <3>2 DEF LogTypes
  <2>4. /\ Written = {} /\ Gone = {} /\ HasSaid = {} /\ \A i \in Log!Instances : Queued(i) = {}
    BY <2>1, ProgramsAssumption DEF Written, Gone, HasSaid, Queued, Log!RangeOf, Log!Lines
  <2>5. OnePlace
    BY <2>4 DEF OnePlace
  <2>6. Ordered
    BY <2>1, <2>4 DEF Ordered, Distinct, InOrder, Before
  <2> QED BY <2>3, <2>5, <2>6 DEF LogInv
<1>2. LogI /\ [Next]_vars => LogI'
  <2> SUFFICES ASSUME LogI, [Next]_vars, program' = "logger"
               PROVE  LogInv'
    OBVIOUS
  <2>1. program = "logger" /\ LogInv /\ (Log!Next \/ UNCHANGED logVars)
    BY StepIsOwn
  <2>2. CASE UNCHANGED logVars
    BY <2>1, <2>2 DEF LogInv, LogTypes, OnePlace, Ordered, Written, Gone, HasSaid, Queued, logVars
  <2> QED BY <2>1, <2>2, LinesStep
<1>3. LogI => LinesAreKept
  <2> SUFFICES ASSUME LogInv
               PROVE  Log!LinesAreKept
    BY DEF LinesAreKept
  <2>1. LogTypes /\ OnePlace /\ Ordered
    BY DEF LogInv
  <2>2. \A S : Log!Cardinality(S) = Cardinality(S)
    BY Zenon DEF Log!Cardinality, Cardinality
  <2>3. Log!TypeOK
    <3>1. Log!RangeOf(output) \cup lost \cup strays \subseteq Log!Lines
      BY <2>1 DEF OnePlace, Written, Gone, HasSaid
    <3>2. made \in 0..Log!Cardinality(Threads)
      BY <2>1, <2>2, InstancesAre
    <3> QED BY <2>1, <3>1, <3>2 DEF LogTypes, Log!TypeOK
  <2>4. ASSUME NEW t \in Threads, NEW n \in 1..logged[t], ~ (dead /\ loggerType = "NET"),
               NEW queues, queues = {i \in Log!Instances : <<t, n>> \in Log!RangeOf(queue_[i])},
               NEW times, times = {k \in DOMAIN output : output[k] = <<t, n>>},
               NEW gone, gone = {<<t, n>>} \cap (lost \cup strays)
        PROVE  Log!Cardinality(queues) + Log!Cardinality(times) + Log!Cardinality(gone) = 1
    <3>1. <<t, n>> \in HasSaid
      <4>1. MaxLog \in Nat /\ logged[t] \in 0..MaxLog
        BY <2>1, ProgramsAssumption DEF LogTypes
      <4>2. n \in 1..MaxLog /\ n <= logged[t]
        BY <4>1
      <4> QED BY <4>2 DEF HasSaid, Log!Lines
    <3>2. \/ \E i \in Log!Instances : queues = {i} /\ times = {} /\ gone = {}
          \/ \E k \in DOMAIN output : times = {k} /\ queues = {} /\ gone = {}
          \/ gone = {<<t, n>>} /\ queues = {} /\ times = {}
      <4> DEFINE l == <<t, n>>
      <4>1. /\ queues = {i \in Log!Instances : l \in Queued(i)}
            /\ times = {k \in DOMAIN output : output[k] = l}
            /\ gone = {l} \cap Gone
            /\ l \in Written <=> \E k \in DOMAIN output : output[k] = l
            /\ \A j, k \in DOMAIN output : output[j] = l /\ output[k] = l => j = k
        BY <2>1, <2>4 DEF Queued, Gone, Written, Log!RangeOf, Ordered, Distinct
      <4> HIDE DEF l
      <4>2. l \in Written \/ l \in Gone \/ \E i \in Log!Instances : l \in Queued(i)
        BY <2>1, <2>4, <3>1 DEF OnePlace, l
      <4>3. CASE l \in Written
        BY <2>1, <4>1, <4>3 DEF OnePlace
      <4>4. CASE l \in Gone
        BY <2>1, <4>1, <4>4 DEF OnePlace, l
      <4>5. ASSUME NEW i \in Log!Instances, l \in Queued(i)
            PROVE  queues = {i} /\ times = {} /\ gone = {}
        BY <2>1, <4>1, <4>5 DEF OnePlace
      <4> QED BY <4>2, <4>3, <4>4, <4>5
    <3>3. Cardinality({}) = 0 /\ \A a : Cardinality({a}) = 1
      BY FS_EmptySet, FS_Singleton
    <3>4. Cardinality(queues) + Cardinality(times) + Cardinality(gone) = 1
      <4>1. \/ Cardinality(queues) = 1 /\ Cardinality(times) = 0 /\ Cardinality(gone) = 0
            \/ Cardinality(queues) = 0 /\ Cardinality(times) = 1 /\ Cardinality(gone) = 0
            \/ Cardinality(queues) = 0 /\ Cardinality(times) = 0 /\ Cardinality(gone) = 1
        BY <3>2, <3>3, Zenon
      <4> QED BY <4>1
    <3> QED BY <2>2, <3>4
  <2>5. made <= 1 => \A j, k \in DOMAIN output :
                       j < k /\ output[j][1] = output[k][1] => output[j][2] < output[k][2]
    BY <2>1 DEF Ordered, InOrder, Earlier
  <2> QED BY <2>3, <2>4, <2>5 DEF Log!LinesAreKept
<1> QED BY <1>1, <1>2, <1>3, PTL DEF Spec
=============================================================================
