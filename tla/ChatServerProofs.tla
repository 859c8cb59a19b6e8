--------------------------- MODULE ChatServerProofs ---------------------------
(***************************************************************************)
(* Proofs that the chat server's maps agree and that a message is relayed  *)
(* at most once and in order, for any number of clients and slots.         *)
(***************************************************************************)
EXTENDS ChatServerProps, FiniteSetTheorems, SequenceTheorems, WellFoundedInduction, TLAPS

(***************************************************************************)
(* A client connects once: it waits in one place of the backlog, then sits *)
(* in one slot, then in none.                                              *)
(***************************************************************************)
Seats ==
  /\ \A s, t \in Slots : slot[s] = slot[t] /\ slot[s] # None => s = t
  /\ \A s \in Slots : slot[s] # None => link[slot[s]] # "none"
  /\ \A k \in 1..Len(backlog) : /\ link[backlog[k]] # "none"
                                /\ \A s \in Slots : slot[s] # backlog[k]
  /\ \A k, l \in 1..Len(backlog) : backlog[k] = backlog[l] => k = l

\* Of any two clients in slots, each has a partner.
Paired ==
  \A s, t \in Slots : slot[s] # None /\ slot[t] # None /\ s # t => partner[slot[s]] # None

(***************************************************************************)
(* What select() has returned: whoever it found had been accepted before,  *)
(* so that the connection accepted in this turn is not among them, and     *)
(* whoever is still to be written to has a message.                        *)
(***************************************************************************)
Snapshot ==
  /\ accepting /\ pc = "accept" => backlog # <<>>
  /\ \A c \in writable : link[c] # "none" /\ \A k \in 1..Len(backlog) : backlog[k] # c
  /\ pc = "accept" => \A s \in Slots : slot[s] \in writable => outgoing[slot[s]] # None
  /\ WritableHasMessage

(***************************************************************************)
(* The messages of one client are numbered in the order in which they were *)
(* sent, and each place that they go through is behind the one before it.  *)
(***************************************************************************)
Unread ==
  \A c \in Clients :
    /\ \A k \in 1..Len(inbound[c]) :
         inbound[c][k].from = c /\ inbound[c][k].n > 0 /\ inbound[c][k].n <= sent[c]
    /\ \A k, l \in 1..Len(inbound[c]) : k < l => inbound[c][k].n < inbound[c][l].n

\* Message m was sent, and is older than what its client has sent and nobody has read.
Passed(m) == /\ m.n <= sent[m.from]
             /\ \A k \in 1..Len(inbound[m.from]) : m.n < inbound[m.from][k].n

\* Message m is newer than what client d has received from the same client.
IsNews(m, d) ==
  \A j \in 1..Len(delivered[d]) :
    delivered[d][j].from = m.from /\ m.n # 0 => delivered[d][j].n < m.n

Queued == \A d \in Clients : outgoing[d] # None => Passed(outgoing[d]) /\ IsNews(outgoing[d], d)

Received == /\ \A d \in Clients : \A j \in 1..Len(delivered[d]) : Passed(delivered[d][j])
            /\ InOrderOnce

IInv == TypeOK /\ Seats /\ Paired /\ Snapshot /\ Unread /\ Queued /\ Received

----------------------------------------------------------------------------
(***************************************************************************)
(* Queues, and the first of several slots                                  *)
(***************************************************************************)

LEMMA Appended ==
  ASSUME NEW S, NEW q \in Seq(S), NEW x \in S
  PROVE  /\ Append(q, x) \in Seq(S)
         /\ Len(q) \in Nat /\ Len(Append(q, x)) = Len(q) + 1
         /\ \A k \in 1..Len(Append(q, x)) :
              \/ k \in 1..Len(q) /\ Append(q, x)[k] = q[k]
              \/ k = Len(q) + 1 /\ Append(q, x)[k] = x
         /\ \A k \in 1..Len(q) : Append(q, x)[k] = q[k]
<1>1. /\ Append(q, x) \in Seq(S)
      /\ Len(Append(q, x)) = Len(q) + 1
      /\ \A k \in 1..Len(q) : Append(q, x)[k] = q[k]
      /\ Append(q, x)[Len(q) + 1] = x
  BY AppendProperties
<1>2. Len(q) \in Nat
  BY LenProperties
<1> QED BY <1>1, <1>2

LEMMA Beheaded ==
  ASSUME NEW S, NEW q \in Seq(S), q # <<>>
  PROVE  /\ Tail(q) \in Seq(S)
         /\ Len(q) \in Nat /\ Len(Tail(q)) \in Nat
         /\ 1 \in 1..Len(q) /\ Head(q) = q[1] /\ Head(q) \in S
         /\ \A k \in 1..Len(Tail(q)) : k + 1 \in 1..Len(q) /\ Tail(q)[k] = q[k + 1]
<1>1. /\ Tail(q) \in Seq(S) /\ Len(Tail(q)) = Len(q) - 1
      /\ \A k \in 1..Len(Tail(q)) : Tail(q)[k] = q[k + 1]
      /\ Head(q) = q[1]
  BY HeadTailProperties
<1>2. Len(q) \in Nat /\ Len(q) # 0
  BY LenProperties, EmptySeq
<1>3. q[1] \in S
  BY <1>2, ElementOfSeq
<1> QED BY <1>1, <1>2, <1>3

LEMMA MinIsElement ==
  ASSUME NEW S \in SUBSET Slots, S # {}
  PROVE  Min(S) \in S
<1>1. S \subseteq Nat
  BY ChatAssumption DEF Slots
<1>2. PICK x \in S : \A y \in S : <<y, x>> \notin OpToRel(<, Nat)
  BY <1>1, NatLessThanWellFounded, WFMin, Zenon
<1>3. \A y \in S : ~(y < x)
  BY <1>1, <1>2 DEF OpToRel
<1>4. \E z \in S : \A y \in S : z <= y
  BY <1>1, <1>3
<1> QED BY <1>4 DEF Min

----------------------------------------------------------------------------
(***************************************************************************)
(* What the steps do to the maps                                           *)
(***************************************************************************)

LEMMA Enqueued ==
  ASSUME TypeOK, NEW c \in Clients, NEW m \in Messages, Enqueue(c, m)
  PROVE  /\ outgoing' \in [Clients -> Messages \cup {None}]
         /\ \A d \in Clients : \/ outgoing'[d] = outgoing[d]
                               \/ outgoing[d] = None /\ outgoing'[d] = m
BY DEF TypeOK, Enqueue, Insert

\* Whom Accept seats, and where: the first free slot.
LEMMA Accepted ==
  ASSUME TypeOK, Seats, Snapshot, Accept
  PROVE  LET c == Head(backlog) IN
         /\ backlog # <<>> /\ c \in Clients
         /\ \/ UNCHANGED <<slot, partner, link>>
            \/ \E s \in Slots : /\ slot[s] = None
                                /\ slot' = [slot EXCEPT ![s] = c]
                                /\ Pair(c, s)
                                /\ link' = AfterSend(c)
<1> DEFINE c == Head(backlog)
<1>1. backlog # <<>> /\ c \in Clients
  BY Beheaded DEF TypeOK, Snapshot, Accept
<1>2. CASE FreeSlots = {}
  BY <1>1, <1>2 DEF Accept, slotVars
<1>3. CASE FreeSlots # {}
  <2>1. Min(FreeSlots) \in FreeSlots
    BY <1>3, MinIsElement DEF FreeSlots
  <2>2. Min(FreeSlots) \in Slots /\ slot[Min(FreeSlots)] = None
    BY <2>1 DEF FreeSlots
  <2>3. /\ slot' = [slot EXCEPT ![Min(FreeSlots)] = c]
        /\ Pair(c, Min(FreeSlots))
        /\ link' = AfterSend(c)
    BY <1>3 DEF Accept
  <2> QED BY <1>1, <2>2, <2>3
<1> QED BY <1>1, <1>2, <1>3

\* Pairing erases no entry, and leaves the newcomer and the first other with one.
LEMMA PairedUp ==
  ASSUME TypeOK, NEW c \in Clients, NEW s \in Slots, Pair(c, s)
  PROVE  /\ partner' \in [Clients -> Clients \cup {None}]
         /\ \A d \in Clients : partner[d] # None => partner'[d] = partner[d]
         /\ \/ \A t \in Slots \ {s} : slot[t] = None
            \/ \E t \in Slots \ {s} :
                 slot[t] # None /\ partner'[c] # None /\ partner'[slot[t]] # None
<1> DEFINE others == {t \in Slots \ {s} : slot[t] # None}
<1>1. CASE others = {}
  BY <1>1 DEF Pair, TypeOK
<1>2. CASE others # {}
  <2>1. PICK t : t = Min(others)
    OBVIOUS
  <2>2. t \in others
    BY <1>2, <2>1, MinIsElement
  <2>3. PICK d : d = slot[t]
    OBVIOUS
  <2>4. d \in Clients /\ d # None /\ c # None
    BY <2>2, <2>3, ChatAssumption DEF TypeOK
  <2>5. partner' = Insert(Insert(partner, c, d), d, c)
    BY <1>2, <2>1, <2>3 DEF Pair
  <2>6. PICK p : p = Insert(partner, c, d)
    OBVIOUS
  <2>7. /\ p \in [Clients -> Clients \cup {None}]
        /\ p[c] # None
        /\ \A e \in Clients : partner[e] # None => p[e] = partner[e]
    BY <2>4, <2>6 DEF Insert, TypeOK
  <2>8. /\ partner' \in [Clients -> Clients \cup {None}]
        /\ partner'[d] # None
        /\ \A e \in Clients : p[e] # None => partner'[e] = p[e]
    BY <2>4, <2>5, <2>6, <2>7 DEF Insert
  <2> QED BY <2>2, <2>3, <2>7, <2>8
<1> QED BY <1>1, <1>2

\* What a turn of processRequest() reads from one slot.
LEMMA ReadCases ==
  ASSUME TypeOK, Read
  PROVE  \/ UNCHANGED <<slot, outgoing, link, inbound>>
         \/ \E c \in Clients : ReadMessage(c) \/ ReadError(c) \/ ReadEnd(c)
BY DEF Read, TypeOK

\* What it writes to one slot, where writefds is not stale.
LEMMA WriteCases ==
  ASSUME TypeOK, Snapshot, Write
  PROVE  /\ i' \in Slots
         /\ \/ UNCHANGED <<outgoing, link, delivered>>
            \/ \E c \in Clients :
                 c = slot[i] /\ outgoing[c] # None /\ outgoing[c] \in Messages /\ WriteMessage(c)
<1>1. i' \in Slots
  BY ChatAssumption DEF Write, WriteMessage, WriteKills, Advance, TypeOK, Slots
<1>2. CASE slot[i] \in writable
  <2>1. slot[i] \in Clients /\ outgoing[slot[i]] # None
    BY <1>2 DEF TypeOK, Snapshot, WritableHasMessage, Write, Slots
  <2>2. outgoing[slot[i]] \in Messages
    BY <2>1 DEF TypeOK
  <2> QED BY <1>1, <1>2, <2>1, <2>2 DEF Write, WriteKills
<1>3. CASE slot[i] \notin writable
  BY <1>1, <1>3 DEF Write
<1> QED BY <1>2, <1>3

----------------------------------------------------------------------------
(***************************************************************************)
(* The types                                                               *)
(***************************************************************************)

LEMMA ClientTypes ==
  ASSUME TypeOK, NEW c \in Clients, Connect(c) \/ Say(c) \/ Vanish(c)
  PROVE  TypeOK'
<1>1. CASE Connect(c)
  <2>1. backlog' \in Seq(Clients)
    BY <1>1, Appended DEF Connect, TypeOK
  <2>2. link' \in [Clients -> Links]
    BY <1>1 DEF Connect, TypeOK, Links
  <2> QED BY <1>1, <2>1, <2>2 DEF Connect, TypeOK, slotVars, selectVars
<1>2. CASE Say(c)
  <2>1. sent[c] + 1 \in 0..MaxMessages
    BY <1>2, ChatAssumption DEF Say, TypeOK
  <2>2. [from |-> c, n |-> sent[c] + 1] \in Messages
    BY <2>1 DEF Messages
  <2>3. Append(inbound[c], [from |-> c, n |-> sent[c] + 1]) \in Seq(Messages)
    BY <2>2, Appended DEF TypeOK
  <2>4. inbound' \in [Clients -> Seq(Messages)] /\ sent' \in [Clients -> 0..MaxMessages]
    BY <1>2, <2>1, <2>3 DEF Say, TypeOK
  <2> QED BY <1>2, <2>4 DEF Say, TypeOK, slotVars, selectVars
<1>3. CASE Vanish(c)
  <2>1. link' \in [Clients -> Links]
    BY <1>3 DEF Vanish, TypeOK, Links
  <2> QED BY <1>3, <2>1 DEF Vanish, TypeOK, slotVars, selectVars, clientVars
<1> QED BY <1>1, <1>2, <1>3

LEMMA AcceptTypes ==
  ASSUME TypeOK, Seats, Snapshot, Accept
  PROVE  TypeOK'
<1>1. backlog # <<>> /\ backlog' \in Seq(Clients)
  BY Accepted, Beheaded DEF Accept, TypeOK
<1>2. pc' = "read" /\ i' \in Slots
  BY ChatAssumption DEF Accept, Slots
<1>3. /\ slot' \in [Slots -> Clients \cup {None}]
      /\ partner' \in [Clients -> Clients \cup {None}]
      /\ link' \in [Clients -> Links]
  <2>1. PICK c : c = Head(backlog) /\ c \in Clients
    BY Accepted
  <2>2. CASE UNCHANGED <<slot, partner, link>>
    BY <2>2 DEF TypeOK
  <2>3. ASSUME NEW s \in Slots, slot' = [slot EXCEPT ![s] = c], Pair(c, s), link' = AfterSend(c)
        PROVE  <1>3!1 /\ <1>3!2 /\ <1>3!3
    <3>1. slot' \in [Slots -> Clients \cup {None}]
      BY <2>1, <2>3 DEF TypeOK
    <3>2. partner' \in [Clients -> Clients \cup {None}]
      BY <2>1, <2>3, PairedUp
    <3>3. link' \in [Clients -> Links]
      BY <2>1, <2>3 DEF TypeOK, AfterSend, Links
    <3> QED BY <3>1, <3>2, <3>3
  <2> QED BY <2>1, <2>2, <2>3, Accepted
<1> QED BY <1>1, <1>2, <1>3 DEF Accept, TypeOK, selectVars

LEMMA ReadTypes ==
  ASSUME TypeOK, Read
  PROVE  TypeOK'
<1>1. pc' = "write" /\ UNCHANGED <<partner, i, selectVars, clientVars, delivered>>
  BY DEF Read
<1>2. /\ slot' \in [Slots -> Clients \cup {None}]
      /\ outgoing' \in [Clients -> Messages \cup {None}]
      /\ link' \in [Clients -> Links]
      /\ inbound' \in [Clients -> Seq(Messages)]
  <2>1. CASE UNCHANGED <<slot, outgoing, link, inbound>>
    BY <2>1 DEF TypeOK
  <2>2. ASSUME NEW c \in Clients, ReadMessage(c) PROVE <1>2!1 /\ <1>2!2 /\ <1>2!3 /\ <1>2!4
    <3>1. Head(inbound[c]) \in Messages /\ Tail(inbound[c]) \in Seq(Messages)
      BY <2>2, Beheaded DEF ReadMessage, TypeOK
    <3>2. outgoing' \in [Clients -> Messages \cup {None}]
      BY <2>2, <3>1, Enqueued DEF ReadMessage
    <3> QED BY <2>2, <3>1, <3>2 DEF ReadMessage, TypeOK
  <2>3. ASSUME NEW c \in Clients, ReadError(c) PROVE <1>2!1 /\ <1>2!2 /\ <1>2!3 /\ <1>2!4
    <3>1. [from |-> c, n |-> 0] \in Messages
      BY ChatAssumption DEF Messages
    <3>2. outgoing' \in [Clients -> Messages \cup {None}]
      BY <2>3, <3>1, Enqueued DEF ReadError
    <3> QED BY <2>3, <3>2 DEF ReadError, TypeOK, Links
  <2>4. ASSUME NEW c \in Clients, ReadEnd(c) PROVE <1>2!1 /\ <1>2!2 /\ <1>2!3 /\ <1>2!4
    BY <2>4 DEF ReadEnd, TypeOK
  <2> QED BY <2>1, <2>2, <2>3, <2>4, ReadCases
<1> QED BY <1>1, <1>2 DEF TypeOK, selectVars, clientVars

LEMMA WriteTypes ==
  ASSUME TypeOK, Snapshot, Write
  PROVE  TypeOK'
<1>1. pc' \in {"read", "select", "killed", "write"}
  BY DEF Write, WriteMessage, WriteKills, Advance
<1>2. /\ outgoing' \in [Clients -> Messages \cup {None}]
      /\ link' \in [Clients -> Links]
      /\ delivered' \in [Clients -> Seq(Messages)]
  <2>1. CASE UNCHANGED <<outgoing, link, delivered>>
    BY <2>1 DEF TypeOK
  <2>2. ASSUME NEW c \in Clients, outgoing[c] \in Messages, WriteMessage(c)
        PROVE  <1>2!1 /\ <1>2!2 /\ <1>2!3
    <3>1. Append(delivered[c], outgoing[c]) \in Seq(Messages)
      BY <2>2, Appended DEF TypeOK
    <3> QED BY <2>2, <3>1 DEF WriteMessage, AfterSend, TypeOK, Links
  <2> QED BY <2>1, <2>2, WriteCases
<1> QED BY <1>1, <1>2, WriteCases DEF Write, TypeOK, slotVars, selectVars, clientVars

LEMMA TypeStep ==
  ASSUME IInv, [Next]_vars
  PROVE  TypeOK'
<1> USE DEF IInv
<1>1. CASE UNCHANGED vars
  BY <1>1 DEF vars, TypeOK
<1>2. CASE Start
  BY <1>2 DEF Start, TypeOK, slotVars, selectVars, clientVars
<1>3. CASE Select
  <2>1. readable' \in SUBSET Clients /\ writable' \in SUBSET Clients /\ accepting' \in BOOLEAN
    BY <1>3 DEF Select, Connected
  <2> QED BY <1>3, <2>1 DEF Select, TypeOK, slotVars, clientVars
<1>4. CASE NoAccept
  BY <1>4, ChatAssumption DEF NoAccept, TypeOK, Slots, slotVars, selectVars, clientVars
<1> QED BY <1>1, <1>2, <1>3, <1>4, ClientTypes, AcceptTypes, ReadTypes, WriteTypes
        DEF Next, Server

----------------------------------------------------------------------------
(***************************************************************************)
(* Who sits where                                                          *)
(***************************************************************************)

\* A connection that has been made stays made.
LEMMA LinksStay ==
  ASSUME IInv, [Next]_vars
  PROVE  \A c \in Clients : link[c] # "none" => link'[c] # "none"
<1> USE DEF IInv, TypeOK
<1>1. CASE UNCHANGED vars
  BY <1>1 DEF vars
<1>2. ASSUME NEW c \in Clients, Connect(c) \/ Say(c) \/ Vanish(c)
      PROVE  \A d \in Clients : link[d] # "none" => link'[d] # "none"
  BY <1>2 DEF Connect, Say, Vanish
<1>3. CASE Start \/ Select \/ NoAccept
  BY <1>3 DEF Start, Select, NoAccept
<1>4. CASE Accept
  BY <1>4, Accepted DEF AfterSend
<1>5. CASE Read
  BY <1>5, ReadCases DEF ReadMessage, ReadError, ReadEnd
<1>6. CASE Write
  BY <1>6, WriteCases DEF WriteMessage, AfterSend
<1> QED BY <1>1, <1>2, <1>3, <1>4, <1>5, <1>6 DEF Next, Server

LEMMA SeatsStep ==
  ASSUME IInv, [Next]_vars
  PROVE  Seats'
<1> USE DEF IInv
<1>1. CASE UNCHANGED <<slot, backlog>>
  <2>1. \A s \in Slots : slot[s] # None => slot[s] \in Clients
    BY DEF TypeOK
  <2>2. \A k \in 1..Len(backlog) : backlog[k] \in Clients
    BY ElementOfSeq DEF TypeOK
  <2> QED BY <1>1, <2>1, <2>2, LinksStay DEF Seats
<1>2. ASSUME NEW c \in Clients, Connect(c)
      PROVE  Seats'
  <2>1. link[c] = "none" /\ link'[c] = "open" /\ UNCHANGED slot /\ backlog' = Append(backlog, c)
    BY <1>2 DEF Connect, TypeOK, slotVars
  <2>2. \A k \in 1..Len(backlog') : \/ k \in 1..Len(backlog) /\ backlog'[k] = backlog[k]
                                    \/ k = Len(backlog) + 1 /\ backlog'[k] = c
    BY <2>1, Appended DEF TypeOK
  <2>3. \A s \in Slots : slot[s] # None => slot[s] \in Clients /\ slot[s] # c
    BY <2>1 DEF TypeOK, Seats
  <2>4. \A k \in 1..Len(backlog) : backlog[k] \in Clients /\ backlog[k] # c
    BY <2>1, ElementOfSeq DEF TypeOK, Seats
  <2>5. c # None
    BY ChatAssumption
  <2>6. Seats!1' /\ Seats!2'
    BY <2>1, <2>3, LinksStay DEF Seats
  <2>7. Seats!3'
    BY <2>1, <2>2, <2>3, <2>4, <2>5, LinksStay DEF Seats
  <2>8. Seats!4'
    BY <2>2, <2>4 DEF Seats
  <2> QED BY <2>6, <2>7, <2>8 DEF Seats
<1>3. CASE Accept
  <2>1. PICK c : c = Head(backlog) /\ c \in Clients /\ backlog # <<>> /\ c # None
    BY <1>3, Accepted, ChatAssumption
  <2>2. /\ 1 \in 1..Len(backlog) /\ c = backlog[1]
        /\ \A k \in 1..Len(backlog') :
             k + 1 \in 1..Len(backlog) /\ k + 1 # 1 /\ backlog'[k] = backlog[k + 1]
    BY <1>3, <2>1, Beheaded DEF TypeOK, Accept
  <2>3. /\ \A k \in 1..Len(backlog') : /\ link[backlog'[k]] # "none" /\ backlog'[k] # c
                                       /\ backlog'[k] \in Clients
                                       /\ \A s \in Slots : slot[s] # backlog'[k]
        /\ \A k, l \in 1..Len(backlog') : backlog'[k] = backlog'[l] => k = l
    <3>1. \A k \in 1..Len(backlog) : backlog[k] \in Clients
      BY ElementOfSeq DEF TypeOK
    <3> QED BY <2>2, <3>1 DEF Seats
  <2>4. link[c] # "none" /\ \A s \in Slots : slot[s] # c
    BY <2>2 DEF Seats
  <2>5. \A s \in Slots : slot'[s] = slot[s] \/ slot'[s] = c
    BY <1>3, <2>1, Accepted DEF TypeOK
  <2>6. \A s, t \in Slots : slot'[s] = c /\ slot'[t] = c => s = t
    BY <1>3, <2>1, <2>4, Accepted DEF TypeOK
  <2>7. \A s \in Slots : slot[s] # None => slot[s] \in Clients
    BY DEF TypeOK
  <2>8. Seats!1'
    BY <2>1, <2>4, <2>5, <2>6 DEF Seats
  <2>9. Seats!2'
    BY <2>1, <2>4, <2>5, <2>7, LinksStay DEF Seats
  <2>10. Seats!3'
    BY <2>3, <2>5, LinksStay DEF Seats
  <2> QED BY <2>3, <2>8, <2>9, <2>10 DEF Seats
<1>4. CASE Read
  <2>1. backlog' = backlog
    BY <1>4 DEF Read, clientVars
  <2>2. \A s \in Slots : slot'[s] = slot[s] \/ slot'[s] = None
    BY <1>4, ReadCases DEF ReadMessage, ReadError, ReadEnd
  <2>3. /\ \A s \in Slots : slot[s] # None => slot[s] \in Clients
        /\ \A k \in 1..Len(backlog) : backlog[k] \in Clients /\ backlog[k] # None
    BY ElementOfSeq, ChatAssumption DEF TypeOK
  <2> QED BY <2>1, <2>2, <2>3, LinksStay DEF Seats
<1> QED BY <1>1, <1>2, <1>3, <1>4 DEF Next, Server, Say, Vanish, Start, Select, NoAccept, Write,
                                   slotVars, clientVars, vars

LEMMA PairedStep ==
  ASSUME IInv, [Next]_vars
  PROVE  Paired'
<1> USE DEF IInv
<1>1. CASE UNCHANGED <<slot, partner>>
  BY <1>1 DEF Paired
<1>2. CASE Accept
  <2>1. PICK c : c = Head(backlog) /\ c \in Clients /\ c # None
    BY <1>2, Accepted, ChatAssumption
  <2>2. ASSUME NEW s \in Slots, slot' = [slot EXCEPT ![s] = c], slot[s] = None, Pair(c, s)
        PROVE  Paired'
    <3>1. /\ \A d \in Clients : partner[d] # None => partner'[d] # None
          /\ \/ \A t \in Slots \ {s} : slot[t] = None
             \/ \E t \in Slots \ {s} :
                  slot[t] # None /\ partner'[c] # None /\ partner'[slot[t]] # None
      BY <2>1, <2>2, PairedUp
    <3>2. slot'[s] = c /\ \A t \in Slots \ {s} : slot'[t] = slot[t]
      BY <2>2 DEF TypeOK
    <3>3. \A t \in Slots : slot[t] # None => slot[t] \in Clients
      BY DEF TypeOK
    <3>4. CASE \A t \in Slots \ {s} : slot[t] = None
      BY <3>2, <3>4 DEF Paired
    <3>5. ASSUME NEW t \in Slots \ {s}, slot[t] # None, partner'[c] # None, partner'[slot[t]] # None
          PROVE  Paired'
      <4>1. \A u \in Slots \ {s, t} : slot[u] # None => partner'[slot[u]] # None
        BY <3>1, <3>3, <3>5 DEF Paired
      <4> QED BY <3>2, <3>5, <4>1 DEF Paired
    <3> QED BY <3>1, <3>4, <3>5
  <2> QED BY <1>1, <1>2, <2>1, <2>2, Accepted
<1>3. CASE Read
  <2>1. partner' = partner
    BY <1>3 DEF Read
  <2>2. \A s \in Slots : slot'[s] = slot[s] \/ slot'[s] = None
    BY <1>3, ReadCases DEF ReadMessage, ReadError, ReadEnd, TypeOK
  <2> QED BY <2>1, <2>2 DEF Paired
<1> QED BY <1>1, <1>2, <1>3 DEF Next, Server, Connect, Say, Vanish, Start, Select, NoAccept,
                                Write, slotVars, vars

----------------------------------------------------------------------------
(***************************************************************************)
(* What select() found                                                     *)
(***************************************************************************)

LEMMA BacklogStep ==
  ASSUME IInv, [Next]_vars
  PROVE  accepting' /\ pc' = "accept" => backlog' # <<>>
<1> USE DEF IInv, Snapshot
<1>1. ASSUME NEW c \in Clients, Connect(c)
      PROVE  backlog' # <<>>
  <2>1. backlog' = Append(backlog, c) /\ backlog \in Seq(Clients)
    BY <1>1 DEF Connect, TypeOK
  <2> QED BY <2>1, AppendProperties, EmptySeq, LenProperties
<1>2. CASE UNCHANGED <<accepting, pc, backlog>>
  BY <1>2
<1>3. CASE Start \/ Select \/ Accept \/ NoAccept \/ Read \/ Write
  BY <1>3 DEF Start, Select, Accept, NoAccept, Read, Write, WriteMessage, WriteKills, Advance,
              clientVars
<1> QED BY <1>1, <1>2, <1>3 DEF Next, Server, Say, Vanish, selectVars, clientVars, vars

LEMMA WritableStep ==
  ASSUME IInv, [Next]_vars
  PROVE  \A c \in writable' : link'[c] # "none" /\ \A k \in 1..Len(backlog') : backlog'[k] # c
<1> USE DEF IInv
<1>1. \A c \in writable : c \in Clients /\ link'[c] # "none"
  BY LinksStay DEF TypeOK, Snapshot
<1>2. CASE UNCHANGED <<writable, backlog>>
  BY <1>1, <1>2 DEF Snapshot
<1>3. CASE Select
  <2>1. ASSUME NEW c \in writable'
        PROVE  c \in Clients /\ \E s \in Slots : slot[s] = c
    BY <1>3 DEF Select, Connected
  <2>2. UNCHANGED <<backlog, link>>
    BY <1>3 DEF Select, clientVars
  <2> QED BY <2>1, <2>2, ChatAssumption DEF Seats
<1>4. ASSUME NEW d \in Clients, Connect(d)
      PROVE  \A c \in writable' :
               link'[c] # "none" /\ \A k \in 1..Len(backlog') : backlog'[k] # c
  <2>1. UNCHANGED writable /\ link[d] = "none"
    BY <1>4 DEF Connect, selectVars
  <2>2. \A k \in 1..Len(backlog') : \/ k \in 1..Len(backlog) /\ backlog'[k] = backlog[k]
                                    \/ backlog'[k] = d
    BY <1>4, Appended DEF TypeOK, Connect
  <2> QED BY <1>1, <2>1, <2>2 DEF Snapshot
<1>5. CASE Accept
  <2>1. UNCHANGED writable
    BY <1>5 DEF Accept, selectVars
  <2>2. \A k \in 1..Len(backlog') : k + 1 \in 1..Len(backlog) /\ backlog'[k] = backlog[k + 1]
    BY <1>5, Accepted, Beheaded DEF TypeOK, Accept
  <2> QED BY <1>1, <2>1, <2>2 DEF Snapshot
<1> QED BY <1>2, <1>3, <1>4, <1>5 DEF Next, Server, Say, Vanish, Start, NoAccept, Read, Write,
                                      selectVars, clientVars, vars

LEMMA WatchedStep ==
  ASSUME IInv, [Next]_vars
  PROVE  pc' = "accept" => \A s \in Slots : slot'[s] \in writable' => outgoing'[slot'[s]] # None
<1> USE DEF IInv, Snapshot
<1>1. CASE UNCHANGED <<pc, slot, writable, outgoing>>
  BY <1>1
<1>2. CASE Select
  BY <1>2 DEF Select, slotVars
<1>3. CASE pc' # "accept"
  BY <1>3
<1> QED BY <1>1, <1>2, <1>3 DEF Next, Server, Connect, Say, Vanish, Start, Accept, NoAccept,
                                Read, Write, WriteMessage, WriteKills, Advance,
                                slotVars, selectVars, vars

LEMMA WritableHasMessageStep ==
  ASSUME IInv, [Next]_vars
  PROVE  WritableHasMessage'
<1> USE DEF IInv, WritableHasMessage
<1>1. CASE UNCHANGED <<pc, i, slot, writable, outgoing>>
  BY <1>1 DEF Snapshot
<1>2. CASE Start \/ Select
  BY <1>2 DEF Start, Select
<1>3. CASE Accept
  <2>1. PICK c : c = Head(backlog) /\ c \in Clients /\ backlog # <<>>
    BY <1>3, Accepted
  <2>2. c \notin writable
    BY <2>1, Beheaded DEF Snapshot, TypeOK
  <2>3. \A s \in Slots : slot'[s] = slot[s] \/ slot'[s] = c
    BY <1>3, <2>1, Accepted DEF TypeOK
  <2>4. pc = "accept" /\ UNCHANGED <<writable, outgoing>>
    BY <1>3 DEF Accept, selectVars
  <2> QED BY <2>2, <2>3, <2>4 DEF Snapshot
<1>4. CASE NoAccept
  BY <1>4 DEF NoAccept, Snapshot, slotVars, selectVars
<1>5. CASE Read
  <2>1. \A s \in Slots : slot'[s] = slot[s] \/ slot'[s] = None
    BY <1>5, ReadCases DEF ReadMessage, ReadError, ReadEnd, TypeOK
  <2>2. \A d \in Clients : outgoing[d] # None => outgoing'[d] # None
    <3>1. CASE UNCHANGED outgoing
      BY <3>1
    <3>2. ASSUME NEW c \in Clients, NEW m, Enqueue(c, m)
          PROVE  \A d \in Clients : outgoing[d] # None => outgoing'[d] # None
      BY <3>2 DEF Enqueue, Insert, TypeOK
    <3> QED BY <1>5, <3>1, <3>2, ReadCases DEF ReadMessage, ReadError, ReadEnd
  <2>3. pc = "read" /\ UNCHANGED <<writable, i>>
    BY <1>5 DEF Read, selectVars
  <2>4. writable \subseteq Clients /\ None \notin Clients
    BY ChatAssumption DEF TypeOK
  <2> QED BY <2>1, <2>2, <2>3, <2>4 DEF Snapshot
<1>6. CASE Write
  <2>1. pc = "write" /\ UNCHANGED <<writable, slot>>
    BY <1>6 DEF Write, slotVars, selectVars
  <2>2. pc' \in {"select", "killed"} \/ (pc' = "read" /\ i' = i + 1)
    BY <1>6 DEF Write, WriteMessage, WriteKills, Advance
  <2>3. \A d \in Clients : d # slot[i] => outgoing'[d] = outgoing[d]
    BY <1>6 DEF Write, WriteMessage, WriteKills, TypeOK
  <2>4. /\ i \in Slots /\ writable \subseteq Clients /\ None \notin Clients
        /\ \A s \in Slots : s >= i + 1 => s >= i /\ s # i
    BY ChatAssumption DEF TypeOK, Slots
  <2>5. \A s \in Slots : s >= i + 1 /\ slot[s] \in writable => slot[s] # slot[i]
    BY <2>4 DEF Seats
  <2> QED BY <2>1, <2>2, <2>3, <2>4, <2>5 DEF Snapshot
<1> QED BY <1>1, <1>2, <1>3, <1>4, <1>5, <1>6
        DEF Next, Server, Connect, Say, Vanish, slotVars, selectVars, vars

LEMMA SnapshotStep ==
  ASSUME IInv, [Next]_vars
  PROVE  Snapshot'
BY BacklogStep, WritableStep, WatchedStep, WritableHasMessageStep DEF Snapshot

----------------------------------------------------------------------------
(***************************************************************************)
(* The order of the messages                                               *)
(***************************************************************************)

\* A message comes from a client and has a number.
LEMMA MessageFacts ==
  ASSUME TypeOK
  PROVE  /\ \A m \in Messages : m.from \in Clients /\ m.n \in Nat
         /\ \A c \in Clients : sent[c] \in Nat /\ Len(inbound[c]) \in Nat /\ Len(delivered[c]) \in Nat
         /\ \A c \in Clients : \A k \in 1..Len(inbound[c]) : inbound[c][k] \in Messages
         /\ \A c \in Clients : \A k \in 1..Len(delivered[c]) : delivered[c][k] \in Messages
         /\ \A c \in Clients : outgoing[c] # None => outgoing[c] \in Messages
<1>1. \A m \in Messages : m.from \in Clients /\ m.n \in Nat
  BY ChatAssumption DEF Messages
<1>2. \A c \in Clients : inbound[c] \in Seq(Messages) /\ delivered[c] \in Seq(Messages)
  BY DEF TypeOK
<1>3. \A c \in Clients : sent[c] \in Nat
  BY ChatAssumption DEF TypeOK
<1> QED BY <1>1, <1>2, <1>3, ElementOfSeq, LenProperties DEF TypeOK

\* A client that says something puts it, with the next number, behind the rest.
LEMMA Said ==
  ASSUME TypeOK, NEW c \in Clients, Say(c)
  PROVE  /\ UNCHANGED <<outgoing, delivered>>
         /\ sent'[c] = sent[c] + 1 /\ sent[c] \in Nat /\ Len(inbound[c]) \in Nat
         /\ \A k \in 1..Len(inbound'[c]) :
              \/ k \in 1..Len(inbound[c]) /\ inbound'[c][k] = inbound[c][k]
              \/ /\ k = Len(inbound[c]) + 1
                 /\ inbound'[c][k].from = c /\ inbound'[c][k].n = sent[c] + 1
         /\ \A k \in 1..Len(inbound[c]) : inbound'[c][k] = inbound[c][k]
         /\ \A d \in Clients \ {c} : inbound'[d] = inbound[d] /\ sent'[d] = sent[d]
<1> DEFINE m == [from |-> c, n |-> sent[c] + 1]
<1>1. m \in Messages
  BY ChatAssumption DEF Say, TypeOK, Messages
<1>2. inbound' = [inbound EXCEPT ![c] = Append(inbound[c], m)] /\ sent' = [sent EXCEPT ![c] = sent[c] + 1]
  BY DEF Say
<1>3. inbound'[c] = Append(inbound[c], m) /\ inbound[c] \in Seq(Messages)
  BY <1>2 DEF TypeOK
<1>4. /\ Len(inbound[c]) \in Nat
      /\ \A k \in 1..Len(inbound'[c]) : \/ k \in 1..Len(inbound[c]) /\ inbound'[c][k] = inbound[c][k]
                                        \/ k = Len(inbound[c]) + 1 /\ inbound'[c][k] = m
      /\ \A k \in 1..Len(inbound[c]) : inbound'[c][k] = inbound[c][k]
  BY <1>1, <1>3, Appended
<1>5. UNCHANGED <<outgoing, delivered>>
  BY DEF Say
<1>6. /\ sent'[c] = sent[c] + 1
      /\ \A d \in Clients \ {c} : inbound'[d] = inbound[d] /\ sent'[d] = sent[d]
  BY <1>2 DEF TypeOK
<1>7. m.from = c /\ m.n = sent[c] + 1 /\ sent[c] \in Nat
  BY ChatAssumption DEF TypeOK
<1> QED BY <1>4, <1>5, <1>6, <1>7

\* What the server reads is the oldest of what it has not read.
LEMMA ReadFirst ==
  ASSUME TypeOK, NEW c \in Clients, ReadMessage(c)
  PROVE  /\ Enqueue(c, inbound[c][1])
         /\ 1 \in 1..Len(inbound[c]) /\ Len(inbound[c]) \in Nat
         /\ \A k \in 1..Len(inbound'[c]) :
              k \in Nat /\ k + 1 \in 1..Len(inbound[c]) /\ 1 < k + 1 /\ inbound'[c][k] = inbound[c][k + 1]
         /\ \A d \in Clients \ {c} : inbound'[d] = inbound[d]
<1>1. inbound[c] \in Seq(Messages) /\ inbound[c] # <<>>
  BY DEF TypeOK, ReadMessage
<1>2. /\ Len(inbound[c]) \in Nat
      /\ 1 \in 1..Len(inbound[c]) /\ Head(inbound[c]) = inbound[c][1]
      /\ \A k \in 1..Len(Tail(inbound[c])) :
           k + 1 \in 1..Len(inbound[c]) /\ Tail(inbound[c])[k] = inbound[c][k + 1]
  BY <1>1, Beheaded
<1>3. inbound'[c] = Tail(inbound[c]) /\ \A d \in Clients \ {c} : inbound'[d] = inbound[d]
  BY DEF TypeOK, ReadMessage
<1>4. Enqueue(c, inbound[c][1])
  BY <1>2 DEF ReadMessage
<1> QED BY <1>2, <1>3, <1>4

\* What the server writes reaches a client behind what has reached it before.
LEMMA Written ==
  ASSUME TypeOK, NEW c \in Clients, outgoing[c] \in Messages, WriteMessage(c)
  PROVE  /\ outgoing' = [outgoing EXCEPT ![c] = None]
         /\ \A d \in Clients \ {c} : delivered'[d] = delivered[d]
         /\ Len(delivered[c]) \in Nat
         /\ \A k \in 1..Len(delivered'[c]) :
              \/ k \in 1..Len(delivered[c]) /\ delivered'[c][k] = delivered[c][k]
              \/ k = Len(delivered[c]) + 1 /\ delivered'[c][k] = outgoing[c]
<1>1. delivered[c] \in Seq(Messages) /\ Len(delivered[c]) \in Nat
  BY LenProperties DEF TypeOK
<1>2. delivered'[c] = delivered[c] \/ delivered'[c] = Append(delivered[c], outgoing[c])
  BY DEF TypeOK, WriteMessage
<1>3. \A d \in Clients \ {c} : delivered'[d] = delivered[d]
  BY DEF TypeOK, WriteMessage
<1>4. \A k \in 1..Len(delivered'[c]) :
        \/ k \in 1..Len(delivered[c]) /\ delivered'[c][k] = delivered[c][k]
        \/ k = Len(delivered[c]) + 1 /\ delivered'[c][k] = outgoing[c]
  BY <1>1, <1>2, Appended
<1> QED BY <1>1, <1>3, <1>4 DEF WriteMessage

LEMMA UnreadStep ==
  ASSUME IInv, [Next]_vars
  PROVE  Unread'
<1> USE DEF IInv
<1>1. CASE UNCHANGED <<inbound, sent>>
  BY <1>1 DEF Unread
<1>2. ASSUME NEW c \in Clients, Say(c)
      PROVE  Unread'
  <2>1. \A k \in 1..Len(inbound'[c]) : /\ inbound'[c][k].from = c
                                       /\ inbound'[c][k].n > 0
                                       /\ inbound'[c][k].n <= sent'[c]
    BY <1>2, Said, MessageFacts DEF Unread
  <2>2. \A k, l \in 1..Len(inbound'[c]) : k < l => inbound'[c][k].n < inbound'[c][l].n
    <3>1. \A k, l \in 1..Len(inbound'[c]) :
            k < l => \/ k \in 1..Len(inbound[c]) /\ l \in 1..Len(inbound[c])
                     \/ k \in 1..Len(inbound[c]) /\ l = Len(inbound[c]) + 1
      BY <1>2, Said
    <3>2. \A k \in 1..Len(inbound[c]) :
            inbound[c][k].n \in Nat /\ inbound[c][k].n <= sent[c]
      BY MessageFacts DEF Unread
    <3>3. \A l \in 1..Len(inbound'[c]) : l = Len(inbound[c]) + 1 => inbound'[c][l].n = sent[c] + 1
      BY <1>2, Said
    <3>4. \A k, l \in 1..Len(inbound[c]) : k < l => inbound[c][k].n < inbound[c][l].n
      BY DEF Unread
    <3>5. sent[c] \in Nat /\ \A k \in 1..Len(inbound[c]) : inbound'[c][k] = inbound[c][k]
      BY <1>2, Said
    <3>6. ASSUME NEW k \in 1..Len(inbound'[c]), NEW l \in 1..Len(inbound'[c]), k < l
          PROVE  inbound'[c][k].n < inbound'[c][l].n
      <4>1. CASE k \in 1..Len(inbound[c]) /\ l \in 1..Len(inbound[c])
        BY <3>4, <3>5, <3>6, <4>1
      <4>2. CASE k \in 1..Len(inbound[c]) /\ l = Len(inbound[c]) + 1
        BY <3>2, <3>3, <3>5, <4>2
      <4> QED BY <3>1, <3>6, <4>1, <4>2
    <3> QED BY <3>6
  <2>3. \A d \in Clients \ {c} : inbound'[d] = inbound[d] /\ sent'[d] = sent[d]
    BY <1>2, Said
  <2> QED BY <2>1, <2>2, <2>3 DEF Unread
<1>3. ASSUME NEW c \in Clients, ReadMessage(c), UNCHANGED sent
      PROVE  Unread'
  <2>1. /\ \A k \in 1..Len(inbound'[c]) :
             k \in Nat /\ k + 1 \in 1..Len(inbound[c]) /\ inbound'[c][k] = inbound[c][k + 1]
        /\ \A d \in Clients \ {c} : inbound'[d] = inbound[d]
    BY <1>3, ReadFirst
  <2>2. \A k \in 1..Len(inbound'[c]) : /\ inbound'[c][k].from = c
                                       /\ inbound'[c][k].n > 0
                                       /\ inbound'[c][k].n <= sent'[c]
    BY <1>3, <2>1 DEF Unread
  <2>3. \A k, l \in 1..Len(inbound'[c]) : k < l => inbound'[c][k].n < inbound'[c][l].n
    <3>1. \A k, l \in 1..Len(inbound'[c]) : k < l => k + 1 < l + 1
      OBVIOUS
    <3> QED BY <2>1, <3>1 DEF Unread
  <2> QED BY <1>3, <2>1, <2>2, <2>3 DEF Unread
<1>4. CASE Read
  BY <1>1, <1>3, <1>4, ReadCases DEF Read, ReadError, ReadEnd, clientVars
<1> QED BY <1>1, <1>2, <1>4
        DEF Next, Server, Connect, Vanish, Start, Select, Accept, NoAccept, Write, clientVars, vars

\* A message that was passed on stays so, whatever is sent or read.
LEMMA PassedStays ==
  ASSUME IInv, [Next]_vars, NEW m \in Messages, Passed(m)
  PROVE  /\ m.n <= sent'[m.from]
         /\ \A k \in 1..Len(inbound'[m.from]) : m.n < inbound'[m.from][k].n
<1> USE DEF IInv
<1> DEFINE Stays == /\ m.n <= sent'[m.from]
                    /\ \A k \in 1..Len(inbound'[m.from]) : m.n < inbound'[m.from][k].n
<1>1. m.from \in Clients /\ m.n \in Nat /\ sent[m.from] \in Nat
  BY MessageFacts
<1>2. CASE UNCHANGED <<inbound, sent>>
  BY <1>2 DEF Passed
<1>3. ASSUME NEW c \in Clients, Say(c)
      PROVE  Stays
  <2>1. CASE m.from # c
    BY <1>1, <1>3, <2>1, Said DEF Passed
  <2>2. CASE m.from = c
    <3>1. /\ sent'[c] = sent[c] + 1
          /\ \A k \in 1..Len(inbound'[c]) :
               \/ k \in 1..Len(inbound[c]) /\ inbound'[c][k] = inbound[c][k]
               \/ inbound'[c][k].n = sent[c] + 1
      BY <1>3, Said
    <3>2. /\ m.n <= sent[c] /\ sent[c] \in Nat /\ m.n \in Nat
          /\ \A k \in 1..Len(inbound[c]) : m.n < inbound[c][k].n
      BY <1>1, <2>2 DEF Passed
    <3>3. m.n <= sent'[c]
      BY <3>1, <3>2
    <3>4. \A k \in 1..Len(inbound'[c]) : m.n < inbound'[c][k].n
      BY <3>1, <3>2
    <3> QED BY <2>2, <3>3, <3>4
  <2> QED BY <2>1, <2>2
<1>4. ASSUME NEW c \in Clients, ReadMessage(c), UNCHANGED sent
      PROVE  Stays
  BY <1>1, <1>4, ReadFirst DEF Passed
<1>5. CASE Read
  BY <1>2, <1>4, <1>5, ReadCases DEF Read, ReadError, ReadEnd, clientVars
<1> QED BY <1>2, <1>3, <1>5
        DEF Next, Server, Connect, Vanish, Start, Select, Accept, NoAccept, Write, clientVars, vars

LEMMA QueuedStep ==
  ASSUME IInv, [Next]_vars
  PROVE  Queued'
<1> USE DEF IInv
<1>1. ASSUME NEW d \in Clients, outgoing[d] # None, outgoing'[d] = outgoing[d]
      PROVE  Passed(outgoing[d])'
  <2>1. PICK m : m = outgoing[d] /\ m \in Messages /\ Passed(m)
    BY <1>1, MessageFacts DEF Queued
  <2> QED BY <1>1, <2>1, PassedStays DEF Passed
<1>2. CASE UNCHANGED <<outgoing, delivered>>
  BY <1>1, <1>2 DEF Queued, IsNews, Passed
<1>3. ASSUME NEW c \in Clients, NEW m \in Messages, Enqueue(c, m), UNCHANGED delivered,
             m.n <= sent'[m.from],
             \A k \in 1..Len(inbound'[m.from]) : m.n < inbound'[m.from][k].n,
             \A d \in Clients : IsNews(m, d)
      PROVE  Queued'
  <2>1. ASSUME NEW d \in Clients, outgoing'[d] # None
        PROVE  Passed(outgoing[d])' /\ IsNews(outgoing[d], d)'
    <3>1. CASE outgoing'[d] = m
      BY <1>3, <3>1 DEF Passed, IsNews
    <3>2. CASE outgoing'[d] = outgoing[d]
      BY <1>1, <1>3, <2>1, <3>2 DEF Queued, IsNews
    <3> QED BY <1>3, <3>1, <3>2, Enqueued
  <2> QED BY <2>1 DEF Queued
<1>4. ASSUME NEW c \in Clients, ReadMessage(c), Read
      PROVE  Queued'
  <2>1. PICK m : m = inbound[c][1]
    OBVIOUS
  <2>2. m \in Messages /\ m.from = c /\ m.n \in Nat /\ m.n > 0 /\ m.n <= sent[c]
    BY <1>4, <2>1, ReadFirst, MessageFacts DEF Unread
  <2>3. \A k \in 1..Len(inbound'[c]) : m.n < inbound'[c][k].n
    BY <1>4, <2>1, ReadFirst DEF Unread
  <2>4. \A d \in Clients : IsNews(m, d)
    <3>1. \A d \in Clients : \A j \in 1..Len(delivered[d]) :
            delivered[d][j] \in Messages /\ Passed(delivered[d][j])
      BY MessageFacts DEF Received
    <3>2. 1 \in 1..Len(inbound[c])
      BY <1>4, ReadFirst
    <3> QED BY <2>1, <2>2, <3>1, <3>2 DEF Passed, IsNews
  <2>5. UNCHANGED <<sent, delivered>>
    BY <1>4 DEF Read, clientVars
  <2> QED BY <1>3, <1>4, <2>1, <2>2, <2>3, <2>4, <2>5, ReadFirst
<1>5. ASSUME NEW c \in Clients, ReadError(c), Read
      PROVE  Queued'
  <2>1. PICK m : m = [from |-> c, n |-> 0]
    OBVIOUS
  <2>2. m \in Messages /\ m.from = c /\ m.n = 0
    BY <2>1, ChatAssumption DEF Messages
  <2>3. inbound'[c] = <<>> /\ sent'[c] \in Nat /\ UNCHANGED delivered
    BY <1>5, MessageFacts DEF ReadError, Read, clientVars
  <2>4. Len(inbound'[c]) = 0
    BY <2>3
  <2> QED BY <1>3, <1>5, <2>1, <2>2, <2>3, <2>4 DEF ReadError, IsNews
<1>6. CASE Read
  BY <1>2, <1>4, <1>5, <1>6, ReadCases DEF Read, ReadEnd
<1>7. CASE Write
  <2>1. ASSUME NEW c \in Clients, outgoing[c] \in Messages, WriteMessage(c)
        PROVE  Queued'
    <3>1. ASSUME NEW d \in Clients, outgoing'[d] # None
          PROVE  /\ outgoing[d] # None /\ outgoing'[d] = outgoing[d]
                 /\ delivered'[d] = delivered[d]
      BY <2>1, <3>1, Written DEF TypeOK
    <3> QED BY <1>1, <3>1 DEF Queued, IsNews
  <2> QED BY <1>2, <1>7, <2>1, WriteCases
<1> QED BY <1>2, <1>6, <1>7
        DEF Next, Server, Connect, Say, Vanish, Start, Select, Accept, NoAccept, vars

LEMMA ReceivedStep ==
  ASSUME IInv, [Next]_vars
  PROVE  Received'
<1> USE DEF IInv
<1>1. ASSUME NEW m \in Messages, Passed(m)
      PROVE  Passed(m)'
  BY <1>1, PassedStays DEF Passed
<1>2. ASSUME NEW d \in Clients, delivered'[d] = delivered[d]
      PROVE  \A j \in 1..Len(delivered'[d]) : Passed(delivered[d][j])'
  <2>1. ASSUME NEW j \in 1..Len(delivered[d])
        PROVE  Passed(delivered[d][j])'
    <3>1. PICK m : m = delivered[d][j] /\ m \in Messages /\ Passed(m)
      BY MessageFacts DEF Received
    <3> QED BY <1>2, <3>1, PassedStays DEF Passed
  <2> QED BY <1>2, <2>1
<1>3. CASE UNCHANGED delivered
  <2>1. InOrderOnce'
    BY <1>3 DEF InOrderOnce, Received
  <2> QED BY <1>2, <1>3, <2>1 DEF Received
<1>4. ASSUME NEW c \in Clients, outgoing[c] # None, outgoing[c] \in Messages, WriteMessage(c)
      PROVE  Received'
  <2>1. PICK m : m = outgoing[c]
    OBVIOUS
  <2>2. /\ m \in Messages /\ Passed(m) /\ IsNews(m, c)
        /\ Len(delivered[c]) \in Nat
        /\ \A k \in 1..Len(delivered'[c]) :
             \/ k \in 1..Len(delivered[c]) /\ delivered'[c][k] = delivered[c][k]
             \/ k = Len(delivered[c]) + 1 /\ delivered'[c][k] = m
        /\ \A d \in Clients \ {c} : delivered'[d] = delivered[d]
    BY <1>4, <2>1, Written DEF Queued
  <2>3. ASSUME NEW j \in 1..Len(delivered'[c])
        PROVE  Passed(delivered[c][j])'
    <3>1. PICK p : p = delivered'[c][j] /\ p \in Messages /\ Passed(p)
      BY <2>2, MessageFacts DEF Received
    <3> QED BY <3>1, PassedStays DEF Passed
  <2>4. \A d \in Clients : \A j \in 1..Len(delivered'[d]) : Passed(delivered[d][j])'
    BY <1>2, <2>2, <2>3
  <2>5. \A j, k \in 1..Len(delivered'[c]) :
          j < k /\ delivered'[c][j].from = delivered'[c][k].from /\ delivered'[c][k].n # 0
            => delivered'[c][j].n < delivered'[c][k].n
    <3>1. \A j, k \in 1..Len(delivered[c]) :
            j < k /\ delivered[c][j].from = delivered[c][k].from /\ delivered[c][k].n # 0
              => delivered[c][j].n < delivered[c][k].n
      BY DEF Received, InOrderOnce
    <3>2. \A j \in 1..Len(delivered[c]) :
            delivered[c][j].from = m.from /\ m.n # 0 => delivered[c][j].n < m.n
      BY <2>2 DEF IsNews
    <3>3. \A j, k \in 1..Len(delivered'[c]) :
            j < k => \/ j \in 1..Len(delivered[c]) /\ k \in 1..Len(delivered[c])
                     \/ j \in 1..Len(delivered[c]) /\ k = Len(delivered[c]) + 1
      BY <2>2
    <3>4. \A k \in 1..Len(delivered[c]) : k # Len(delivered[c]) + 1
      BY <2>2
    <3> QED BY <2>2, <3>1, <3>2, <3>3, <3>4
  <2>6. InOrderOnce'
    BY <2>2, <2>5 DEF Received, InOrderOnce
  <2> QED BY <2>4, <2>6 DEF Received
<1>5. CASE Write
  BY <1>3, <1>4, <1>5, WriteCases
<1> QED BY <1>3, <1>5
        DEF Next, Server, Connect, Say, Vanish, Start, Select, Accept, NoAccept, Read, vars

----------------------------------------------------------------------------
LEMMA InitHolds == Init => IInv
<1> SUFFICES ASSUME Init PROVE IInv
  OBVIOUS
<1>1. \A c \in Clients : Len(inbound[c]) = 0 /\ Len(delivered[c]) = 0
  BY DEF Init
<1>2. Len(backlog) = 0
  BY DEF Init
<1>3. TypeOK
  <2>1. 1 \in Slots /\ 0 \in 0..MaxMessages
    BY ChatAssumption DEF Slots
  <2>2. <<>> \in Seq(Clients) /\ <<>> \in Seq(Messages)
    BY EmptySeq
  <2> QED BY <2>1, <2>2 DEF Init, TypeOK, Links
<1>4. Seats /\ Paired /\ Snapshot
  BY <1>2 DEF Init, Seats, Paired, Snapshot, WritableHasMessage
<1>5. Unread /\ Queued /\ Received
  BY <1>1 DEF Init, Unread, Queued, Received, InOrderOnce
<1> QED BY <1>3, <1>4, <1>5 DEF IInv

LEMMA InductiveInvariance == Spec => []IInv
<1>1. IInv /\ [Next]_vars => IInv'
  BY TypeStep, SeatsStep, PairedStep, SnapshotStep, UnreadStep, QueuedStep, ReceivedStep DEF IInv
<1> QED BY <1>1, InitHolds, PTL DEF Spec

(***************************************************************************)
(* The map of the slots, that of the partners and the queue agree with     *)
(* each other and with the sets that select() has returned, in every turn  *)
(* of the server's loop: whoever is to be written to has a message, and    *)
(* of two clients in slots none is without a partner.                      *)
(***************************************************************************)
THEOREM TheMapsAgree == Spec => []MapsAgree
<1>1. IInv => MapsAgree
  <2> SUFFICES ASSUME IInv PROVE MapsAgree
    OBVIOUS
  <2>1. ASSUME Cardinality(Connected) > 1, NEW c \in Connected
        PROVE  partner[c] # None
    <3>1. PICK d \in Connected : d # c
      <4>1. Connected # {c}
        <5>1. Cardinality({c}) = 1 /\ ~(1 > 1)
          BY FS_Singleton
        <5> QED BY <2>1, <5>1
      <4> QED BY <2>1, <4>1
    <3>2. PICK s \in Slots, t \in Slots : slot[s] = c /\ slot[t] = d
      BY <2>1, <3>1 DEF Connected
    <3>3. c # None /\ d # None
      BY ChatAssumption DEF Connected
    <3> QED BY <3>1, <3>2, <3>3 DEF IInv, Paired
  <2>2. EveryoneIsPaired
    BY <2>1 DEF EveryoneIsPaired, IInv, Seats
  <2> QED BY <2>2 DEF MapsAgree, IInv, Snapshot
<1> QED BY <1>1, InductiveInvariance, PTL

(***************************************************************************)
(* What a client receives from another comes in the order in which it was  *)
(* sent, and nothing comes twice, although the queue drops messages and    *)
(* one loop reads and writes slot by slot.                                 *)
(***************************************************************************)
THEOREM MessagesComeInOrderOnce == Spec => []InOrderOnce
BY InductiveInvariance, PTL DEF IInv, Received
=============================================================================
