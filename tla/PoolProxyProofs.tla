---------------------------- MODULE PoolProxyProofs ----------------------------
(***************************************************************************)
(* Proofs that the pool proxy has the safety properties of PoolProxyProps  *)
(* for any clients and any connections, whatever context a thread reads.   *)
(***************************************************************************)
EXTENDS PoolProxyProps, FiniteSetTheorems, TLAPS

\* Only accept() creates a thread, and it leaves a context behind; whoever
\* asks the pool is in get_connection.
ThreadsAreTyped == /\ \A t \in Clients : thread[t] = "created" => context # None
                   /\ \A t \in asking : thread[t] = "asking"

TypeInv == TypeOK /\ ThreadsAreTyped

LEMMA TypeInvariance == Spec => []TypeInv
<1> USE PoolProxyAssumption
<1>1. Init => TypeInv
  <2> SUFFICES ASSUME Init PROVE TypeInv
    OBVIOUS
  <2>1. alive \in BOOLEAN /\ listening \in BOOLEAN
    BY DEF Init
  <2>2. /\ thread \in [Clients -> {"none", "created", "asking", "relaying", "leaving", "done"}]
        /\ sock \in [Clients -> Clients \cup {None}]
        /\ \A t \in Clients : sock[t] = None <=> thread[t] \in {"none", "created"}
        /\ ThreadsAreTyped
    BY DEF Init, ThreadsAreTyped, Pool!Init
  <2>3. owner \in [Conns -> Clients \cup {None}] /\ asking \in SUBSET Clients
    BY DEF Init, Pool!Init
  <2>4. /\ context \in Clients \cup {None}
        /\ link \in [Clients -> {"none", "open", "fin", "rst"}]
        /\ unread \in SUBSET Clients
        /\ upstream \in [Conns -> {"down", "open", "closed"}]
        /\ inFlight \in [Conns -> SUBSET Clients]
        /\ answered \in [Conns -> SUBSET Clients]
        /\ got \in SUBSET (Clients \X Clients)
    BY DEF Init
  <2> QED BY <2>1, <2>2, <2>3, <2>4 DEF TypeInv, TypeOK
<1>2. TypeInv /\ [Next]_vars => TypeInv'
  <2> SUFFICES ASSUME TypeInv, [Next]_vars
               PROVE  TypeInv'
    OBVIOUS
  <2> USE DEF TypeInv, TypeOK, ThreadsAreTyped, serverVars, clientVars, upstreamVars
  <2>1. CASE Start
    BY <2>1 DEF Start
  <2>2. ASSUME NEW c \in Clients, Connect(c) \/ HangUp(c)
        PROVE  TypeInv'
    BY <2>2 DEF Connect, HangUp
  <2>3. ASSUME NEW r \in Conns, Answer(r) \/ UpstreamCloses(r)
        PROVE  TypeInv'
    BY <2>3 DEF Answer, UpstreamCloses
  <2>4. ASSUME NEW c \in Clients, Accept(c) \/ AcceptThrows(c)
        PROVE  TypeInv'
    <3>1. CASE Accept(c)
      BY <3>1 DEF Accept
    <3>2. CASE AcceptThrows(c)
      BY <3>2 DEF AcceptThrows
    <3> QED BY <2>4, <3>1, <3>2
  <2>5. ASSUME NEW t \in Clients, ReadContext(t)
        PROVE  TypeInv'
    BY <2>5 DEF ReadContext, Pool!Ask
  <2>6. ASSUME NEW t \in Clients, GetConnection(t)
        PROVE  TypeInv'
    <3>1. PICK r \in Conns : Pool!Grant(t, r) /\ Reconnect(r)
      BY <2>6 DEF GetConnection
    <3>2. /\ upstream' \in [Conns -> {"down", "open", "closed"}]
          /\ inFlight' \in [Conns -> SUBSET Clients]
          /\ answered' \in [Conns -> SUBSET Clients]
      BY <3>1 DEF Reconnect
    <3>3. /\ thread[t] = "asking"
          /\ owner' = [owner EXCEPT ![r] = t] /\ asking' = asking \ {t}
      BY <3>1 DEF Pool!Grant
    <3>4. /\ thread' = [thread EXCEPT ![t] = "relaying"]
          /\ UNCHANGED <<alive, listening, context, sock, link, unread, got>>
      BY <2>6 DEF GetConnection
    <3>5. ThreadsAreTyped'
      BY <3>3, <3>4
    <3> QED BY <3>2, <3>3, <3>4, <3>5
  <2>7. ASSUME NEW t \in Clients, NoConnection(t)
        PROVE  TypeInv'
    BY <2>7 DEF NoConnection, Pool!Refuse
  <2>8. ASSUME NEW t \in Clients, Relay(t)
        PROVE  TypeInv'
    <3>1. PICK r \in Conns :
            \/ Turn(t, r)
            \/ alive' = FALSE /\ UNCHANGED <<thread, unread, inFlight, answered, got>>
      BY <2>8 DEF Relay
    <3>2. UNCHANGED <<listening, context, sock, owner, asking, link, upstream>>
      BY <2>8 DEF Relay
    <3>3. CASE Turn(t, r)
      <4>1. sock[t] \in Clients
        BY <2>8 DEF Relay
      <4>2. /\ inFlight' \in [Conns -> SUBSET Clients]
            /\ answered' \in [Conns -> SUBSET Clients]
            /\ got' \in SUBSET (Clients \X Clients)
            /\ unread' \in SUBSET Clients
        BY <3>3, <4>1 DEF Turn
      <4>3. thread' = thread \/ thread' = [thread EXCEPT ![t] = "leaving"]
        BY <3>3 DEF Turn
      <4>4. alive' = alive
        BY <3>3 DEF Turn
      <4> QED BY <2>8, <3>2, <4>2, <4>3, <4>4 DEF Relay
    <3>4. CASE alive' = FALSE /\ UNCHANGED <<thread, unread, inFlight, answered, got>>
      BY <3>2, <3>4
    <3> QED BY <3>1, <3>3, <3>4
  <2>9. ASSUME NEW t \in Clients, Leave(t)
        PROVE  TypeInv'
    BY <2>9 DEF Leave, Pool!Return
  <2>10. CASE UNCHANGED vars
    BY <2>10 DEF vars
  <2> QED
    BY <2>1, <2>2, <2>3, <2>4, <2>5, <2>6, <2>7, <2>8, <2>9, <2>10 DEF Next, Thread
<1> QED BY <1>1, <1>2, PTL DEF Spec

----------------------------------------------------------------------------
(***************************************************************************)
(* The threads that hold a connection are those that relay or leave, and   *)
(* none holds two.                                                         *)
(***************************************************************************)
HoldsOne ==
  /\ \A t \in Clients : thread[t] \in {"relaying", "leaving"} <=> Pool!Has(t)
  /\ \A r, s \in Conns : owner[r] = owner[s] /\ owner[r] # None => r = s

LEMMA HoldsOneInvariance == Spec => []HoldsOne
<1> USE PoolProxyAssumption
<1>1. Init => HoldsOne
  BY DEF Init, HoldsOne, Pool!Init, Pool!Has
<1>2. TypeInv /\ HoldsOne /\ [Next]_vars => HoldsOne'
  <2> SUFFICES ASSUME TypeInv, TypeOK, ThreadsAreTyped, HoldsOne, [Next]_vars
               PROVE  HoldsOne'
    BY DEF TypeInv
  <2> USE DEF TypeOK, ThreadsAreTyped, HoldsOne, Pool!Has, serverVars, clientVars, upstreamVars
  <2>1. ASSUME NEW c \in Clients, Accept(c)
        PROVE  HoldsOne'
    BY <2>1 DEF Accept
  <2>2. ASSUME NEW t \in Clients, ReadContext(t)
        PROVE  HoldsOne'
    BY <2>2 DEF ReadContext, Pool!Ask
  <2>3. ASSUME NEW t \in Clients, GetConnection(t)
        PROVE  HoldsOne'
    BY <2>3 DEF GetConnection, Pool!Grant, Pool!Free
  <2>4. ASSUME NEW t \in Clients, NoConnection(t)
        PROVE  HoldsOne'
    BY <2>4 DEF NoConnection, Pool!Refuse
  <2>5. ASSUME NEW t \in Clients, Relay(t)
        PROVE  HoldsOne'
    <3>1. /\ thread[t] = "relaying"
          /\ thread' = thread \/ thread' = [thread EXCEPT ![t] = "leaving"]
          /\ owner' = owner /\ asking' = asking
      BY <2>5 DEF Relay, Turn
    <3> QED BY <3>1
  <2>6. ASSUME NEW t \in Clients, Leave(t)
        PROVE  HoldsOne'
    BY <2>6 DEF Leave, Pool!Return
  <2>7. CASE Start \/ UNCHANGED vars
    BY <2>7 DEF Start, vars
  <2>8. ASSUME NEW c \in Clients, Connect(c) \/ HangUp(c) \/ AcceptThrows(c)
        PROVE  HoldsOne'
    BY <2>8 DEF Connect, HangUp, AcceptThrows
  <2>9. ASSUME NEW r \in Conns, Answer(r) \/ UpstreamCloses(r)
        PROVE  HoldsOne'
    BY <2>9 DEF Answer, UpstreamCloses
  <2> QED
    BY <2>1, <2>2, <2>3, <2>4, <2>5, <2>6, <2>7, <2>8, <2>9 DEF Next, Thread
<1> QED BY <1>1, <1>2, TypeInvariance, PTL DEF Spec

(***************************************************************************)
(* A thread relays on a connection of its own and gives it back: there is  *)
(* one for each thread that relays or leaves, and none for the others      *)
(* (proxy.cpp:35-95), although the listener misleads some of them.         *)
(***************************************************************************)
THEOREM LeasesAreMatched == Spec => []LeasesMatchThreads
<1>1. TypeInv /\ HoldsOne => LeasesMatchThreads
  <2> SUFFICES ASSUME TypeInv, HoldsOne, NEW t \in Clients
               PROVE  Cardinality({r \in Conns : owner[r] = t}) =
                        IF thread[t] \in {"relaying", "leaving"} THEN 1 ELSE 0
    BY DEF LeasesMatchThreads, TypeInv
  <2>1. CASE thread[t] \in {"relaying", "leaving"}
    <3>1. PICK r \in Conns : owner[r] = t
      BY <2>1 DEF HoldsOne, Pool!Has
    <3>2. {s \in Conns : owner[s] = t} = {r}
      BY <3>1, PoolProxyAssumption DEF HoldsOne
    <3> QED BY <2>1, <3>2, FS_Singleton
  <2>2. CASE thread[t] \notin {"relaying", "leaving"}
    <3>1. {s \in Conns : owner[s] = t} = {}
      BY <2>2 DEF HoldsOne, Pool!Has
    <3> QED BY <2>2, <3>1, FS_EmptySet
  <2> QED BY <2>1, <2>2
<1> QED BY <1>1, TypeInvariance, HoldsOneInvariance, PTL

----------------------------------------------------------------------------
(***************************************************************************)
(* What is on its way over a leased connection belongs to the client whose *)
(* socket the thread works with: reconnecting has emptied it of what its   *)
(* former users left.                                                      *)
(***************************************************************************)
OwnTraffic ==
  \A r \in Conns :
    owner[r] # None => inFlight[r] \cup answered[r] \subseteq {sock[owner[r]]}

LEMMA OwnTrafficInvariance == Spec => [](OwnTraffic /\ NoCrossTalk)
<1> USE PoolProxyAssumption
<1>1. Init => OwnTraffic /\ NoCrossTalk
  BY DEF Init, OwnTraffic, NoCrossTalk, Pool!Init
<1>2. TypeInv /\ HoldsOne /\ OwnTraffic /\ NoCrossTalk /\ [Next]_vars
        => OwnTraffic' /\ NoCrossTalk'
  <2> SUFFICES ASSUME TypeInv, TypeOK, HoldsOne, OwnTraffic, NoCrossTalk, [Next]_vars
               PROVE  OwnTraffic' /\ NoCrossTalk'
    BY DEF TypeInv
  <2> USE DEF TypeOK, OwnTraffic, NoCrossTalk, serverVars, clientVars, upstreamVars
  <2>1. ASSUME NEW t \in Clients, ReadContext(t)
        PROVE  OwnTraffic' /\ NoCrossTalk'
    <3>1. \A r \in Conns : owner[r] # t
      BY <2>1 DEF ReadContext, HoldsOne, Pool!Has
    <3> QED BY <2>1, <3>1 DEF ReadContext, Pool!Ask
  <2>2. ASSUME NEW t \in Clients, GetConnection(t)
        PROVE  OwnTraffic' /\ NoCrossTalk'
    BY <2>2 DEF GetConnection, Reconnect, Pool!Grant, Pool!Free
  <2>3. ASSUME NEW t \in Clients, Relay(t)
        PROVE  OwnTraffic' /\ NoCrossTalk'
    <3>1. PICK r \in Conns :
            /\ owner[r] = t
            /\ \/ Turn(t, r)
               \/ UNCHANGED <<inFlight, answered, got>>
      BY <2>3 DEF Relay
    <3>2. UNCHANGED <<sock, owner>>
      BY <2>3 DEF Relay
    <3>3. CASE Turn(t, r)
      <4>1. answered[r] \subseteq {sock[t]} /\ inFlight[r] \subseteq {sock[t]}
        BY <3>1
      <4>2. NoCrossTalk'
        BY <3>3, <4>1 DEF Turn
      <4>3. inFlight'[r] \subseteq {sock[t]} /\ answered'[r] = {}
        BY <3>3, <4>1 DEF Turn
      <4>4. \A s \in Conns \ {r} : inFlight'[s] = inFlight[s] /\ answered'[s] = answered[s]
        BY <3>3 DEF Turn
      <4> QED BY <3>1, <3>2, <4>2, <4>3, <4>4
    <3>4. CASE UNCHANGED <<inFlight, answered, got>>
      BY <3>2, <3>4
    <3> QED BY <3>1, <3>3, <3>4
  <2>4. ASSUME NEW t \in Clients, Leave(t)
        PROVE  OwnTraffic' /\ NoCrossTalk'
    BY <2>4 DEF Leave, Pool!Return
  <2>5. ASSUME NEW r \in Conns, Answer(r) \/ UpstreamCloses(r)
        PROVE  OwnTraffic' /\ NoCrossTalk'
    BY <2>5 DEF Answer, UpstreamCloses
  <2>6. ASSUME NEW c \in Clients,
               \/ Connect(c) \/ HangUp(c) \/ Accept(c) \/ AcceptThrows(c)
               \/ NoConnection(c)
        PROVE  OwnTraffic' /\ NoCrossTalk'
    BY <2>6 DEF Connect, HangUp, Accept, AcceptThrows, NoConnection, Pool!Refuse
  <2>7. CASE Start \/ UNCHANGED vars
    BY <2>7 DEF Start, vars
  <2> QED
    BY <2>1, <2>2, <2>3, <2>4, <2>5, <2>6, <2>7 DEF Next, Thread
<1> QED BY <1>1, <1>2, TypeInvariance, HoldsOneInvariance, PTL DEF Spec

(***************************************************************************)
(* No client gets the answer to another client's request, although         *)
(* connections are used by one client after the other, and although two    *)
(* threads may work with one socket.                                       *)
(***************************************************************************)
THEOREM AnswersAreNotMixedUp == Spec => []NoCrossTalk
BY OwnTrafficInvariance, PTL

(***************************************************************************)
(* The threads use the connection pool as the lease that ConnectionPool is *)
(* shown to implement as long as no connect() returns false, and none of   *)
(* the code does: whoever asks has no connection, is given one that nobody *)
(* has or is refused when there is none, and gives back what it has.       *)
(***************************************************************************)
THEOREM TheThreadsUseALease == Spec => Pool!Spec
<1>1. Init => Pool!Init
  BY DEF Init
<1>2. [Next]_vars => [Pool!Next]_(Pool!leaseVars)
  <2> SUFFICES ASSUME [Next]_vars
               PROVE  Pool!Next \/ UNCHANGED <<owner, asking>>
    BY DEF Pool!leaseVars
  <2> USE DEF Pool!Next, Pool!Answer
  <2>1. ASSUME NEW t \in Clients, ReadContext(t)
        PROVE  Pool!Next
    BY <2>1 DEF ReadContext
  <2>2. ASSUME NEW t \in Clients, GetConnection(t)
        PROVE  Pool!Next
    BY <2>2 DEF GetConnection
  <2>3. ASSUME NEW t \in Clients, NoConnection(t)
        PROVE  Pool!Next
    BY <2>3 DEF NoConnection
  <2>4. ASSUME NEW t \in Clients, Leave(t)
        PROVE  Pool!Next
    BY <2>4 DEF Leave
  <2>5. ASSUME NEW t \in Clients, Relay(t)
        PROVE  UNCHANGED <<owner, asking>>
    BY <2>5 DEF Relay
  <2>6. ASSUME NEW r \in Conns, Answer(r) \/ UpstreamCloses(r)
        PROVE  UNCHANGED <<owner, asking>>
    BY <2>6 DEF Answer, UpstreamCloses
  <2>7. ASSUME NEW c \in Clients, Connect(c) \/ HangUp(c) \/ Accept(c) \/ AcceptThrows(c)
        PROVE  UNCHANGED <<owner, asking>>
    BY <2>7 DEF Connect, HangUp, Accept, AcceptThrows
  <2>8. CASE Start \/ UNCHANGED vars
    BY <2>8 DEF Start, vars
  <2> QED BY <2>1, <2>2, <2>3, <2>4, <2>5, <2>6, <2>7, <2>8 DEF Next, Thread
<1> QED BY <1>1, <1>2, PTL DEF Spec, Pool!Spec
=============================================================================
