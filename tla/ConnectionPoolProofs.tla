------------------------- MODULE ConnectionPoolProofs -------------------------
(***************************************************************************)
(* Proofs of the properties of ConnectionPoolProps, for any number of      *)
(* connections and proxies.                                                *)
(***************************************************************************)
EXTENDS ConnectionPoolProps, FiniteSetTheorems, TLAPS


(***************************************************************************)
(* Types                                                                   *)
(***************************************************************************)

\* What get_connection iterates over is idle, and stays so under the mutex.
TypeInv == /\ TypeOK
           /\ untried \subseteq idle
           /\ \A p \in Proxies : mutex = p => state[p] = "asking"
           /\ \A p \in Proxies : state[p] # "live" => conn[p] = None
           /\ \A p \in using : conn[p] # None

LEMMA TakeOverTypes ==
  ASSUME NEW p \in Proxies, NEW q \in Proxies, p # q, TypeInv, TakeOver(p, q)
  PROVE  /\ conn' \in [Proxies -> Conns \cup {None}]
         /\ using' \in SUBSET Proxies
         /\ \A r \in Proxies : conn'[r] = IF r = q THEN None
                                          ELSE IF r = p THEN conn[q] ELSE conn[r]
         /\ \A r \in using' : conn'[r] # None
BY DEF TypeInv, TypeOK, TakeOver

LEMMA TypeInvariance == Spec => []TypeInv
<1>1. Init => TypeInv
  BY ConstantsAssumption DEF Init, TypeInv, TypeOK
<1>2. TypeInv /\ [Next]_vars => TypeInv'
  <2> SUFFICES ASSUME TypeInv, [Next]_vars PROVE TypeInv'
    OBVIOUS
  <2> USE ConstantsAssumption DEF TypeInv, TypeOK, poolVars
  <2>1. ASSUME NEW p \in Proxies, CallGet(p) PROVE TypeInv'
    BY <2>1 DEF CallGet
  <2>2. ASSUME NEW p \in Proxies, LockForGet(p) PROVE TypeInv'
    BY <2>2 DEF LockForGet
  <2>3. ASSUME NEW p \in Proxies, GiveUp(p) PROVE TypeInv'
    BY <2>3 DEF GiveUp
  <2>4. ASSUME NEW p \in Proxies, NEW c \in Conns, Take(p, c) PROVE TypeInv'
    <3>1. linkUp' \in [Conns -> BOOLEAN]
      BY <2>4 DEF Take, CheckPasses
    <3> QED BY <2>4, <3>1 DEF Take
  <2>5. ASSUME NEW p \in Proxies, NEW c \in Conns, Skip(p, c) PROVE TypeInv'
    BY <2>5 DEF Skip, CheckFails
  <2>6. ASSUME NEW p \in Proxies, Release(p) PROVE TypeInv'
    BY <2>6 DEF Release, ReleaseConnection
  <2>7. ASSUME NEW p \in Proxies, Destroy(p) PROVE TypeInv'
    <3>1. /\ idle' \in SUBSET Conns /\ busy' \in SUBSET Conns
          /\ untried' \subseteq idle' /\ UNCHANGED <<linkUp, mutex, untried>>
      BY <2>7 DEF Destroy, ReleaseConnection
    <3> QED BY <2>7, <3>1 DEF Destroy
  <2>8. ASSUME NEW p \in Proxies, NEW q \in Proxies, MoveConstruct(p, q)
        PROVE  TypeInv'
    <3>1. p # q /\ TakeOver(p, q)
      BY <2>8 DEF MoveConstruct
    <3> QED BY <2>8, <3>1, TakeOverTypes DEF MoveConstruct
  <2>9. ASSUME NEW p \in Proxies, NEW q \in Proxies, MoveAssign(p, q)
        PROVE  TypeInv'
    <3>1. p # q /\ TakeOver(p, q)
      BY <2>9 DEF MoveAssign
    <3> QED BY <2>9, <3>1, TakeOverTypes DEF MoveAssign
  <2>10. ASSUME NEW c \in Conns, LinkDrops(c) PROVE TypeInv'
    BY <2>10 DEF LinkDrops
  <2>11. CASE UNCHANGED vars
    BY <2>11 DEF vars
  <2> QED BY <2>1, <2>2, <2>3, <2>4, <2>5, <2>6, <2>7, <2>8, <2>9, <2>10, <2>11
          DEF Next, GetStep
<1> QED BY <1>1, <1>2, PTL DEF Spec

(***************************************************************************)
(* Every variable of the pool keeps to its type.                           *)
(***************************************************************************)
THEOREM TypeCorrect == Spec => []TypeOK
BY TypeInvariance, PTL DEF TypeInv

----------------------------------------------------------------------------
(***************************************************************************)
(* Conservation                                                            *)
(***************************************************************************)

(***************************************************************************)
(* Every connection is idle or busy and never both, on every use of the    *)
(* pool: moving nodes between the two maps under the mutex loses nothing,  *)
(* whatever is released twice or forgotten.                                *)
(***************************************************************************)
THEOREM ConnectionsAreConserved == Spec => []Conserved
<1>1. Init => Conserved
  BY DEF Init, Conserved
<1>2. TypeInv /\ Conserved /\ [Next]_vars => Conserved'
  <2> SUFFICES ASSUME TypeInv, Conserved, [Next]_vars PROVE Conserved'
    OBVIOUS
  <2> USE DEF TypeInv, TypeOK, Conserved
  <2>1. ASSUME NEW p \in Proxies, NEW c \in Conns, Take(p, c) PROVE Conserved'
    BY <2>1 DEF Take
  <2>2. ASSUME NEW p \in Proxies, Release(p) \/ Destroy(p) PROVE Conserved'
    BY <2>2 DEF Release, Destroy, ReleaseConnection, poolVars
  <2>3. ASSUME UNCHANGED <<idle, busy>> PROVE Conserved'
    BY <2>3
  <2>4. ASSUME NEW p \in Proxies, LockForGet(p) \/ GiveUp(p) \/ CallGet(p)
        PROVE  UNCHANGED <<idle, busy>>
    BY <2>4 DEF LockForGet, GiveUp, CallGet, poolVars
  <2>5. ASSUME NEW p \in Proxies, NEW c \in Conns, Skip(p, c) \/ LinkDrops(c)
        PROVE  UNCHANGED <<idle, busy>>
    BY <2>5 DEF Skip, LinkDrops
  <2>6. ASSUME NEW p \in Proxies, NEW q \in Proxies,
               MoveConstruct(p, q) \/ MoveAssign(p, q)
        PROVE  UNCHANGED <<idle, busy>>
    BY <2>6 DEF MoveConstruct, MoveAssign, poolVars
  <2>7. ASSUME NEW c \in Conns, LinkDrops(c) PROVE UNCHANGED <<idle, busy>>
    BY <2>7 DEF LinkDrops
  <2> QED BY <2>1, <2>2, <2>3, <2>4, <2>5, <2>6, <2>7 DEF Next, GetStep, vars
<1> QED BY <1>1, <1>2, TypeInvariance, PTL DEF Spec

----------------------------------------------------------------------------
(***************************************************************************)
(* Exclusive use                                                           *)
(***************************************************************************)

\* What a proxy is attached to is its own and busy.
UseInv == /\ \A p \in Proxies : conn[p] # None => p \in using
          /\ \A p \in using : conn[p] \in busy
          /\ \A p, q \in using : conn[p] = conn[q] => p = q

LEMMA TakeOverKeepsUse ==
  ASSUME NEW p \in Proxies, NEW q \in Proxies, p # q,
         TypeInv, UseInv, TakeOver(p, q), busy' = busy
  PROVE  UseInv'
<1>1. \A r \in Proxies : conn'[r] = IF r = q THEN None
                                    ELSE IF r = p THEN conn[q] ELSE conn[r]
  BY TakeOverTypes
<1>2. \A r \in Proxies : r \in using' <=> \/ r \notin {p, q} /\ r \in using
                                          \/ r = p /\ q \in using
  BY DEF TakeOver, TypeInv, TypeOK
<1>3. using' \subseteq Proxies /\ using \subseteq Proxies
  BY TakeOverTypes DEF TypeInv, TypeOK
<1> QED BY <1>1, <1>2, <1>3 DEF UseInv

LEMMA UseInvariance ==
  ASSUME ~ExplicitRelease
  PROVE  Spec => []UseInv
<1>1. Init => UseInv
  BY DEF Init, UseInv
<1>2. TypeInv /\ Conserved /\ UseInv /\ [Next]_vars => UseInv'
  <2> SUFFICES ASSUME TypeInv, Conserved, UseInv, [Next]_vars PROVE UseInv'
    OBVIOUS
  <2> USE ConstantsAssumption DEF TypeInv, TypeOK, UseInv
  <2>1. ASSUME NEW p \in Proxies, NEW c \in Conns, Take(p, c) PROVE UseInv'
    <3>1. c \notin busy /\ busy' = busy \cup {c} /\ using' = using \cup {p}
      BY <2>1 DEF Take, Conserved
    <3>2. \A r \in Proxies : conn'[r] = IF r = p THEN c ELSE conn[r]
      BY <2>1 DEF Take
    <3>3. p \notin using
      BY <2>1 DEF Take
    <3> QED BY <3>1, <3>2, <3>3
  <2>2. ASSUME NEW p \in Proxies, Destroy(p) PROVE UseInv'
    <3>1. busy' = busy \ {conn[p]}
      BY <2>2 DEF Destroy, ReleaseConnection, poolVars
    <3>2. \A r \in Proxies : conn'[r] = IF r = p THEN None ELSE conn[r]
      BY <2>2 DEF Destroy
    <3>3. using' = using \ {p} /\ using \subseteq Proxies
      BY <2>2 DEF Destroy
    <3>4. ASSUME NEW r \in using' PROVE conn'[r] \in busy'
      <4>1. r # p /\ r \in using /\ conn'[r] = conn[r]
        BY <3>2, <3>3
      <4>2. conn[p] # conn[r]
        BY <4>1
      <4> QED BY <3>1, <4>1, <4>2
    <3> QED BY <3>2, <3>3, <3>4
  <2>3. ASSUME NEW p \in Proxies, NEW q \in Proxies,
               MoveConstruct(p, q) \/ MoveAssign(p, q)
        PROVE  UseInv'
    <3>1. p # q /\ TakeOver(p, q) /\ busy' = busy
      BY <2>3 DEF MoveConstruct, MoveAssign, poolVars
    <3> QED BY <3>1, TakeOverKeepsUse
  <2>4. ASSUME UNCHANGED <<busy, conn, using>> PROVE UseInv'
    BY <2>4
  <2>5. ASSUME NEW p \in Proxies, LockForGet(p) \/ GiveUp(p) \/ CallGet(p)
        PROVE  UNCHANGED <<busy, conn, using>>
    BY <2>5 DEF LockForGet, GiveUp, CallGet, poolVars
  <2>6. ASSUME NEW p \in Proxies, NEW c \in Conns, Skip(p, c)
        PROVE  UNCHANGED <<busy, conn, using>>
    BY <2>6 DEF Skip
  <2>7. ASSUME NEW c \in Conns, LinkDrops(c)
        PROVE  UNCHANGED <<busy, conn, using>>
    BY <2>7 DEF LinkDrops
  <2>8. ASSUME NEW p \in Proxies PROVE ~Release(p)
    BY DEF Release
  <2> QED BY <2>1, <2>2, <2>3, <2>4, <2>5, <2>6, <2>7, <2>8
          DEF Next, GetStep, vars
<1> QED BY <1>1, <1>2, TypeInvariance, ConnectionsAreConserved, PTL DEF Spec

(***************************************************************************)
(* As long as proxies let go in their destructor only, a connection that   *)
(* get_connection hands out is nobody else's until that destructor runs.   *)
(***************************************************************************)
THEOREM UseIsExclusive ==
  ASSUME ~ExplicitRelease
  PROVE  Spec => []ExclusiveUse
<1>1. TypeOK /\ UseInv => ExclusiveUse
  <2> SUFFICES ASSUME TypeOK, UseInv, NEW c \in Conns
               PROVE  Cardinality(Users(c)) <= 1
    BY DEF ExclusiveUse
  <2>1. CASE Users(c) = {}
    BY <2>1, FS_EmptySet
  <2>2. ASSUME NEW p \in Users(c) PROVE Cardinality(Users(c)) = 1
    <3>1. Users(c) = {p}
      BY DEF Users, UseInv
    <3> QED BY <3>1, FS_Singleton
  <2> QED BY <2>1, <2>2
<1> QED BY <1>1, TypeCorrect, UseInvariance, PTL

(***************************************************************************)
(* With the same proviso, heart_beat and get_connection, which touch idle  *)
(* connections only, never touch one that somebody uses.                   *)
(***************************************************************************)
THEOREM UsedConnectionsAreBusy ==
  ASSUME ~ExplicitRelease
  PROVE  Spec => []UsedIsBusy
<1>1. UseInv => UsedIsBusy
  BY DEF UseInv, UsedIsBusy
<1> QED BY <1>1, UseInvariance, PTL

(***************************************************************************)
(* As long as no proxy that is attached is assigned to, no connection      *)
(* leaks: each busy one has a user, explicit releases or not.              *)
(***************************************************************************)
THEOREM BusyConnectionsAreUsed ==
  ASSUME ~Overwrites
  PROVE  Spec => []BusyForAReason
<1>1. Init => BusyForAReason
  BY DEF Init, BusyForAReason
<1>2. TypeInv /\ BusyForAReason /\ [Next]_vars => BusyForAReason'
  <2> SUFFICES ASSUME TypeInv, BusyForAReason, [Next]_vars
               PROVE  BusyForAReason'
    OBVIOUS
  <2> USE ConstantsAssumption DEF TypeInv, TypeOK, BusyForAReason, Users
  <2>1. ASSUME NEW p \in Proxies, NEW c \in Conns, Take(p, c) PROVE BusyForAReason'
    <3>1. p \notin using
      BY <2>1 DEF Take
    <3> QED BY <2>1, <3>1 DEF Take
  <2>2. ASSUME NEW p \in Proxies, Destroy(p) PROVE BusyForAReason'
    <3>1. busy' = busy \ {conn[p]}
      BY <2>2 DEF Destroy, ReleaseConnection, poolVars
    <3> QED BY <2>2, <3>1 DEF Destroy
  <2>3. ASSUME NEW p \in Proxies, Release(p) PROVE BusyForAReason'
    BY <2>3 DEF Release, ReleaseConnection
  <2>4. ASSUME NEW p \in Proxies, NEW q \in Proxies,
               MoveConstruct(p, q) \/ MoveAssign(p, q)
        PROVE  BusyForAReason'
    <3>1. p # q /\ TakeOver(p, q) /\ busy' = busy /\ conn[p] = None
      BY <2>4 DEF MoveConstruct, MoveAssign, poolVars
    <3>2. \A r \in Proxies : conn'[r] = IF r = q THEN None
                                        ELSE IF r = p THEN conn[q] ELSE conn[r]
      BY <3>1, TakeOverTypes
    <3>3. using' = (using \ {p, q}) \cup (IF q \in using THEN {p} ELSE {})
      BY <3>1 DEF TakeOver
    <3> QED BY <3>1, <3>2, <3>3
  <2>5. ASSUME UNCHANGED <<busy, conn, using>> PROVE BusyForAReason'
    BY <2>5
  <2>6. ASSUME NEW p \in Proxies, LockForGet(p) \/ GiveUp(p) \/ CallGet(p)
        PROVE  UNCHANGED <<busy, conn, using>>
    BY <2>6 DEF LockForGet, GiveUp, CallGet, poolVars
  <2>7. ASSUME NEW p \in Proxies, NEW c \in Conns, Skip(p, c)
        PROVE  UNCHANGED <<busy, conn, using>>
    BY <2>7 DEF Skip
  <2>8. ASSUME NEW c \in Conns, LinkDrops(c)
        PROVE  UNCHANGED <<busy, conn, using>>
    BY <2>8 DEF LinkDrops
  <2> QED BY <2>1, <2>2, <2>3, <2>4, <2>5, <2>6, <2>7, <2>8
          DEF Next, GetStep, vars
<1> QED BY <1>1, <1>2, TypeInvariance, PTL DEF Spec

----------------------------------------------------------------------------
(***************************************************************************)
(* The refinement                                                          *)
(***************************************************************************)

\* As long as connect() does not fail, get_connection skips no connection.
NothingSkipped == \A p \in Proxies : mutex = p => untried = idle

LEMMA NothingSkippedInvariance ==
  ASSUME ~ConnectMayFail
  PROVE  Spec => []NothingSkipped
<1>1. Init => NothingSkipped
  BY ConstantsAssumption DEF Init, NothingSkipped
<1>2. TypeInv /\ NothingSkipped /\ [Next]_vars => NothingSkipped'
  <2> SUFFICES ASSUME TypeInv, NothingSkipped, [Next]_vars
               PROVE  NothingSkipped'
    OBVIOUS
  <2> USE ConstantsAssumption DEF TypeInv, TypeOK, NothingSkipped, poolVars
  <2>1. ASSUME NEW p \in Proxies, LockForGet(p) \/ GiveUp(p) \/ CallGet(p)
        PROVE  NothingSkipped'
    BY <2>1 DEF LockForGet, GiveUp, CallGet
  <2>2. ASSUME NEW p \in Proxies, NEW c \in Conns, Take(p, c) \/ LinkDrops(c)
        PROVE  NothingSkipped'
    BY <2>2 DEF Take, LinkDrops
  <2>3. ASSUME NEW p \in Proxies, NEW c \in Conns PROVE ~Skip(p, c)
    BY DEF Skip, CheckFails
  <2>4. ASSUME NEW p \in Proxies, Release(p) \/ Destroy(p) PROVE NothingSkipped'
    BY <2>4 DEF Release, Destroy, ReleaseConnection
  <2>5. ASSUME NEW p \in Proxies, NEW q \in Proxies,
               MoveConstruct(p, q) \/ MoveAssign(p, q)
        PROVE  NothingSkipped'
    BY <2>5 DEF MoveConstruct, MoveAssign
  <2>6. ASSUME NEW c \in Conns, LinkDrops(c) PROVE NothingSkipped'
    BY <2>6 DEF LinkDrops
  <2>7. CASE UNCHANGED vars
    BY <2>7 DEF vars
  <2> QED BY <2>1, <2>2, <2>3, <2>4, <2>5, <2>6, <2>7 DEF Next, GetStep
<1> QED BY <1>1, <1>2, TypeInvariance, PTL DEF Spec

\* The owner of a connection is the proxy that uses it.
OwnerIsUser ==
  \A c \in Conns :
    /\ Owner[c] \in Proxies \cup {None}
    /\ \A p \in Proxies : Owner[c] = p <=> p \in using /\ conn[p] = c

LEMMA OwnersAreUsers == TypeInv /\ UseInv => OwnerIsUser
<1> SUFFICES ASSUME TypeInv, UseInv, NEW c \in Conns
             PROVE  /\ Owner[c] \in Proxies \cup {None}
                    /\ \A p \in Proxies : Owner[c] = p <=> p \in using /\ conn[p] = c
  BY DEF OwnerIsUser
<1>1. CASE Users(c) = {}
  BY <1>1, ConstantsAssumption DEF Owner, Users
<1>2. ASSUME NEW q \in Users(c)
      PROVE  /\ Owner[c] \in Proxies \cup {None}
             /\ \A p \in Proxies : Owner[c] = p <=> p \in using /\ conn[p] = c
  <2>1. Users(c) = {q} /\ q \in Proxies
    BY DEF Users, UseInv, TypeInv, TypeOK
  <2>2. Owner[c] = q
    BY <2>1 DEF Owner
  <2> QED BY <2>1, <2>2 DEF Users
<1> QED BY <1>1, <1>2

(***************************************************************************)
(* With destructors as the only releases and no proxy assigned over, every *)
(* step of the pool is a step of the lease or changes nothing in it; with  *)
(* a connect() that never fails, as TcpConnection's, a refusal means that  *)
(* every connection is taken.  This is the safety part of ImplementsLease. *)
(***************************************************************************)
THEOREM ImplementsLeaseSafely ==
  ASSUME ~ExplicitRelease, ~Overwrites
  PROVE  Spec => L!Spec
<1> DEFINE asking == {p \in Proxies : state[p] = "asking"}
           Inv == /\ TypeInv /\ Conserved /\ UseInv /\ BusyForAReason
                  /\ ConnectMayFail \/ NothingSkipped
<1>1. Init => L!Init
  BY DEF Init, L!Init, Owner, Users
<1>2. OwnerIsUser' <=> \A c \in Conns :
        /\ Owner'[c] \in Proxies \cup {None}
        /\ \A p \in Proxies : Owner'[c] = p <=> p \in using' /\ conn'[p] = c
  BY DEF OwnerIsUser
<1>3. Inv /\ OwnerIsUser /\ OwnerIsUser' /\ [Next]_vars => [L!Next]_(L!leaseVars)
  <2> SUFFICES ASSUME Inv, OwnerIsUser, OwnerIsUser', [Next]_vars
               PROVE  L!Next \/ UNCHANGED <<Owner, asking>>
    BY DEF L!leaseVars
  <2> USE ConstantsAssumption DEF TypeInv, TypeOK, poolVars
  <2>0. Owner = [c \in Conns |-> Owner[c]] /\ Owner' = [c \in Conns |-> Owner'[c]]
    BY DEF Owner
  <2>1. ASSUME UNCHANGED <<conn, using>> PROVE Owner' = Owner
    BY <2>1 DEF Owner, Users
  <2>2. ASSUME NEW p \in Proxies, state[p] # "live"
        PROVE  ~L!Has(p)
    BY <2>2 DEF L!Has, OwnerIsUser
  <2>3. ASSUME NEW p \in Proxies, CallGet(p) PROVE L!Ask(p)
    BY <2>1, <2>2, <2>3 DEF CallGet, L!Ask
  <2>4. ASSUME NEW p \in Proxies, LockForGet(p) PROVE UNCHANGED <<Owner, asking>>
    BY <2>1, <2>4 DEF LockForGet
  <2>5. ASSUME NEW p \in Proxies, GiveUp(p) PROVE L!Refuse(p)
    <3>1. p \in asking /\ asking' = asking \ {p} /\ Owner' = Owner
      BY <2>1, <2>5 DEF GiveUp
    <3>2. CASE ~ConnectMayFail
      <4>1. busy = Conns
        BY <2>5, <3>2 DEF GiveUp, NothingSkipped, Conserved
      <4>2. ASSUME NEW c \in Conns PROVE Owner[c] # None
        BY <4>1 DEF BusyForAReason, Users, OwnerIsUser
      <4> QED BY <3>1, <4>2 DEF L!Refuse, L!Free
    <3> QED BY <3>1, <3>2 DEF L!Refuse
  <2>6. ASSUME NEW p \in Proxies, NEW c \in Conns, Take(p, c) PROVE L!Grant(p, c)
    <3>1. p \in asking /\ asking' = asking \ {p}
      BY <2>6 DEF Take
    <3>2. c \notin busy /\ p \notin using
      BY <2>6 DEF Take, Conserved
    <3>3. Owner[c] = None
      BY <3>2 DEF UseInv, OwnerIsUser
    <3>4. \A r \in Proxies : conn'[r] = IF r = p THEN c ELSE conn[r]
      BY <2>6 DEF Take
    <3>5. using' = using \cup {p}
      BY <2>6 DEF Take
    <3>6. ASSUME NEW d \in Conns
          PROVE  Owner'[d] = IF d = c THEN p ELSE Owner[d]
      BY <1>2, <3>2, <3>3, <3>4, <3>5 DEF OwnerIsUser
    <3> QED BY <2>0, <3>1, <3>3, <3>6 DEF L!Grant, L!Free
  <2>7. ASSUME NEW p \in Proxies, NEW c \in Conns, Skip(p, c)
        PROVE  UNCHANGED <<Owner, asking>>
    BY <2>1, <2>7 DEF Skip
  <2>8. ASSUME NEW p \in Proxies PROVE ~Release(p)
    BY DEF Release
  <2>9. ASSUME NEW p \in Proxies, Destroy(p), conn[p] # None
        PROVE  L!Next
    <3>1. asking' = asking
      BY <2>9 DEF Destroy
    <3>2. conn[p] \in Conns /\ p \in using /\ Owner[conn[p]] = p
      BY <2>9 DEF UseInv, OwnerIsUser
    <3>3. \A r \in Proxies : conn'[r] = IF r = p THEN None ELSE conn[r]
      BY <2>9 DEF Destroy
    <3>4. using' = using \ {p}
      BY <2>9 DEF Destroy
    <3>5. ASSUME NEW d \in Conns
          PROVE  Owner'[d] = IF d = conn[p] THEN None ELSE Owner[d]
      BY <1>2, <3>2, <3>3, <3>4 DEF OwnerIsUser, UseInv
    <3>6. L!Return(conn[p])
      BY <2>0, <3>1, <3>2, <3>5 DEF L!Return
    <3> QED BY <3>2, <3>6 DEF L!Next
  <2>10. ASSUME NEW p \in Proxies, Destroy(p), conn[p] = None
         PROVE  UNCHANGED <<Owner, asking>>
    <3>1. conn' = conn /\ using' = using /\ asking' = asking
      BY <2>10 DEF Destroy
    <3> QED BY <2>1, <3>1
  <2>11. ASSUME NEW p \in Proxies, NEW q \in Proxies,
                MoveConstruct(p, q) \/ MoveAssign(p, q)
         PROVE  L!Next \/ UNCHANGED <<Owner, asking>>
    <3>1. p # q /\ conn[p] = None /\ asking' = asking /\ p \notin asking
      BY <2>11 DEF MoveConstruct, MoveAssign
    <3>2. \A r \in Proxies : conn'[r] = IF r = q THEN None
                                        ELSE IF r = p THEN conn[q] ELSE conn[r]
      BY <2>11, <3>1, TakeOverTypes DEF MoveConstruct, MoveAssign
    <3>3. using' = (using \ {p, q}) \cup (IF q \in using THEN {p} ELSE {})
      BY <2>11 DEF MoveConstruct, MoveAssign, TakeOver
    <3>4. CASE conn[q] = None
      <4>1. conn' = conn /\ using' = using
        BY <2>11, <3>1, <3>3, <3>4 DEF MoveConstruct, MoveAssign, TakeOver
      <4> QED BY <2>1, <3>1, <4>1
    <3>5. CASE conn[q] # None
      <4>1. conn[q] \in Conns /\ q \in using /\ Owner[conn[q]] = q
        BY <3>5 DEF UseInv, OwnerIsUser
      <4>2. ASSUME NEW d \in Conns
            PROVE  Owner'[d] = IF d = conn[q] THEN p ELSE Owner[d]
        BY <1>2, <3>1, <3>2, <3>3, <4>1 DEF OwnerIsUser, UseInv
      <4>3. ~L!Has(p)
        BY <3>1 DEF L!Has, OwnerIsUser
      <4>4. L!HandOver(p, conn[q])
        BY <2>0, <3>1, <4>1, <4>2, <4>3 DEF L!HandOver
      <4> QED BY <4>1, <4>4 DEF L!Next
    <3> QED BY <3>4, <3>5
  <2>12. ASSUME NEW c \in Conns, LinkDrops(c) PROVE UNCHANGED <<Owner, asking>>
    BY <2>1, <2>12 DEF LinkDrops
  <2>13. CASE UNCHANGED vars
    BY <2>1, <2>13 DEF vars
  <2>14. ASSUME NEW p \in Proxies,
                L!Ask(p) \/ L!Refuse(p) \/ \E c \in Conns : L!Grant(p, c)
         PROVE  L!Next
    BY <2>14 DEF L!Next, L!Answer
  <2>15. ASSUME NEW p \in Proxies, Destroy(p)
         PROVE  L!Next \/ UNCHANGED <<Owner, asking>>
    BY <2>9, <2>10, <2>15
  <2> HIDE DEF asking
  <2> QED BY <2>3, <2>4, <2>5, <2>6, <2>7, <2>8, <2>11, <2>12, <2>13, <2>14,
             <2>15 DEF Next, GetStep
<1>4. Spec => []Inv
  <2>1. Spec => [](TypeInv /\ Conserved /\ UseInv /\ BusyForAReason)
    BY TypeInvariance, ConnectionsAreConserved, UseInvariance,
       BusyConnectionsAreUsed, PTL
  <2>2. CASE ConnectMayFail
    BY <2>1, <2>2, PTL
  <2>3. CASE ~ConnectMayFail
    BY <2>1, <2>3, NothingSkippedInvariance, PTL
  <2> QED BY <2>2, <2>3
<1>5. Inv => OwnerIsUser
  BY OwnersAreUsers
<1> QED BY <1>1, <1>3, <1>4, <1>5, PTL DEF Spec, L!Spec
=============================================================================
