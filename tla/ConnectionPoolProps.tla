------------------------- MODULE ConnectionPoolProps -------------------------
(***************************************************************************)
(* What the connection pool guarantees, and on which use of it.            *)
(***************************************************************************)
EXTENDS ConnectionPool

TypeOK ==
  /\ idle \in SUBSET Conns
  /\ busy \in SUBSET Conns
  /\ linkUp \in [Conns -> BOOLEAN]
  /\ mutex \in Proxies \cup {None}
  /\ untried \in SUBSET Conns
  /\ state \in [Proxies -> {"none", "asking", "live"}]
  /\ conn \in [Proxies -> Conns \cup {None}]
  /\ using \in SUBSET Proxies

(***************************************************************************)
(* No connection is lost from the pool or counted twice, however releases, *)
(* moves and double releases are interleaved: this is what the size        *)
(* assertions of test_basic.h:12-20 and 26-28 check on one sequential use. *)
(***************************************************************************)
Conserved == idle \cup busy = Conns /\ idle \cap busy = {}

(***************************************************************************)
(* Two users never have the same connection.  True as long as proxies are  *)
(* only let go by their destructor.                                        *)
(***************************************************************************)
ExclusiveUse == \A c \in Conns : Cardinality(Users(c)) <= 1

(***************************************************************************)
(* A connection that somebody uses is busy, so that neither heart_beat nor *)
(* another get_connection touches it: "Only send heart beat on idle        *)
(* connections" (pool.cpp:172).  True as long as proxies are only let go   *)
(* by their destructor; broken by release_connection(proxy&&), which       *)
(* leaves the proxy attached, so that its destructor releases the          *)
(* connection again when it is already somebody else's.                    *)
(***************************************************************************)
UsedIsBusy == \A p \in using : conn[p] \in busy

(***************************************************************************)
(* "busy connections should be busy for a reason" (pool.cpp:173): somebody *)
(* uses them.  True unless a proxy that is attached is assigned to, which  *)
(* forgets its connection.                                                 *)
(***************************************************************************)
BusyForAReason == \A c \in busy : Users(c) # {}

(***************************************************************************)
(* With its destructors as the only releases, and no proxy assigned over,  *)
(* the pool is a lease: exclusive, refusing only when every connection is  *)
(* taken (or connect() failed), answering whoever asks.                    *)
(***************************************************************************)
Owner == [c \in Conns |-> IF Users(c) = {} THEN None ELSE CHOOSE p \in Users(c) : TRUE]

L == INSTANCE Lease WITH
       Resources <- Conns, Owners <- Proxies, MayRefuse <- ConnectMayFail,
       owner <- Owner, asking <- {p \in Proxies : state[p] = "asking"}

ImplementsLease == L!FairSpec
=============================================================================
