---------------------------- MODULE ConnectionPool ----------------------------
(***************************************************************************)
(* cpool::ConnectionPool and its ConnectionProxy (connection-pool/src/     *)
(* pool.cpp): connections that are idle or busy, and the movable proxy     *)
(* objects through which threads use the busy ones.                        *)
(*                                                                         *)
(* get_connection holds m_connections_mtx while it checks, and where       *)
(* needed reconnects, one idle connection after the other; every other     *)
(* operation is a single critical section.  A connection is anything that  *)
(* implements the Connection interface: the constants say how is_healthy() *)
(* and connect() may behave, and tell TestConnection and TcpConnection     *)
(* apart.                                                                  *)
(***************************************************************************)
EXTENDS Naturals, FiniteSets

CONSTANTS Conns,            \* the connections given to the constructor
          Proxies,          \* ConnectionProxy objects, reused after their end
          None,             \* nullptr
          ReportsHealth,    \* is_healthy() tells whether the link is up
                            \* (TestConnection) or is always false (TcpConnection)
          ConnectMayFail,   \* connect() may return false (neither of the two does)
          ExplicitRelease,  \* some caller uses release_connection(proxy&&)
          Overwrites        \* some caller assigns to a proxy that is attached

ASSUME ConstantsAssumption ==
  /\ None \notin Conns \cup Proxies
  /\ {ReportsHealth, ConnectMayFail, ExplicitRelease, Overwrites} \subseteq BOOLEAN

VARIABLES idle,   \* m_connections_idle
          busy,   \* m_connections_busy
          linkUp, \* whether each connection has a working link to the server
          mutex,  \* m_connections_mtx: the proxy get_connection constructs, or None
          untried,\* the idle connections that this get_connection has yet to check
          state,  \* the life of each proxy object
          conn,   \* m_connection of each proxy; m_pool is null exactly when it is
          using   \* the proxies that obtained a connection and have not let it go

vars == <<idle, busy, linkUp, mutex, untried, state, conn, using>>
poolVars == <<idle, busy, linkUp, mutex, untried>>

\* The users of a connection; at most one, one hopes.
Users(c) == {p \in using : conn[p] = c}

\* ConnectionProxy::valid
Valid(p) == conn[p] # None /\ conn[p] \in busy

Init == /\ idle = Conns
        /\ busy = {}
        /\ linkUp = [c \in Conns |-> FALSE]
        /\ mutex = None
        /\ untried = {}
        /\ state = [p \in Proxies |-> "none"]
        /\ conn = [p \in Proxies |-> None]
        /\ using = {}

----------------------------------------------------------------------------
(***************************************************************************)
(* get_connection                                                          *)
(***************************************************************************)

\* A thread enters get_connection to construct proxy p ...
CallGet(p) == /\ state[p] = "none"
              /\ state' = [state EXCEPT ![p] = "asking"]
              /\ UNCHANGED <<poolVars, conn, using>>

\* ... and gets the mutex.
LockForGet(p) == /\ state[p] = "asking"
                 /\ mutex = None
                 /\ mutex' = p
                 /\ untried' = idle
                 /\ UNCHANGED <<idle, busy, linkUp, state, conn, using>>

IsHealthy(c) == ReportsHealth /\ linkUp[c]

(***************************************************************************)
(* check_connect: a healthy connection passes; otherwise connect() decides *)
(* (c then has a link or not), but a connect() that throws counts as a     *)
(* success: the catch block falls through to "return true".                *)
(***************************************************************************)
CheckPasses(c) == \/ /\ IsHealthy(c)
                     /\ UNCHANGED linkUp
                  \/ /\ ~IsHealthy(c)
                     /\ \E threw \in BOOLEAN :
                          linkUp' = [linkUp EXCEPT ![c] = ~threw]

CheckFails(c) == /\ ~IsHealthy(c)
                 /\ ConnectMayFail
                 /\ linkUp' = [linkUp EXCEPT ![c] = FALSE]

\* The order of the unordered_map is anybody's guess.
Take(p, c) == /\ mutex = p
              /\ c \in untried
              /\ CheckPasses(c)
              /\ idle' = idle \ {c}
              /\ busy' = busy \cup {c}
              /\ mutex' = None
              /\ untried' = {}
              /\ state' = [state EXCEPT ![p] = "live"]
              /\ conn' = [conn EXCEPT ![p] = c]
              /\ using' = using \cup {p}

Skip(p, c) == /\ mutex = p
              /\ c \in untried
              /\ CheckFails(c)
              /\ untried' = untried \ {c}
              /\ UNCHANGED <<idle, busy, mutex, state, conn, using>>

\* Mutant of GiveUp: a return on which the mutex stays locked.
GiveUpLocked(p) == /\ mutex = p
                   /\ untried = {}
                   /\ state' = [state EXCEPT ![p] = "live"]
                   /\ UNCHANGED <<idle, busy, linkUp, mutex, untried, conn, using>>

\* ConnectionProxy{nullptr, nullptr}
GiveUp(p) == /\ mutex = p
             /\ untried = {}
             /\ mutex' = None
             /\ state' = [state EXCEPT ![p] = "live"]
             /\ UNCHANGED <<idle, busy, linkUp, untried, conn, using>>

----------------------------------------------------------------------------
(***************************************************************************)
(* release_connection, and the life of a proxy                             *)
(***************************************************************************)

\* Mutant of ReleaseConnection: the node is inserted but not extracted.
ReleaseCopies(c) == /\ mutex = None
                    /\ idle' = idle \cup (busy \cap {c})
                    /\ UNCHANGED <<busy, linkUp, mutex, untried>>

\* release_connection(Connection *): ignored unless the connection is busy.
ReleaseConnection(c) == /\ mutex = None
                        /\ busy' = busy \ {c}
                        /\ idle' = idle \cup (busy \cap {c})
                        /\ UNCHANGED <<linkUp, mutex, untried>>

\* release_connection(ConnectionProxy &&) leaves the proxy attached.
Release(p) == /\ ExplicitRelease
              /\ p \in using
              /\ ReleaseConnection(conn[p])
              /\ using' = using \ {p}
              /\ UNCHANGED <<state, conn>>

\* Mutant of Destroy: neither the null check nor the look-up among the busy.
DestroyUnchecked(p) == /\ state[p] = "live"
                       /\ mutex = None
                       /\ busy' = busy \ {conn[p]}
                       /\ idle' = idle \cup {conn[p]}
                       /\ state' = [state EXCEPT ![p] = "none"]
                       /\ conn' = [conn EXCEPT ![p] = None]
                       /\ using' = using \ {p}
                       /\ UNCHANGED <<linkUp, mutex, untried>>

\* Mutant of Destroy: the destructor does not release.
DestroyForgets(p) == /\ state[p] = "live"
                     /\ state' = [state EXCEPT ![p] = "none"]
                     /\ conn' = [conn EXCEPT ![p] = None]
                     /\ using' = using \ {p}
                     /\ UNCHANGED poolVars

\* ~ConnectionProxy
Destroy(p) == /\ state[p] = "live"
              /\ \/ conn[p] = None /\ UNCHANGED poolVars
                 \/ conn[p] # None /\ ReleaseConnection(conn[p])
              /\ state' = [state EXCEPT ![p] = "none"]
              /\ conn' = [conn EXCEPT ![p] = None]
              /\ using' = using \ {p}

\* Mutant of TakeOver: a move that leaves the other proxy attached.
TakeOverCopies(p, q) ==
  /\ conn' = [conn EXCEPT ![p] = conn[q]]
  /\ using' = (using \ {p, q}) \cup (IF q \in using THEN {p} ELSE {})

\* p takes what q has, and q is left with null pointers.
TakeOver(p, q) ==
  /\ conn' = [conn EXCEPT ![p] = conn[q], ![q] = None]
  /\ using' = (using \ {p, q}) \cup (IF q \in using THEN {p} ELSE {})

MoveConstruct(p, q) == /\ state[p] = "none"
                       /\ state[q] = "live"
                       /\ TakeOver(p, q)
                       /\ state' = [state EXCEPT ![p] = "live"]
                       /\ UNCHANGED poolVars

\* operator=: whatever p had is forgotten, not released.
MoveAssign(p, q) == /\ p # q
                    /\ state[p] = "live"
                    /\ state[q] = "live"
                    /\ conn[p] = None \/ Overwrites
                    /\ TakeOver(p, q)
                    /\ UNCHANGED <<poolVars, state>>

\* The server or the network ends a link, or a user calls disconnect().
LinkDrops(c) == /\ linkUp[c]
                /\ linkUp' = [linkUp EXCEPT ![c] = FALSE]
                /\ UNCHANGED <<idle, busy, mutex, untried, state, conn, using>>

----------------------------------------------------------------------------
GetStep(p) == GiveUp(p) \/ \E c \in Conns : Take(p, c) \/ Skip(p, c)

Next == \/ \E p \in Proxies : \/ CallGet(p)
                              \/ LockForGet(p)
                              \/ GetStep(p)
                              \/ Release(p)
                              \/ Destroy(p)
                              \/ \E q \in Proxies : MoveConstruct(p, q) \/ MoveAssign(p, q)
        \/ \E c \in Conns : LinkDrops(c)

Spec == Init /\ [][Next]_vars

(***************************************************************************)
(* connect() returns or throws sooner or later, so that get_connection     *)
(* goes on once it has the mutex; and whoever waits for the mutex is not   *)
(* overtaken for ever.  Nobody has to release or destroy anything.         *)
(***************************************************************************)
Fairness == \A p \in Proxies : SF_vars(LockForGet(p)) /\ WF_vars(GetStep(p))

FairSpec == Spec /\ Fairness
=============================================================================
