------------------------------- MODULE SocketRef -------------------------------
(***************************************************************************)
(* The socket wrapper (connection-pool/src/socket): Socket objects share a *)
(* descriptor through a counter, which the last copy's destructor closes.  *)
(* Close, Reconnect, operator= and the destructor of CClientSocket go past *)
(* the counter.  An object belongs to one thread; the threads interleave.  *)
(* A counter is named by a number, in the order of their creation.  The    *)
(* engines of protocol-server and protocol-client have the same wrapper,   *)
(* passthrough-proxy one without CClientSocket.                            *)
(***************************************************************************)
EXTENDS Integers, FiniteSetsExt

CONSTANTS Objects,         \* the objects that may live at a time
          NumDescriptors,  \* the descriptors of the process
          MaxCounters,     \* bound: how many counters are created
          MaxCount         \* bound: how high one may count

VARIABLES
  object,     \* "none", "Socket", "CClientSocket", or "~Socket": a CClientSocket
              \* between the bodies of its two destructors
  s_,         \* the descriptor of each object
  refCounter, \* the counter of each object
  count,      \* what each counter says; 0 before its creation and once deleted
  nofSockets, \* Socket::nofSockets_
  opened,     \* the counter of the object for which each descriptor was opened, or 0
  shut,       \* the objects that were closed, and have no other descriptor since
  careful     \* no operation has gone past a counter that others hold, and none
              \* has opened a descriptor while an object holds a closed one

socketVars == <<object, s_, refCounter, count, nofSockets, opened, shut, careful>>

Descriptors == 1..NumDescriptors
INVALID_SOCKET == -1
Live == {o \in Objects : object[o] # "none"}
Holders(c) == {o \in Live : refCounter[o] = c}

Init == /\ object = [o \in Objects |-> "none"]
        /\ s_ = [o \in Objects |-> INVALID_SOCKET]
        /\ refCounter = [o \in Objects |-> 0]
        /\ count = [c \in 1..MaxCounters |-> 0]
        /\ nofSockets = 0
        /\ opened = [d \in Descriptors |-> 0]
        /\ shut = {}
        /\ careful = TRUE

\* The counters are created in turn; NewCounter is the next of them.
Created == {c \in 1..MaxCounters : count[c] > 0} \cup {refCounter[o] : o \in Objects}
NewCounter == Max(Created \cup {0}) + 1

\* socket(), accept(): the lowest number that is free, or an error.
Free(of) == {d \in Descriptors : of[d] = 0}
Lowest(of) == IF Free(of) = {} THEN INVALID_SOCKET ELSE Min(Free(of))

\* close(): an error if the descriptor is not open.
CloseSocket(d) == [opened EXCEPT ![d] = 0]

\* What becomes of the descriptors when an object closes its own.
Closed(o) == IF s_[o] \in Descriptors THEN CloseSocket(s_[o]) ELSE opened

----------------------------------------------------------------------------
(* Constructors *)

\* Socket() and CClientSocket(), whose connect() worked; Accept(), which wraps
\* what accept() returned.  The copies of an object are plain Sockets.
Construct(o, class) ==
  /\ object[o] = "none" /\ NewCounter <= MaxCounters /\ Free(opened) # {}
  /\ object' = [object EXCEPT ![o] = class]
  /\ s_' = [s_ EXCEPT ![o] = Lowest(opened)]
  /\ refCounter' = [refCounter EXCEPT ![o] = NewCounter]
  /\ count' = [count EXCEPT ![NewCounter] = 1]
  /\ opened' = [opened EXCEPT ![Lowest(opened)] = NewCounter]
  /\ nofSockets' = nofSockets + 1
  /\ careful' = (careful /\ shut = {})
  /\ UNCHANGED shut

\* socket() fails: Start() has counted an object that does not come to be.
ConstructThrows == /\ Free(opened) = {} /\ nofSockets < MaxCount
                   /\ nofSockets' = nofSockets + 1
                   /\ UNCHANGED <<object, s_, refCounter, count, opened, shut, careful>>

\* Mutant of Copy: the copy is not counted.
CopyUncounted(o, p) ==
  /\ object[p] = "none" /\ object[o] \in {"Socket", "CClientSocket"}
  /\ count[refCounter[o]] < MaxCount
  /\ object' = [object EXCEPT ![p] = "Socket"]
  /\ refCounter' = [refCounter EXCEPT ![p] = refCounter[o]]
  /\ s_' = [s_ EXCEPT ![p] = s_[o]]
  /\ nofSockets' = nofSockets + 1
  /\ shut' = IF o \in shut THEN shut \cup {p} ELSE shut
  /\ UNCHANGED <<count, opened, careful>>

Copy(o, p) ==
  /\ object[p] = "none" /\ object[o] \in {"Socket", "CClientSocket"}
  /\ count[refCounter[o]] < MaxCount
  /\ object' = [object EXCEPT ![p] = "Socket"]
  /\ refCounter' = [refCounter EXCEPT ![p] = refCounter[o]]
  /\ count' = [count EXCEPT ![refCounter[o]] = @ + 1]
  /\ s_' = [s_ EXCEPT ![p] = s_[o]]
  /\ nofSockets' = nofSockets + 1
  /\ shut' = IF o \in shut THEN shut \cup {p} ELSE shut
  /\ UNCHANGED <<opened, careful>>

\* operator=: what p held before is neither closed nor counted down.
Assign(o, p) ==
  /\ {object[o], object[p]} \subseteq {"Socket", "CClientSocket"}
  /\ count[refCounter[o]] < MaxCount /\ nofSockets < MaxCount
  /\ count' = [count EXCEPT ![refCounter[o]] = @ + 1]
  /\ refCounter' = [refCounter EXCEPT ![p] = refCounter[o]]
  /\ s_' = [s_ EXCEPT ![p] = s_[o]]
  /\ nofSockets' = nofSockets + 1
  /\ shut' = IF o \in shut THEN shut \cup {p} ELSE shut \ {p}
  /\ careful' = FALSE
  /\ UNCHANGED <<object, opened>>

----------------------------------------------------------------------------
(* Close, Reconnect, and the destructors *)

\* An operation on a descriptor that only o holds.
Alone(o) == Holders(refCounter[o]) = {o}

Close(o) == /\ object[o] \in {"Socket", "CClientSocket"}
            /\ opened' = Closed(o)
            /\ shut' = shut \cup {o}
            /\ careful' = (careful /\ Alone(o))
            /\ UNCHANGED <<object, s_, refCounter, count, nofSockets>>

\* The new number is o's alone; its copies keep the old one.  A connect() that
\* fails leaves the descriptor open.
Reconnect(o) == /\ object[o] = "CClientSocket"
                /\ LET d == Lowest(Closed(o)) IN
                     /\ s_' = [s_ EXCEPT ![o] = d]
                     /\ opened' = IF d \in Descriptors
                                    THEN [Closed(o) EXCEPT ![d] = refCounter[o]]
                                    ELSE Closed(o)
                /\ shut' = shut \ {o}
                /\ careful' = (careful /\ Alone(o) /\ shut \subseteq {o})
                /\ UNCHANGED <<object, refCounter, count, nofSockets>>

\* ~CClientSocket: Close(), and ~Socket is still to come.
DestroyClient(o) == /\ object[o] = "CClientSocket"
                    /\ object' = [object EXCEPT ![o] = "~Socket"]
                    /\ opened' = Closed(o)
                    /\ shut' = shut \cup {o}
                    /\ careful' = (careful /\ Alone(o))
                    /\ UNCHANGED <<s_, refCounter, count, nofSockets>>

Destroy(o) == /\ object[o] \in {"Socket", "~Socket"}
              /\ count' = [count EXCEPT ![refCounter[o]] = @ - 1]
              /\ opened' = IF count[refCounter[o]] = 1 THEN Closed(o) ELSE opened
              /\ object' = [object EXCEPT ![o] = "none"]
              /\ refCounter' = [refCounter EXCEPT ![o] = 0]
              /\ s_' = [s_ EXCEPT ![o] = INVALID_SOCKET]
              /\ nofSockets' = nofSockets - 1
              /\ shut' = shut \ {o}
              /\ UNCHANGED careful

Next == \/ \E o \in Objects :
             \/ \E class \in {"Socket", "CClientSocket"} : Construct(o, class)
             \/ \E p \in Objects : Copy(o, p) \/ Assign(o, p)
             \/ Close(o) \/ Reconnect(o) \/ DestroyClient(o) \/ Destroy(o)
        \/ ConstructThrows

Spec == Init /\ [][Next]_socketVars

(***************************************************************************)
(* No order of operations deletes a counter that an object still holds, or *)
(* takes nofSockets_ to zero (the WSACleanup of Windows) while one lives.  *)
(* As long as careful holds, an object that was not closed holds the       *)
(* descriptor that was opened for it, and not a stranger's.                *)
(***************************************************************************)
DescriptorsAreHeld ==
  /\ \A o \in Live : count[refCounter[o]] >= Cardinality(Holders(refCounter[o]))
  /\ nofSockets >= Cardinality(Live)
  /\ careful => \A o \in Live \ shut : s_[o] \in Descriptors => opened[s_[o]] = refCounter[o]
=============================================================================
