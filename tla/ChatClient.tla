------------------------------- MODULE ChatClient -------------------------------
(***************************************************************************)
(* The client of the chat server (src/chat-server/Client.cpp): a thread    *)
(* that reads lines from the terminal, and the loop of main(), which share *)
(* client_messages_queue.  The queue is a map with the socket as its only  *)
(* key, so that it holds one line; insert() does not replace it.  The loop *)
(* looks into the map without the lock.                                    *)
(***************************************************************************)
EXTENDS Naturals, Sequences

CONSTANTS MaxLines,   \* bound: lines typed
          MaxNews     \* bound: messages of the server

VARIABLES
  listener,  \* "getline", "inserting" (with the lock), "holding" a line, "ended"
  typed,     \* lines typed so far; they are numbered from 1
  line,      \* input
  eof,       \* the terminal has ended: getline() leaves an empty line
  queued,    \* the line in the map, or Nothing
  loop,      \* "look", "select", "read", "write"; "closed", the socket is;
             \* "killed" by SIGPIPE
  watching,  \* the socket is in writefds
  canRead,  \* select() has reported that the socket can be read
  wire,      \* the lines sent
  news,      \* messages of the server that were not read
  told,      \* bound: how many there were
  peer       \* the server: "open", "closed" or "reset"

inputVars == <<listener, typed, line, eof>>
loopVars == <<loop, watching, canRead, wire>>
chatVars == <<inputVars, queued, loopVars, news, told, peer>>

Empty == 0
Nothing == MaxLines + 1

Init == /\ listener = "getline" /\ typed = 0 /\ line = Empty /\ eof = FALSE
        /\ queued = Nothing
        /\ loop = "look" /\ watching = FALSE /\ canRead = FALSE /\ wire = <<>>
        /\ news = 0 /\ told = 0 /\ peer = "open"

----------------------------------------------------------------------------
(* inputListener() *)

Type == /\ listener = "getline" /\ loop # "killed"
        /\ ~eof /\ typed < MaxLines
        /\ typed' = typed + 1
        /\ line' = typed'
        /\ listener' = "holding"
        /\ UNCHANGED <<eof, queued, loopVars, news, told, peer>>

\* The thread ends; the process does not.
TypeExit == /\ listener = "getline" /\ ~eof
            /\ listener' = "ended"
            /\ UNCHANGED <<typed, line, eof, queued, loopVars, news, told, peer>>

\* A getline() that fails is not noticed: it gives an empty line for ever.
GetNothing == /\ listener = "getline" /\ loop # "killed"
              /\ eof' = TRUE
              /\ line' = Empty
              /\ listener' = "holding"
              /\ UNCHANGED <<typed, queued, loopVars, news, told, peer>>

Lock == /\ listener = "holding" /\ loop # "killed"
        /\ listener' = "inserting"
        /\ UNCHANGED <<typed, line, eof, queued, loopVars, news, told, peer>>

Insert == /\ listener = "inserting" /\ loop # "killed"
          /\ queued' = IF queued = Nothing THEN line ELSE queued
          /\ listener' = "getline"
          /\ UNCHANGED <<typed, line, eof, loopVars, news, told, peer>>

----------------------------------------------------------------------------
(* The loop of main() *)

\* find() without the lock: its result is anybody's guess during insert().
Look == /\ loop = "look"
        /\ watching' \in IF listener = "inserting" THEN BOOLEAN ELSE {queued # Nothing}
        /\ loop' = "select"
        /\ UNCHANGED <<inputVars, queued, canRead, wire, news, told, peer>>

\* Mutant of Select: only the readable socket is waited for.
SelectToRead == /\ loop = "select"
                /\ canRead' = (news > 0 \/ peer # "open")
                /\ loop' = IF canRead' THEN "read" ELSE "look"
                /\ UNCHANGED <<inputVars, queued, watching, wire, news, told, peer>>

\* select() times out, at once after the first time, since tv is not set again.
Select == /\ loop = "select"
          /\ canRead' = (news > 0 \/ peer # "open")
          /\ loop' = IF canRead' \/ watching THEN "read" ELSE "look"
          /\ UNCHANGED <<inputVars, queued, watching, wire, news, told, peer>>

\* At the end of the stream the socket is closed, and every later select() fails;
\* another error is taken for an empty message.
Read == /\ loop = "read"
        /\ \/ /\ canRead /\ news > 0
              /\ news' = news - 1
              /\ loop' = "write"
           \/ /\ canRead /\ news = 0
              /\ loop' \in {"closed"} \cup (IF peer = "reset" THEN {"write"} ELSE {})
              /\ UNCHANGED news
           \/ /\ ~canRead
              /\ loop' = "write"
              /\ UNCHANGED news
        /\ UNCHANGED <<inputVars, queued, watching, canRead, wire, told, peer>>

\* operator[] makes up an empty line if there is none.
Message == IF queued = Nothing THEN Empty ELSE queued

\* Mutant of Write: operator[] and erase() without the lock.
WriteUnlocked == /\ loop = "write"
                 /\ IF watching
                    THEN wire' = Append(wire, Message) /\ queued' = Nothing
                    ELSE UNCHANGED <<wire, queued>>
                 /\ loop' = "look"
                 /\ UNCHANGED <<inputVars, watching, canRead, news, told, peer>>

Write == /\ loop = "write"
         /\ \/ /\ ~watching
               /\ loop' = "look"
               /\ UNCHANGED <<wire, queued>>
            \/ /\ watching /\ listener # "inserting" /\ peer = "reset"
               /\ loop' = "killed"
               /\ UNCHANGED <<wire, queued>>
            \/ /\ watching /\ listener # "inserting" /\ peer # "reset"
               /\ wire' = Append(wire, Message)
               /\ queued' = Nothing
               /\ loop' = "look"
         /\ Len(wire') <= MaxLines + 1   \* bound: empty lines never end
         /\ UNCHANGED <<inputVars, watching, canRead, news, told, peer>>

----------------------------------------------------------------------------
(* The server *)

Tell == /\ peer = "open" /\ told < MaxNews
        /\ told' = told + 1
        /\ news' = news + 1
        /\ UNCHANGED <<inputVars, queued, loopVars, peer>>

\* The server closes, and answers what comes later with a reset.
ServerLeaves == /\ \/ peer = "open" /\ peer' = "closed"
                   \/ peer = "closed" /\ wire # <<>> /\ peer' = "reset"
                /\ UNCHANGED <<inputVars, queued, loopVars, news, told>>

Loop == Look \/ Select \/ Read \/ Write

Next == \/ Type \/ TypeExit \/ GetNothing \/ Lock \/ Insert
        \/ Loop \/ Tell \/ ServerLeaves

Spec == Init /\ [][Next]_chatVars

\* Both threads run; nobody has to type.
FairSpec == Spec /\ WF_chatVars(Loop) /\ WF_chatVars(Lock \/ Insert)

----------------------------------------------------------------------------
TypeOK == /\ listener \in {"getline", "holding", "inserting", "ended"}
          /\ loop \in {"look", "select", "read", "write", "closed", "killed"}
          /\ queued \in 0..Nothing /\ line \in 0..typed
          /\ {wire[i] : i \in DOMAIN wire} \subseteq 0..typed

(***************************************************************************)
(* Although the loop looks into the map while the other thread changes it, *)
(* it sends lines in the order in which they were typed, none twice, and   *)
(* no empty line that operator[] has made up: an entry it has seen, or has *)
(* imagined during insert(), is there when it has the lock.                *)
(***************************************************************************)
WireIsTyped ==
  LET way == wire \o (IF queued = Nothing THEN <<>> ELSE <<queued>>)
  IN /\ TypeOK
     /\ \A i, j \in DOMAIN way : i < j /\ way[j] # Empty => way[i] < way[j]
     /\ ~eof => \A i \in DOMAIN way : way[i] # Empty

(***************************************************************************)
(* A queued line is sent, unless the server has gone, or the terminal has  *)
(* ended: the thread may then keep the lock from the loop for ever.        *)
(***************************************************************************)
IsQueued == queued # Nothing
IsSent == queued = Nothing \/ peer # "open" \/ eof
QueuedIsSent == IsQueued ~> IsSent
=============================================================================
