--------------------------------- MODULE Logger ---------------------------------
(***************************************************************************)
(* The logger (src/protocol-server/src/utils/logger): a singleton that is  *)
(* made by whoever comes first, or by several who come at once, each with  *)
(* a queue, a lock and a thread that writes what is queued to a file, to a *)
(* database or to a server.  Without LOGGER_TYPE there is no thread, and a *)
(* line goes to the console at once.  ~Logger() is never called.  (The     *)
(* copy under src/protocol-client is the same, byte for byte.)             *)
(*                                                                         *)
(* A line is <<t, n>>, the n-th of thread t.                               *)
(***************************************************************************)
EXTENDS Naturals, Sequences, FiniteSets

CONSTANTS Threads,  \* those that log
          MaxLog    \* bound: the lines of each

VARIABLES
  loggerType,  \* "", "FILE", "DB" or "NET"
  dead,        \* terminated by an exception, or by SIGPIPE
  instance,    \* Logger::instance, or NoLogger
  made,        \* how many were made; they are numbered from 1
  mine,        \* what getInstance() has returned to each thread, or NoLogger
  phase,       \* of each thread: "idle", "creating" or "logging"
  logged,      \* how many lines it has logged
  queue_,      \* of each logger
  flushing,    \* the loggers whose thread is in Flush(), with the lock
  fileName,    \* of each logger: the day it was made, or changed,
  today,       \* and the day it is
  output,      \* what has been written
  lost,        \* what was not, and never will be
  link,        \* the socket of each logger: "up", "broken", "closed", or "reused":
               \* closed here, and its number given to another connection
  strays       \* what was written to that connection

threadVars == <<instance, made, mine, phase, logged>>
netVars == <<link, strays>>
logVars == <<loggerType, dead, threadVars, queue_, flushing, fileName, today, output, lost,
             netVars>>

NoLogger == 0
Instances == 1..Cardinality(Threads)

Init == /\ loggerType \in {"", "FILE", "DB", "NET"}
        /\ dead = FALSE
        /\ instance = NoLogger /\ made = 0
        /\ mine = [t \in Threads |-> NoLogger]
        /\ phase = [t \in Threads |-> "idle"]
        /\ logged = [t \in Threads |-> 0]
        /\ queue_ = [i \in Instances |-> <<>>]
        /\ flushing = {}
        /\ fileName = [i \in Instances |-> 0] /\ today = 0
        /\ output = <<>> /\ lost = {}
        /\ link = [i \in Instances |-> "up"] /\ strays = {}

----------------------------------------------------------------------------
(* A thread that logs *)

\* getInstance() looks at the pointer, ...
GetInstance(t) == /\ ~dead /\ phase[t] = "idle" /\ logged[t] < MaxLog
                  /\ mine' = [mine EXCEPT ![t] = instance]
                  /\ phase' = [phase EXCEPT ![t] = IF instance = NoLogger THEN "creating"
                                                                         ELSE "logging"]
                  /\ UNCHANGED <<loggerType, dead, instance, made, logged, queue_, flushing,
                                 fileName, today, output, lost, netVars>>

\* ... and sets it later ...
Create(t) == /\ ~dead /\ phase[t] = "creating"
             /\ made' = made + 1
             /\ instance' = made'
             /\ mine' = [mine EXCEPT ![t] = made']
             /\ fileName' = [fileName EXCEPT ![made'] = today]
             /\ phase' = [phase EXCEPT ![t] = "logging"]
             /\ UNCHANGED <<loggerType, dead, logged, queue_, flushing, today, output, lost,
                            netVars>>

\* ... unless a TcpClient cannot connect: nobody catches what it throws.
CreateThrows(t) == /\ ~dead /\ phase[t] = "creating" /\ loggerType = "NET"
                   /\ dead' = TRUE
                   /\ UNCHANGED <<loggerType, threadVars, queue_, flushing, fileName, today,
                                  output, lost, netVars>>

RangeOf(seq) == {seq[k] : k \in DOMAIN seq}

\* Without a logger type: to the console.
LogToConsole(line) == /\ loggerType = ""
                      /\ output' = Append(output, line)
                      /\ UNCHANGED <<queue_, fileName, lost>>

\* Write() to the queue of a writer, ...
Write(i, line) == /\ loggerType # ""
                  /\ loggerType = "FILE" => fileName[i] = today
                  /\ queue_' = [queue_ EXCEPT ![i] = Append(@, line)]
                  /\ UNCHANGED <<output, fileName, lost>>

\* ... which is a new one on a new day: the queue of the old one goes with it.
WriteOnNewDay(i, line) == /\ loggerType = "FILE" /\ fileName[i] # today
                          /\ fileName' = [fileName EXCEPT ![i] = today]
                          /\ lost' = lost \cup RangeOf(queue_[i])
                          /\ queue_' = [queue_ EXCEPT ![i] = <<line>>]
                          /\ UNCHANGED output

Log(t) ==
  LET i == mine[t]
      line == <<t, logged[t] + 1>>
  IN /\ ~dead /\ phase[t] = "logging" /\ i \notin flushing
     /\ logged' = [logged EXCEPT ![t] = @ + 1]
     /\ phase' = [phase EXCEPT ![t] = "idle"]
     /\ LogToConsole(line) \/ Write(i, line) \/ WriteOnNewDay(i, line)
     /\ UNCHANGED <<loggerType, dead, instance, made, mine, flushing, today, netVars>>

----------------------------------------------------------------------------
(* The thread of a logger *)

BeginFlush(i) == /\ ~dead /\ i \notin flushing /\ queue_[i] # <<>>
                 /\ flushing' = flushing \cup {i}
                 /\ UNCHANGED <<loggerType, dead, threadVars, queue_, fileName, today, output,
                                lost, netVars>>

\* send() to a server that has gone may end the process; else the socket is
\* closed, and used again by the next line.
SendTcpMessage(i, line) ==
  \/ /\ link[i] = "up"
     /\ output' = Append(output, line)
     /\ UNCHANGED <<dead, lost, netVars>>
  \/ /\ link[i] = "broken" /\ dead' = TRUE
     /\ UNCHANGED <<output, lost, netVars>>
  \/ /\ link[i] \in {"broken", "closed"}
     /\ link' = [link EXCEPT ![i] = "closed"]
     /\ lost' = lost \cup {line}
     /\ UNCHANGED <<dead, output, strays>>
  \/ /\ link[i] = "reused"
     /\ strays' = strays \cup {line}
     /\ UNCHANGED <<dead, output, lost, link>>

\* Mutant of Flush: the queue is a stack.
FlushLast(i) == /\ ~dead /\ i \in flushing /\ queue_[i] # <<>>
                /\ queue_' = [queue_ EXCEPT ![i] = SubSeq(@, 1, Len(@) - 1)]
                /\ output' = Append(output, queue_[i][Len(queue_[i])])
                /\ UNCHANGED <<loggerType, dead, threadVars, flushing, fileName, today, lost, netVars>>

\* A file that cannot be opened takes the line with it: Flush() does not look at
\* the result.
WriteFile(line) == /\ \/ output' = Append(output, line) /\ UNCHANGED lost
                      \/ lost' = lost \cup {line} /\ UNCHANGED output
                   /\ UNCHANGED <<dead, netVars>>

\* So does a database that cannot be opened, or an INSERT that fails.
InsertRow(line) == WriteFile(line)

WriteToMedia(i, line) == \/ loggerType = "FILE" /\ WriteFile(line)
                         \/ loggerType = "DB" /\ InsertRow(line)
                         \/ loggerType = "NET" /\ SendTcpMessage(i, line)

Flush(i) == /\ ~dead /\ i \in flushing /\ queue_[i] # <<>>
            /\ queue_' = [queue_ EXCEPT ![i] = Tail(@)]
            /\ WriteToMedia(i, Head(queue_[i]))
            /\ UNCHANGED <<loggerType, threadVars, flushing, fileName, today>>

EndFlush(i) == /\ i \in flushing /\ queue_[i] = <<>>
               /\ flushing' = flushing \ {i}
               /\ UNCHANGED <<loggerType, dead, threadVars, queue_, fileName, today, output, lost, netVars>>

----------------------------------------------------------------------------
(* The world *)

Midnight == /\ loggerType = "FILE" /\ today = 0   \* bound: one of them
            /\ today' = 1
            /\ UNCHANGED <<loggerType, dead, threadVars, queue_, flushing, fileName, output, lost, netVars>>

\* The log server goes; accept() or socket() reuses a number that is free.
LinkChanges(i) == /\ loggerType = "NET" /\ i <= made
                  /\ \/ link[i] = "up" /\ link' = [link EXCEPT ![i] = "broken"]
                     \/ link[i] = "closed" /\ link' = [link EXCEPT ![i] = "reused"]
                  /\ UNCHANGED <<loggerType, dead, threadVars, queue_, flushing, fileName, today,
                                 output, lost, strays>>

LogWorker(i) == BeginFlush(i) \/ Flush(i) \/ EndFlush(i)

Next == \/ \E t \in Threads : GetInstance(t) \/ Create(t) \/ CreateThrows(t) \/ Log(t)
        \/ \E i \in Instances : LogWorker(i) \/ LinkChanges(i)
        \/ Midnight

Spec == Init /\ [][Next]_logVars

FairSpec == Spec /\ WF_logVars(\E i \in Instances : LogWorker(i))

----------------------------------------------------------------------------
Lines == Threads \X (1..MaxLog)

TypeOK == /\ dead \in BOOLEAN
          /\ instance \in 0..made /\ made \in 0..Cardinality(Threads)
          /\ \A t \in Threads : mine[t] \in 0..made
          /\ RangeOf(output) \cup lost \cup strays \subseteq Lines

(***************************************************************************)
(* A line that was logged is in one place, once: in a queue, in the output *)
(* or among the lost, whatever the threads' race in getInstance(), the day *)
(* and the writers do; only the line that ends the process is in none.     *)
(* The lines of a thread are in order as long as there is one logger; the  *)
(* order is what the race costs.                                           *)
(***************************************************************************)
LinesAreKept ==
  /\ TypeOK
  /\ \A t \in Threads : \A n \in 1..logged[t] :
       LET queues == {i \in Instances : <<t, n>> \in RangeOf(queue_[i])}
           times == {k \in DOMAIN output : output[k] = <<t, n>>}
           gone == {<<t, n>>} \cap (lost \cup strays)
       IN \/ Cardinality(queues) + Cardinality(times) + Cardinality(gone) = 1
          \/ dead /\ loggerType = "NET"
  /\ made <= 1 => \A j, k \in DOMAIN output :
                    j < k /\ output[j][1] = output[k][1] => output[j][2] < output[k][2]

\* What is queued is written, or lost, in the end.
HasLines(i) == queue_[i] # <<>>
IsFlushed(i) == queue_[i] = <<>> \/ dead
QueueIsFlushed == \A i \in Instances : HasLines(i) ~> IsFlushed(i)
=============================================================================
