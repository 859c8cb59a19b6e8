--------------------------------- MODULE Upload ---------------------------------
(***************************************************************************)
(* The upload server (src/file-upload/main.cpp): a detached thread for     *)
(* each connection reads a request with one recv(), then a body with       *)
(* another, and writes what it has to a file whose name is fixed.          *)
(*                                                                         *)
(* A body that came with the header is not looked at; the part of a body   *)
(* that is still on its way is left zero, and said to be saved.            *)
(***************************************************************************)
EXTENDS Naturals, Sequences, FiniteSetsExt

CONSTANTS Uploaders,  \* the clients
          BodyLen     \* what the bodies announce as their length, in packets

VARIABLES
  process,  \* "running", or "ended": by an exception or SIGPIPE
  thread,   \* "none", "header", "body", "saving", "writing", "answering", "closed"
  stream,   \* the packets of each client that have come: 0, or 1 for the header,
            \* and one for each packet of the body
  consumed, \* how many of them the first recv() has taken
  fileData, \* the body as the thread has it
  written,  \* how much of it has been written
  lock,     \* coutMutex: its owner, or Unlocked
  file,     \* uploaded_file.jpeg
  saved,    \* the clients whose body was written
  left,     \* the clients that have closed their connection
  answered  \* the clients that were told "File uploaded successfully."

senderVars == <<stream, left>>
uploadVars == <<process, thread, senderVars, consumed, fileData, written, lock, file,
                saved, answered>>

Unlocked == "unlocked"
Zero == <<"zero", 0>>

Init == /\ process = "running"
        /\ thread = [u \in Uploaders |-> "none"]
        /\ stream = [u \in Uploaders |-> 0]
        /\ consumed = [u \in Uploaders |-> 0]
        /\ fileData = [u \in Uploaders |-> <<>>]
        /\ written = [u \in Uploaders |-> 0]
        /\ lock = Unlocked
        /\ file = <<>>
        /\ saved = {} /\ left = {} /\ answered = {}

----------------------------------------------------------------------------
(* A client *)

SendPacket(u) == /\ u \notin left /\ stream[u] <= BodyLen
                 /\ thread[u] # "none"
                 /\ stream' = [stream EXCEPT ![u] = @ + 1]
                 /\ UNCHANGED <<process, thread, consumed, fileData, written, lock, file,
                                saved, left, answered>>

Quit(u) == /\ u \notin left
           /\ left' = left \cup {u}
           /\ UNCHANGED <<process, thread, stream, consumed, fileData, written, lock, file,
                          saved, answered>>

----------------------------------------------------------------------------
(* The server *)

Goto(u, step) == thread' = [thread EXCEPT ![u] = step]

\* A client connects, and main() starts its thread.
Accept(u) == /\ process = "running" /\ u \notin left /\ thread[u] = "none"
             /\ Goto(u, "header")
             /\ UNCHANGED <<process, senderVars, consumed, fileData, written, lock, file,
                            saved, answered>>

(***************************************************************************)
(* The first recv() finds the end of the stream, or a request: a POST, one *)
(* that announces no body, another method, or a length that std::stoul()   *)
(* does not take.                                                          *)
(***************************************************************************)
ReceiveRequest(u) ==
  /\ process = "running" /\ thread[u] = "header"
  /\ stream[u] > 0 \/ u \in left
  /\ consumed' = [consumed EXCEPT ![u] = stream[u]]
  /\ \/ stream[u] = 0 /\ Goto(u, "closed") /\ UNCHANGED process
     \/ stream[u] > 0 /\ Goto(u, "body") /\ UNCHANGED process
     \/ stream[u] > 0 /\ Goto(u, "closed") /\ UNCHANGED process
     \/ stream[u] > 0 /\ Goto(u, "answering") /\ UNCHANGED process
     \/ stream[u] > 0 /\ process' = "ended" /\ UNCHANGED thread
  /\ UNCHANGED <<senderVars, fileData, written, lock, file, saved, answered>>

\* The second recv() takes what has come since, or the end.
ReceiveBody(u) ==
  /\ process = "running" /\ thread[u] = "body"
  /\ stream[u] > consumed[u] \/ u \in left
  /\ fileData' = [fileData EXCEPT ![u] =
       [k \in 1..BodyLen |-> IF consumed[u] + k <= stream[u] THEN <<u, consumed[u] + k - 1>>
                                                             ELSE Zero]]
  /\ Goto(u, IF stream[u] > consumed[u] THEN "saving" ELSE "closed")
  /\ UNCHANGED <<process, senderVars, consumed, written, lock, file, saved, answered>>

\* Mutant of OpenFile: without the lock.
OpenFileAnyhow(u) ==
  /\ process = "running" /\ thread[u] = "saving"
  /\ lock' = u
  /\ file' = <<>>
  /\ Goto(u, "writing")
  /\ UNCHANGED <<process, senderVars, consumed, fileData, written, saved, answered>>

\* std::ofstream truncates the file.
OpenFile(u) ==
  /\ process = "running" /\ thread[u] = "saving" /\ lock = Unlocked
  /\ lock' = u
  /\ file' = <<>>
  /\ Goto(u, "writing")
  /\ UNCHANGED <<process, senderVars, consumed, fileData, written, saved, answered>>

\* write() at a position, past which the file may have been cut.
Put(pos, packet) ==
  [k \in 1..Max({pos, Len(file)}) |->
     IF k = pos THEN packet ELSE IF k <= Len(file) THEN file[k] ELSE Zero]

WriteFile(u) == /\ process = "running" /\ thread[u] = "writing" /\ written[u] < BodyLen
                /\ written' = [written EXCEPT ![u] = @ + 1]
                /\ file' = Put(written'[u], fileData[u][written'[u]])
                /\ UNCHANGED <<process, thread, senderVars, consumed, fileData, lock, saved,
                               answered>>

\* The file is closed before the lock is given up.
CloseFile(u) == /\ process = "running" /\ thread[u] = "writing" /\ written[u] = BodyLen
                /\ lock' = Unlocked
                /\ saved' = saved \cup {u}
                /\ Goto(u, "answering")
                /\ UNCHANGED <<process, senderVars, consumed, fileData, written, file, answered>>

\* The client may have gone, and SIGPIPE end the process.
Respond(u) == /\ process = "running" /\ thread[u] = "answering"
              /\ \/ /\ Goto(u, "closed")
                    /\ answered' = IF u \in left THEN answered ELSE answered \cup {u}
                    /\ UNCHANGED process
                 \/ /\ u \in left
                    /\ process' = "ended"
                    /\ UNCHANGED <<thread, answered>>
              /\ UNCHANGED <<senderVars, consumed, fileData, written, lock, file, saved>>

Handle(u) == \/ ReceiveRequest(u) \/ ReceiveBody(u) \/ OpenFile(u) \/ WriteFile(u)
             \/ CloseFile(u) \/ Respond(u)

Next == \E u \in Uploaders : Accept(u) \/ Handle(u) \/ SendPacket(u) \/ Quit(u)

Spec == Init /\ [][Next]_uploadVars

\* Threads run, and get the lock when it is free.
FairSpec == Spec /\ WF_uploadVars(\E u \in Uploaders : Handle(u))

----------------------------------------------------------------------------
TypeOK == /\ process \in {"running", "ended"}
          /\ lock \in Uploaders \cup {Unlocked}
          /\ \A u \in Uploaders : stream[u] \in 0..(BodyLen + 1) /\ written[u] \in 0..BodyLen
          /\ answered \subseteq Uploaders

(***************************************************************************)
(* Whenever nobody has the lock, the file is one client's upload, of the   *)
(* length that it announced and in the order in which it was sent, less    *)
(* what came with the header, and with zeros for what was late: uploads    *)
(* never mix, whatever the threads do.                                     *)
(***************************************************************************)
FileIsOneUpload ==
  /\ TypeOK
  /\ lock = Unlocked /\ file # <<>> =>
       \E u \in saved :
         /\ file = fileData[u]
         /\ \A k \in 1..BodyLen : file[k] \in {Zero, <<u, consumed[u] + k - 1>>}

\* When a client has closed its connection, its thread ends, too.
HasLeft(u) == u \in left /\ thread[u] # "none"
HasEnded(u) == thread[u] = "closed" \/ process = "ended"
UploadEnds == \A u \in Uploaders : HasLeft(u) ~> HasEnded(u)
=============================================================================
