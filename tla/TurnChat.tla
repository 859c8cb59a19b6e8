-------------------------------- MODULE TurnChat --------------------------------
(***************************************************************************)
(* The turn-based chat (src/single-client-turn-based): the client types    *)
(* and sends a line, then waits for one; the server waits for a line, then *)
(* types and sends one.  Either loop ends with an "exit" of the server's.  *)
(* Neither looks for the end of the stream, or of its terminal: fgets()    *)
(* then leaves an empty buffer, of which send() sends nothing.             *)
(***************************************************************************)
EXTENDS Integers, Sequences

CONSTANT MaxTurns  \* bound: the lines that either types

VARIABLES
  turn,      \* of "client" and "server": "starting", "typing", "receiving", "left"
  toRead,    \* what has been sent to each
  turns,     \* how many lines each has typed, and sent
  noInput,   \* those whose terminal has ended
  stopped,   \* those who left because of an error, or of their user
  cut        \* those who have read the end of the stream

chatVars == <<turn, toRead, turns, noInput, stopped, cut>>

Ends == {"client", "server"}
Lines == {"exit", "other"}
Partner(e) == IF e = "client" THEN "server" ELSE "client"

Init == /\ turn = [e \in Ends |-> "starting"]
        /\ toRead = [e \in Ends |-> <<>>]
        /\ turns = [e \in Ends |-> 0]
        /\ noInput = {} /\ stopped = {} /\ cut = {}

\* error() leaves the program.
Stop(e) == /\ turn' = [turn EXCEPT ![e] = "left"]
           /\ stopped' = stopped \cup {e}

\* socket(), bind() and listen(), and connect() and accept(), or their errors.
Start(e) == /\ turn[e] = "starting"
            /\ Stop(e)
            /\ UNCHANGED <<toRead, turns, noInput, cut>>

Meet == /\ \A e \in Ends : turn[e] = "starting"
        /\ turn' = [e \in Ends |-> IF e = "client" THEN "typing" ELSE "receiving"]
        /\ UNCHANGED <<toRead, turns, noInput, stopped, cut>>

\* Mutant of AfterSend: the client leaves after its own, too.
AfterSendEither(e, line) == IF line = "exit" THEN "left" ELSE "receiving"

\* What follows a line: the server leaves after its own "exit".
AfterSend(e, line) == IF line = "exit" /\ e = "server" THEN "left" ELSE "receiving"

\* fgets() and send().  A partner that has left answers with a reset, and
\* the next send() fails.
SendLine(e) == /\ turn[e] = "typing" /\ e \notin noInput /\ turns[e] < MaxTurns
               /\ turns' = [turns EXCEPT ![e] = @ + 1]
               /\ \E line \in Lines :
                    /\ toRead' = [toRead EXCEPT ![Partner(e)] = Append(@, line)]
                    /\ turn' = [turn EXCEPT ![e] = AfterSend(e, line)]
               /\ UNCHANGED <<noInput, stopped, cut>>

SendNothing(e) == /\ turn[e] = "typing"
                  /\ noInput' = noInput \cup {e}
                  /\ turn' = [turn EXCEPT ![e] = "receiving"]
                  /\ UNCHANGED <<toRead, turns, stopped, cut>>

SendFails(e) == /\ turn[e] = "typing" /\ turn[Partner(e)] = "left" /\ e \in cut
                /\ Stop(e)
                /\ UNCHANGED <<toRead, turns, noInput, cut>>

\* recv(): a line, the end of the stream, which is taken for one, or a reset.
Receive(e) == /\ turn[e] = "receiving"
              /\ \/ /\ toRead[e] # <<>>
                    /\ toRead' = [toRead EXCEPT ![e] = Tail(@)]
                    /\ turn' = [turn EXCEPT ![e] =
                                  IF e = "client" /\ Head(toRead[e]) = "exit" THEN "left" ELSE "typing"]
                    /\ UNCHANGED <<stopped, cut>>
                 \/ /\ toRead[e] = <<>> /\ turn[Partner(e)] = "left"
                    /\ turn' = [turn EXCEPT ![e] = "typing"]
                    /\ cut' = cut \cup {e}
                    /\ UNCHANGED <<toRead, stopped>>
                 \/ /\ toRead[e] = <<>> /\ turn[Partner(e)] = "left" /\ e \in cut
                    /\ Stop(e)
                    /\ UNCHANGED <<toRead, cut>>
              /\ UNCHANGED <<turns, noInput>>

\* A program is ended from outside.
Interrupt(e) == /\ turn[e] \in {"typing", "receiving"}
                /\ Stop(e)
                /\ UNCHANGED <<toRead, turns, noInput, cut>>

Next == \/ Meet
        \/ \E e \in Ends : \/ Start(e) \/ SendLine(e) \/ SendNothing(e) \/ SendFails(e)
                           \/ Receive(e) \/ Interrupt(e)

Spec == Init /\ [][Next]_chatVars

FairSpec == Spec /\ \A e \in Ends : WF_chatVars(Receive(e))

----------------------------------------------------------------------------
TypeOK == /\ turn \in [Ends -> {"starting", "typing", "receiving", "left"}]
          /\ turns \in [Ends -> 0..MaxTurns]
          /\ noInput \subseteq Ends /\ stopped \subseteq Ends /\ cut \subseteq Ends

(***************************************************************************)
(* While both terminals last and nobody is stopped, exactly one side has   *)
(* the turn, so that the two never wait for each other, and neither finds  *)
(* the stream cut off: "exit", from whichever side, ends nothing early.    *)
(***************************************************************************)
TurnsAlternate ==
  /\ TypeOK
  /\ noInput = {} /\ stopped = {} =>
       /\ cut = {}
       /\ Len(toRead["client"]) + Len(toRead["server"]) <= 1
       /\ turns["server"] \in {turns["client"] - 1, turns["client"]}
       /\ (\A e \in Ends : turn[e] = "receiving") => \E e \in Ends : toRead[e] # <<>>
       /\ ~(\A e \in Ends : turn[e] = "typing")

\* When the server has left with "exit", so does the client.
ServerLeft == turn["server"] = "left" /\ stopped = {} /\ noInput = {}
ClientFollows == ServerLeft ~> turn["client"] = "left"
=============================================================================
