----------------------------- MODULE ExecSystem -----------------------------
(***************************************************************************)
(* One `hostcmd exec` from end to end: the client of ClientSession and the *)
(* server of ServerSession, joined by their connection, with the command   *)
(* and local stdin as the only environment. Each of the two modules has a  *)
(* stand-in for the other; here the other takes its place, so every step   *)
(* at the connection is a step of both.                                    *)
(*                                                                         *)
(* What goes on the wire is up to the side that sends it: that the other   *)
(* side's stand-in covers it is checked, as a refinement of its module.    *)
(***************************************************************************)
EXTENDS ServerSession

CONSTANT Command    \* what the client asks the server to run

ASSUME SystemAssumption ==
    Command \in Programs /\ {"exec", "stdin", "eof", "cancel", "close"} \subseteq ClientFrames

VARIABLES c, cHeld, exit, code, readStdin, chan, t, tHeld, cFed, sigint,
          link,     \* the connection as the client sees it
          forwarded, ended, mirrored

clientVars == <<c, cHeld, exit, code, readStdin, chan, t, tHeld, cFed, sigint,
                forwarded, ended, mirrored>>
systemVars == <<vars, clientVars, link>>

(* What the client knows of a server: that it serves, has sent its report, *)
(* or has left the connection or lost it.                                  *)
Srv == IF h = "done" \/ conn = "broken" THEN "gone"
       ELSE IF final # NoFrame THEN "reported" ELSE "serving"

Client == INSTANCE ClientSession
            WITH held <- cHeld, fed <- cFed, conn <- link,
                 Codes <- {ExitCode(s) : s \in Statuses},
                 toServer <- inbox, toClient <- outbox, srv <- Srv,
                 produced <- sent

SystemInit ==
    /\ Init /\ link = "up"
    /\ c = "connect" /\ cHeld = NoFrame /\ exit = -1 /\ code = -1
    /\ readStdin = TRUE /\ chan = <<>>
    /\ t = "none" /\ tHeld = NoFrame /\ cFed = 0 /\ sigint = "default"
    /\ forwarded = 0 /\ ended = FALSE
    /\ mirrored = [s \in Streams |-> 0]

-----------------------------------------------------------------------------
(* The upgrade. The client may also find no server, or miss its answer.    *)
Connects ==
    \/ WsHandler /\ Client!Connect /\ (c' = "send_exec" => h' = "await_exec")
    \/ UNCHANGED vars /\ Client!Connect /\ c' = "exited"

(* A send of the client: a message into the socket, or the discovery that  *)
(* the server is gone, which breaks the connection, or an error. What may  *)
(* be sent is up to the client alone.                                      *)
ClientSends ==
    /\ UNCHANGED <<handlerVars, channelVars, taskVars, procVars, wireVars>>
    /\ conn' \in {conn, "broken"}
    /\ \/ Client!SendExec \/ Client!SendStdin
       \/ Client!SendCancel \/ Client!CloseSender
    /\ conn' = IF link' # link THEN "broken" ELSE conn
    /\ LET new == {inbox'[i] : i \in (Len(inbox) + 1)..Len(inbox')} IN
         /\ said' = said \cup (new \ StdinFrames)
         /\ fed' = IF new \cap StdinFrames = {} THEN fed ELSE forwarded'

ClientReceives == ClientRead /\ Client!MessageArm

ClientSteps ==
    /\ UNCHANGED vars
    /\ \/ Client!SignalArm \/ Client!StdinArm \/ Client!EndArm
       \/ Client!WriteOutput

ClientMain == Connects \/ ClientSends \/ ClientReceives \/ ClientSteps

StdinTask == UNCHANGED vars /\ (Client!TaskReads \/ Client!TaskSends)
UserInterrupts == UNCHANGED vars /\ Client!Interrupt

(* The connection is lost, or closed by the end of the client's process.   *)
NetBreaks == ConnBreaks /\ Client!ConnResets

(* A step of the server. One that drops the socket without a Close frame   *)
(* resets it.                                                              *)
ServerStep(A) ==
    /\ A
    /\ link' = IF h # "done" /\ h' = "done" /\ conn # "up" /\ link = "up"
                 THEN "reset" ELSE link
    /\ UNCHANGED clientVars

(* The upgrade is a step of both. *)
Handles == h # "upgrade" /\ HandlerNext

(* All is over once the client was, also when it never got to the server. *)
SystemOver ==
    /\ c = "exited" /\ UNCHANGED systemVars
    /\ \/ h = "upgrade"
       \/ h = "done" /\ e \in {"none", "finished"} /\ ~Running

(* The steps of all, with those the command takes. *)
StepsWith(command) ==
    \/ ClientMain \/ StdinTask \/ UserInterrupts \/ NetBreaks
    \/ ServerStep(Handles) \/ ServerStep(ExecNext) \/ ServerStep(StdinNext)
    \/ \E s \in Streams : ServerStep(ReaderNext(s))
    \/ ServerStep(command) \/ SystemOver

SystemNext == StepsWith(CommandNext)

SystemSpec == SystemInit /\ [][SystemNext]_systemVars

-----------------------------------------------------------------------------
(* The system is a client of ClientSession in front of a server that keeps *)
(* the promise made there, and a server of ServerSession behind a client   *)
(* that sends what is allowed there: neither stand-in is too good.         *)
ImplementsClient == Client!Spec
ImplementsServer == Spec

(* An exit code other than the client's own 1 and 130 is the exit code of  *)
(* the command, reaped, with no writer left, and all the command wrote to  *)
(* either stream was written on the client's side.                         *)
ExitCodeEndToEnd ==
    c = "exited" /\ code \notin {1, 130} =>
        /\ leader = "reaped" /\ \A s \in Streams : ~Writers(s)
        /\ code = ExitCode(status) /\ mirrored = written

(* A command that is neither cancelled nor failing sees the end of its     *)
(* stdin only after every chunk that was read of the client's local stdin. *)
StdinEndToEnd ==
    [][gotEof' # gotEof /\ ~cancelled /\ Waiting => got = cFed]_systemVars
=============================================================================
