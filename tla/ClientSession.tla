--------------------------- MODULE ClientSession ---------------------------
(***************************************************************************)
(* One `hostcmd exec`: the select loop of `run_client_session`, the task   *)
(* that reads local stdin for it, Ctrl-C, and the server at the other end  *)
(* of the websocket, which is any server that keeps the promise of         *)
(* ExecService: output in order, then at most one Exit or Error frame,     *)
(* then a Close; it may also vanish, and it may read the client's frames   *)
(* as slowly as it likes.                                                  *)
(*                                                                         *)
(* The arms of the select loop run to their end before the next select, so *)
(* a value of c other than "select" is an await inside an arm.             *)
(***************************************************************************)
EXTENDS ChunkQueues

CONSTANTS Command,          \* what the server is asked to run
          Codes,            \* exit codes the server may report
          ChannelCapacity,  \* capacity of the stdin channel
          NetCapacity,      \* messages the socket holds in each direction
          MaxIn,            \* bound: chunks local stdin yields
          MaxOut            \* bound: chunks the server sends of each stream

ASSUME ClientAssumption ==
    /\ Codes \subseteq 0..255
    /\ ChannelCapacity \in Nat \ {0} /\ NetCapacity \in Nat \ {0}
    /\ MaxIn \in Nat /\ MaxOut \in Nat

VARIABLES
    c,           \* the await the session is at
    held,        \* the frame the running arm works on
    exit,        \* the exit code it has received
    code,        \* the exit code of the process
    readStdin,   \* read_stdin
    chan,        \* frames from the stdin task
    t, tHeld,    \* the stdin task: its await, the frame it is sending
    fed,         \* chunks it has read from local stdin
    sigint,      \* whether a Ctrl-C is handled, and what became of it
    conn,        \* "up"; "closing" once the server's Close was read; "reset"
    toServer,    \* frames the server has not read
    toClient,    \* frames the client has not read
    srv,         \* the server: "serving", "reported", "gone"
    produced,    \* chunks of each stream the server has sent
    forwarded,   \* last stdin chunk put on the wire
    ended,       \* whether StdinEof or Cancel was put on the wire
    mirrored     \* last chunk of each stream written locally

mainVars == <<c, held, exit, code, readStdin>>
taskVars == <<t, tHeld, fed>>
serverVars == <<srv, produced>>
historyVars == <<forwarded, ended, mirrored>>
vars == <<mainVars, chan, taskVars, sigint, conn, toServer, toClient,
          serverVars, historyVars>>

Streams == {"stdout", "stderr"}
NoCode == -1

ExecFrame == [kind |-> "exec", command |-> Command]
Stdin(n) == [kind |-> "stdin", n |-> n]
Eof == [kind |-> "eof"]
Cancel == [kind |-> "cancel"]
CloseFrame == [kind |-> "close"]
Output(s, n) == [kind |-> "output", stream |-> s, n |-> n]
Exit(x) == [kind |-> "exit", code |-> x]
Error == [kind |-> "error"]
NoFrame == [kind |-> "none"]

Init ==
    /\ c = "connect" /\ held = NoFrame /\ exit = NoCode /\ code = NoCode
    /\ readStdin = TRUE
    /\ chan = <<>>
    /\ t = "none" /\ tHeld = NoFrame /\ fed = 0
    /\ sigint = "default"
    /\ conn = "up" /\ toServer = <<>> /\ toClient = <<>>
    /\ srv = "serving" /\ produced = [s \in Streams |-> 0]
    /\ forwarded = 0 /\ ended = FALSE
    /\ mirrored = [s \in Streams |-> 0]

-----------------------------------------------------------------------------
(* The process ends with the code of the session, or 1 when it failed.     *)
Ends(x) == c' = "exited" /\ code' = x
Fails == Ends(1)

(* Sending a frame: into the socket while it has room; into the void once  *)
(* the server has left, which resets the connection; an error afterwards.  *)
Sent(f) ==
    /\ conn = "up"
    /\ IF srv = "gone"
         THEN /\ conn' = "reset" /\ toClient' \in Prefixes(toClient)
              /\ UNCHANGED toServer
         ELSE /\ Len(toServer) < NetCapacity
              /\ toServer' = Append(toServer, f)
              /\ UNCHANGED <<conn, toClient>>

SendFails ==
    /\ conn # "up" /\ Fails
    /\ UNCHANGED <<conn, toServer, toClient>>

Connect ==
    /\ c = "connect"
    /\ \/ c' = "send_exec" /\ t' = "read" /\ UNCHANGED code
       \/ Fails /\ UNCHANGED t
    /\ UNCHANGED <<held, exit, readStdin, chan, tHeld, fed, sigint, conn,
                   toServer, toClient, serverVars, historyVars>>

SendExec ==
    /\ c = "send_exec"
    /\ \/ Sent(ExecFrame) /\ c' = "select" /\ UNCHANGED code
       \/ SendFails
    /\ UNCHANGED <<held, exit, readStdin, chan, taskVars, sigint, serverVars,
                   historyVars>>

-----------------------------------------------------------------------------
(* The stdin task. A read error of local stdin becomes a Cancel frame.     *)

TaskReads ==
    /\ t = "read" /\ c # "exited"
    /\ t' = "send"
    /\ \/ fed < MaxIn /\ fed' = fed + 1 /\ tHeld' = Stdin(fed + 1)
       \/ tHeld' \in {Eof, Cancel} /\ UNCHANGED fed
    /\ UNCHANGED <<mainVars, chan, sigint, conn, toServer, toClient,
                   serverVars, historyVars>>

(* Faulty: the channel has no capacity. *)
TaskSendsUnbounded ==
    /\ t = "send" /\ c # "exited"
    /\ chan' = Append(chan, tHeld)
    /\ t' = IF tHeld.kind = "stdin" THEN "read" ELSE "gone"
    /\ tHeld' = NoFrame
    /\ UNCHANGED <<mainVars, fed, sigint, conn, toServer, toClient,
                   serverVars, historyVars>>

(* Faulty: drops the frame when the channel is full. *)
TaskTrySends ==
    /\ t = "send" /\ c # "exited"
    /\ chan' = IF Len(chan) < ChannelCapacity THEN Append(chan, tHeld) ELSE chan
    /\ t' = IF tHeld.kind = "stdin" THEN "read" ELSE "gone"
    /\ tHeld' = NoFrame
    /\ UNCHANGED <<mainVars, fed, sigint, conn, toServer, toClient,
                   serverVars, historyVars>>

TaskSends ==
    /\ t = "send" /\ c # "exited" /\ Len(chan) < ChannelCapacity
    /\ chan' = Append(chan, tHeld)
    /\ t' = IF tHeld.kind = "stdin" THEN "read" ELSE "gone"
    /\ tHeld' = NoFrame
    /\ UNCHANGED <<mainVars, fed, sigint, conn, toServer, toClient,
                   serverVars, historyVars>>

-----------------------------------------------------------------------------
(* Ctrl-C. It ends the process by default ("default"), until the first     *)
(* poll of ctrl_c() installs a handler for good ("none"). From then on it  *)
(* only wakes a listener, and there is one only while select polls its     *)
(* arms: ctrl_c() is called anew by each select and dropped with it.       *)

Interrupt ==
    /\ c # "exited"
    /\ \/ sigint = "default" /\ Ends(130) /\ sigint' = "seen"
       \/ /\ sigint \in {"default", "none"} /\ c = "select"
          /\ sigint' = "pending" /\ UNCHANGED <<c, code>>
       \/ /\ sigint = "none" /\ c # "select"
          /\ sigint' = "lost" /\ UNCHANGED <<c, code>>
    /\ UNCHANGED <<held, exit, readStdin, chan, taskVars, conn, toServer,
                   toClient, serverVars, historyVars>>

(* Another arm was ready and won, whether or not ctrl_c() was polled.      *)
OtherArm ==
    sigint' \in CASE sigint = "pending" -> {"lost"}
                  [] sigint = "default" -> {"default", "none"}
                  [] OTHER -> {sigint}

SignalArm ==
    /\ c = "select" /\ sigint = "pending"
    /\ c' = "send_cancel" /\ sigint' = "seen"
    /\ UNCHANGED <<held, exit, code, readStdin, chan, taskVars, conn,
                   toServer, toClient, serverVars, historyVars>>

(* Faulty: goes on with the session. *)
SendCancelGoesOn ==
    /\ c = "send_cancel"
    /\ \/ Sent(Cancel) /\ c' = "select" /\ ended' = TRUE /\ UNCHANGED code
       \/ SendFails /\ UNCHANGED ended
    /\ UNCHANGED <<held, exit, readStdin, chan, taskVars, sigint, serverVars,
                   forwarded, mirrored>>

SendCancel ==
    /\ c = "send_cancel"
    /\ \/ Sent(Cancel) /\ c' = "close" /\ ended' = TRUE /\ UNCHANGED code
       \/ SendFails /\ UNCHANGED ended
    /\ UNCHANGED <<held, exit, readStdin, chan, taskVars, sigint, serverVars,
                   forwarded, mirrored>>

(* sender.close(), whose failure is ignored, then return Ok(130). *)
CloseSender ==
    /\ c = "close"
    /\ Ends(130)
    /\ \/ Sent(CloseFrame)
       \/ conn # "up" /\ UNCHANGED <<conn, toServer, toClient>>
    /\ UNCHANGED <<held, exit, readStdin, chan, taskVars, sigint, serverVars,
                   historyVars>>

-----------------------------------------------------------------------------
(* The arm of the stdin channel.                                           *)

StdinArm ==
    /\ c = "select" /\ readStdin
    /\ \/ /\ chan # <<>>
          /\ held' = Head(chan) /\ chan' = Tail(chan)
          /\ c' = "send_stdin" /\ UNCHANGED readStdin
       \/ /\ chan = <<>> /\ t = "gone"
          /\ readStdin' = FALSE /\ UNCHANGED <<held, chan, c>>
    /\ OtherArm
    /\ UNCHANGED <<exit, code, taskVars, conn, toServer, toClient, serverVars,
                   historyVars>>

SendStdin ==
    /\ c = "send_stdin"
    /\ held' = NoFrame
    /\ \/ /\ Sent(held) /\ c' = "select"
          /\ readStdin' = (held.kind = "stdin")
          /\ forwarded' = IF held.kind = "stdin" THEN held.n ELSE forwarded
          /\ ended' = (held.kind # "stdin")
          /\ UNCHANGED code
       \/ SendFails /\ UNCHANGED <<readStdin, forwarded, ended>>
    /\ UNCHANGED <<exit, chan, taskVars, sigint, serverVars, mirrored>>

-----------------------------------------------------------------------------
(* The arm of the receiver.                                                *)

MessageArm ==
    /\ c = "select" /\ toClient # <<>>
    /\ toClient' = Tail(toClient)
    /\ LET m == Head(toClient) IN
         CASE m.kind = "output" ->
                /\ c' = "write" /\ held' = m
                /\ UNCHANGED <<exit, code, conn>>
           [] m.kind = "exit" ->
                exit' = m.code /\ UNCHANGED <<c, held, code, conn>>
           [] m.kind = "error" -> Fails /\ UNCHANGED <<held, exit, conn>>
           [] m.kind = "close" ->
                /\ conn' = IF conn = "up" THEN "closing" ELSE conn
                /\ UNCHANGED <<c, held, exit, code>>
    /\ OtherArm
    /\ UNCHANGED <<readStdin, chan, taskVars, toServer, serverVars,
                   historyVars>>

(* Faulty: a lost connection is the end, and no exit code is success. *)
EndArmDefaultsToZero ==
    /\ c = "select" /\ toClient = <<>>
    /\ conn # "up" /\ Ends(IF exit = NoCode THEN 0 ELSE exit)
    /\ OtherArm
    /\ UNCHANGED <<held, exit, readStdin, chan, taskVars, conn, toServer,
                   toClient, serverVars, historyVars>>

(* Faulty: a read error leaves the loop running. *)
EndArmIgnoresErrors ==
    /\ c = "select" /\ toClient = <<>>
    /\ conn = "closing" /\ Ends(IF exit = NoCode THEN 1 ELSE exit)
    /\ OtherArm
    /\ UNCHANGED <<held, exit, readStdin, chan, taskVars, conn, toServer,
                   toClient, serverVars, historyVars>>

(* The end of the stream ends the loop, a read error the session. *)
EndArm ==
    /\ c = "select" /\ toClient = <<>>
    /\ \/ conn = "closing" /\ Ends(IF exit = NoCode THEN 1 ELSE exit)
       \/ conn = "reset" /\ Fails
    /\ OtherArm
    /\ UNCHANGED <<held, exit, readStdin, chan, taskVars, conn, toServer,
                   toClient, serverVars, historyVars>>

(* Faulty: takes every chunk for stdout. *)
WriteOutputToStdout ==
    /\ c = "write"
    /\ mirrored' = [mirrored EXCEPT !["stdout"] = held.n]
    /\ held' = NoFrame /\ c' = "select"
    /\ UNCHANGED <<code, exit, readStdin, chan, taskVars, sigint, conn,
                   toServer, toClient, serverVars, forwarded, ended>>

(* Local stdout or stderr takes the chunk, or is closed. *)
WriteOutput ==
    /\ c = "write"
    /\ held' = NoFrame
    /\ \/ /\ mirrored' = [mirrored EXCEPT ![held.stream] = held.n]
          /\ c' = "select" /\ UNCHANGED code
       \/ Fails /\ UNCHANGED mirrored
    /\ UNCHANGED <<exit, readStdin, chan, taskVars, sigint, conn, toServer,
                   toClient, serverVars, forwarded, ended>>

-----------------------------------------------------------------------------
(* The server, as ExecService promises, and the network.                   *)

ServerReads ==
    /\ toServer # <<>>
    /\ toServer' = Tail(toServer)
    /\ UNCHANGED <<mainVars, chan, taskVars, sigint, conn, toClient,
                   serverVars, historyVars>>

ServerSends(f) ==
    /\ conn = "up" /\ c \notin {"connect", "send_exec"}
    /\ Len(toClient) < NetCapacity
    /\ toClient' = Append(toClient, f)
    /\ UNCHANGED <<mainVars, chan, taskVars, sigint, conn, toServer,
                   historyVars>>

ServerOutput(s) ==
    /\ srv = "serving" /\ produced[s] < MaxOut
    /\ produced' = [produced EXCEPT ![s] = @ + 1]
    /\ ServerSends(Output(s, produced[s] + 1))
    /\ UNCHANGED srv

ServerReports ==
    /\ srv = "serving" /\ srv' = "reported"
    /\ \E r \in {Exit(x) : x \in Codes} \cup {Error} : ServerSends(r)
    /\ UNCHANGED produced

ServerCloses ==
    /\ srv = "reported" /\ srv' = "gone"
    /\ ServerSends(CloseFrame)
    /\ UNCHANGED produced

(* The connection is lost, or the server is: of the frames that were not   *)
(* read yet only what had arrived may be left.                             *)
ConnResets ==
    /\ conn = "up" /\ c # "connect"
    /\ conn' = "reset" /\ srv' = "gone"
    /\ toClient' \in Prefixes(toClient) /\ toServer' \in Prefixes(toServer)
    /\ UNCHANGED <<mainVars, chan, taskVars, sigint, produced, historyVars>>

-----------------------------------------------------------------------------
MainNext ==
    \/ Connect \/ SendExec \/ SignalArm \/ SendCancel \/ CloseSender
    \/ StdinArm \/ SendStdin \/ MessageArm \/ EndArm \/ WriteOutput

ServerNext ==
    \/ ServerReads \/ ServerReports \/ ServerCloses \/ ConnResets
    \/ \E s \in Streams : ServerOutput(s)

(* The process has ended. *)
Over == c = "exited" /\ UNCHANGED vars

Next == MainNext \/ TaskReads \/ TaskSends \/ Interrupt \/ ServerNext \/ Over

Spec == Init /\ [][Next]_vars

(* The runtime runs the session and local stdout accepts what it is given. *)
(* Nothing is assumed of local stdin, of Ctrl-C or of the server.          *)
Fairness == WF_vars(MainNext) /\ WF_vars(TaskSends)
FairSpec == Spec /\ Fairness

-----------------------------------------------------------------------------
Frames == {Stdin(n) : n \in 1..MaxIn} \cup {Eof, Cancel}
ServerFrames == {Output(s, n) : s \in Streams, n \in 1..MaxOut}
                \cup {Exit(x) : x \in Codes} \cup {Error, CloseFrame}

(* Type correctness of the client's state.                                 *)
SessionType ==
    /\ c \in {"connect", "send_exec", "select", "send_cancel", "close",
              "send_stdin", "write", "exited"}
    /\ held \in Frames \cup ServerFrames \cup {NoFrame}
    /\ exit \in Codes \cup {NoCode} /\ code \in Codes \cup {NoCode, 1, 130}
    /\ readStdin \in BOOLEAN
    /\ sigint \in {"default", "none", "pending", "seen", "lost"}
    /\ forwarded \in 0..MaxIn /\ ended \in BOOLEAN
    /\ mirrored \in [Streams -> 0..MaxOut]

TaskType ==
    /\ chan \in Seq(Frames) /\ Len(chan) <= ChannelCapacity
    /\ t \in {"none", "read", "send", "gone"}
    /\ tHeld \in Frames \cup {NoFrame} /\ fed \in 0..MaxIn

ServerType ==
    /\ conn \in {"up", "closing", "reset"}
    /\ toServer \in Seq(Frames \cup {ExecFrame, CloseFrame})
    /\ toClient \in Seq(ServerFrames) /\ Len(toClient) <= NetCapacity
    /\ srv \in {"serving", "reported", "gone"}
    /\ produced \in [Streams -> 0..MaxOut]

TypeOK == SessionType /\ TaskType /\ ServerType

(* Chunks of local stdin go on the wire one after the other, and none      *)
(* after the StdinEof or Cancel that ends them: the task and the select    *)
(* loop agree on where stdin ends although a channel is between them.      *)
StdinForwardedInOrder ==
    [][\A n \in 1..MaxIn : toServer' = Append(toServer, Stdin(n))
                            => n = forwarded + 1 /\ ~ended]_vars

(* The end of local stdin is only told once all that was read of it was    *)
(* forwarded, unless Ctrl-C cut it short.                                  *)
EofAfterAllStdin == ended /\ sigint # "seen" => forwarded = fed

(* The chunk about to be mirrored follows the last one of its stream that  *)
(* was: none is lost, repeated or written to the other stream.             *)
MirroredInOrder == c = "write" => held.n = mirrored[held.stream] + 1

(* The process ends with code 0 only if the server has reported that code  *)
(* and all output it sent before was mirrored.                             *)
SuccessIsReported ==
    c = "exited" /\ code = 0 => exit = 0 /\ mirrored = produced

(* Once the server has closed the connection the process ends, even if it  *)
(* was blocked sending stdin to it.                                        *)
EndsAfterServer == (srv = "gone") ~> (c = "exited")

-----------------------------------------------------------------------------
(* The exit code the client has received, from a server that then closed   *)
(* the connection as it should, becomes the exit code of the process.      *)
ExitCodeKept ==
    c = "exited" /\ exit # NoCode /\ conn = "closing" /\ sigint # "seen"
        => code = exit

(* Ctrl-C ends the process.                                                *)
CtrlCExits == (sigint \in {"pending", "seen", "lost"}) ~> (c = "exited")

-----------------------------------------------------------------------------
(* The inductive invariant. It accounts for every chunk between local      *)
(* stdin and the wire, and between the wire and local output.              *)

(* What the session, and the stdin task, hold at an await.                 *)
HoldInv ==
    /\ c = "send_stdin" => held \in Frames /\ readStdin
    /\ c = "write" => held \in ServerFrames /\ held.kind = "output"
    /\ t = "send" => tHeld \in Frames /\ (tHeld.kind = "stdin" => tHeld.n = fed)
    /\ c \in {"send_cancel", "close"} => sigint = "seen"
    /\ c = "connect" => t = "none"

(* The last chunk of local stdin taken from the channel, and put into it.  *)
Taken == IF c = "send_stdin" /\ held.kind = "stdin" THEN held.n ELSE forwarded
Queued == IF t = "send" /\ tHeld.kind = "stdin" THEN fed - 1 ELSE fed

(* The frame that ends stdin is the last one of the task.                  *)
StdinInv ==
    /\ c # "exited" =>
         Taken <= Queued /\ Carries(chan, "stdin", Taken, Queued)
    /\ c = "send_stdin" /\ held.kind = "stdin" => held.n = forwarded + 1
    /\ \A i \in 1..Len(chan) :
         chan[i].kind # "stdin" => i = Len(chan) /\ t = "gone"
    /\ c = "send_stdin" /\ held.kind # "stdin" => chan = <<>> /\ t = "gone"
    /\ ended => ~readStdin \/ c \in {"close", "exited"}
    /\ ended /\ sigint # "seen" => t = "gone"
    /\ EofAfterAllStdin

(* The last chunk of s the session has taken from the socket.              *)
Seen(s) == IF c = "write" /\ held.stream = s THEN held.n ELSE mirrored[s]

(* The socket holds what was produced and not seen, or the first part of   *)
(* it when a reset has dropped the rest.                                   *)
OutputInv ==
    /\ c # "exited" => \A s \in Streams :
         /\ Seen(s) <= produced[s]
         /\ Begins(toClient, s, Seen(s), produced[s])
         /\ conn # "reset" => Carries(toClient, s, Seen(s), produced[s])
    /\ MirroredInOrder
    /\ c = "exited" /\ code = 0 => conn = "closing"
    /\ SuccessIsReported

IInv == TypeOK /\ HoldInv /\ StdinInv /\ OutputInv
=============================================================================
