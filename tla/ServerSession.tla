--------------------------- MODULE ServerSession ---------------------------
(***************************************************************************)
(* One session of the hostcmd server: a websocket accepted by `ws_handler`,*)
(* the `handle_ws` task that owns it, the execution task `server_actor`    *)
(* spawns for its command (`execute_command`), the three tasks that one    *)
(* spawns (`stream_stdin`, `stream_reader` for stdout and for stderr), and *)
(* what they talk to: the client at the other end of the socket and the    *)
(* process group of the command.                                           *)
(*                                                                         *)
(*   client --inbox--> handle_ws --stdinCh--> stream_stdin --inPipe--> cmd *)
(*   client <-outbox-- handle_ws <--events--- stream_reader <--pipe--- cmd *)
(*                     handle_ws --cancelled--> execute_command --kill--> *)
(*                     handle_ws <----done----- execute_command            *)
(*                                                                         *)
(* Every task runs between two awaits in one step and is preempted at each *)
(* of them, so a value of h, e, st or rd names the await a task is at.     *)
(* A chunk of data is the number of its place in its stream: what one read *)
(* returned. Sessions share no state but the listener and the actor queue, *)
(* which never holds a session up, so one session is enough.               *)
(***************************************************************************)
EXTENDS ChunkQueues, FiniteSets

CONSTANTS
    Programs,          \* first words of the commands a client may ask for
    NoProgram,         \* stands for the empty argument vector
    AllowedCommands,   \* the allow list, empty when the server has none
    Codes,             \* exit codes a command may end with
    ClientFrames,      \* kinds of messages this client may send
    Faults,            \* I/O failures that may happen: "kill", "read", "wait"
    Closable,          \* descriptors a command may close while it runs
    ChannelCapacity,   \* CHANNEL_CAPACITY of the events and stdin channels
    PipeCapacity,      \* chunks a kernel pipe holds
    NetCapacity,       \* messages the socket holds in each direction
    MaxIn,             \* bound: stdin chunks the client sends
    MaxOut             \* bound: chunks the command writes to each stream

FrameKinds == {"exec", "stdin", "eof", "cancel", "bad", "other", "close"}

ASSUME CommandAssumption ==
    /\ NoProgram \notin Programs
    /\ AllowedCommands \subseteq Programs
    /\ Codes \subseteq 0..255
ASSUME EnvironmentAssumption ==
    /\ ClientFrames \subseteq FrameKinds
    /\ Faults \subseteq {"kill", "read", "wait"}
    /\ Closable \subseteq {"stdin", "stdout", "stderr"}
ASSUME CapacityAssumption ==
    /\ ChannelCapacity \in Nat \ {0}
    /\ PipeCapacity \in Nat \ {0}
    /\ NetCapacity \in Nat \ {0}
ASSUME BoundAssumption == MaxIn \in Nat /\ MaxOut \in Nat

VARIABLES
    (* the websocket *)
    conn,        \* "up"; "closing" once a Close was read; "broken"
    inbox,       \* messages of the client the handler has not read
    outbox,      \* messages of the server the client has not read
    said,        \* control messages the client has sent
    fed,         \* stdin chunks the client has sent
    (* the task of handle_ws *)
    h,           \* the await it is at
    held,        \* the message it is sending on
    reading,     \* read_client_messages
    stdinTx,     \* stdin_tx is Some
    prog,        \* the command it handed to the actor
    (* channels between the tasks *)
    events,      \* ExecEvents, from readers and execute_command
    stdinCh,     \* stdin chunks, to stream_stdin
    cancelled,   \* cancel_tx was taken and fired
    done,        \* what done_tx carried
    (* the task of execute_command *)
    e,           \* the await it is at
    (* the tasks of stream_stdin and stream_reader *)
    st, stHeld,  \* the await of stream_stdin, and the chunk it is writing
    rd, rdHeld,  \* the await of each reader, and the last chunk it has read
    (* the process group of the command *)
    leader,      \* the spawned child
    status,      \* its exit status
    helper,      \* a child of it that inherited stdout and stderr
    signalled,   \* last signal sent to the group
    inPipe, got, gotEof,  \* its stdin pipe, and what it has read of it
    closed,               \* descriptors none of its processes holds any more
    pipe, written,        \* its output pipes, and what was written to them
    (* history of the socket *)
    sent,        \* last chunk of each stream put on the wire
    final        \* Exit or Error frame put on the wire

connVars == <<conn, inbox, outbox, said, fed>>
handlerVars == <<h, held, reading, stdinTx, prog>>
channelVars == <<events, stdinCh, cancelled, done>>
taskVars == <<e, st, stHeld, rd, rdHeld>>
procVars == <<leader, status, helper, signalled, inPipe, got, gotEof, closed,
              pipe, written>>
wireVars == <<sent, final>>
vars == <<connVars, handlerVars, channelVars, taskVars, procVars, wireVars>>

Streams == {"stdout", "stderr"}

NoStatus == -2
Signaled == -1     \* the status of a process a signal ended
Statuses == Codes \cup {Signaled}

(* exit_code *)
ExitCode(s) == IF s = Signaled THEN 1 ELSE s

Exec(p) == [kind |-> "exec", command |-> p]
Stdin(n) == [kind |-> "stdin", n |-> n]
Control(k) == [kind |-> k]
StdinFrames == {Stdin(n) : n \in 1..MaxIn}
ClientMessages == {Exec(p) : p \in Programs \cup {NoProgram}}
                  \cup StdinFrames
                  \cup {Control(k) : k \in FrameKinds \ {"exec", "stdin"}}

Output(s, n) == [kind |-> "output", stream |-> s, n |-> n]
Exit(c) == [kind |-> "exit", code |-> c]
Error == [kind |-> "error"]
NoFrame == [kind |-> "none"]
OutputFrames == {Output(s, n) : s \in Streams, n \in 1..MaxOut}
ExitFrames == {Exit(ExitCode(c)) : c \in Statuses}
ExecEvents == OutputFrames \cup ExitFrames
ServerFrames == ExecEvents \cup {Error, Control("close")}

-----------------------------------------------------------------------------
Init ==
    /\ conn = "up" /\ inbox = <<>> /\ outbox = <<>> /\ said = {} /\ fed = 0
    /\ h = "upgrade" /\ held = NoFrame /\ reading = TRUE /\ stdinTx = FALSE
    /\ prog = NoProgram
    /\ events = <<>> /\ stdinCh = <<>> /\ cancelled = FALSE
    /\ done = "pending"
    /\ e = "none"
    /\ st = "none" /\ stHeld = 0
    /\ rd = [s \in Streams |-> "none"] /\ rdHeld = [s \in Streams |-> 0]
    /\ leader = "none" /\ status = NoStatus /\ helper = "none"
    /\ signalled = "none"
    /\ inPipe = <<>> /\ got = 0 /\ gotEof = FALSE /\ closed = {}
    /\ pipe = [s \in Streams |-> <<>>] /\ written = [s \in Streams |-> 0]
    /\ sent = [s \in Streams |-> 0] /\ final = NoFrame

-----------------------------------------------------------------------------
(* The client and the network. A client sends stdin only before it ends    *)
(* its stdin or the session, and each control message once, but for Cancel,*)
(* which its stdin task and its Ctrl-C may both send. What it sends to a   *)
(* handler that has returned is never read.                                *)

ClientSend(m) ==
    /\ conn = "up" /\ h \notin {"upgrade", "done"}
    /\ Control("close") \notin said
    /\ m.kind \in ClientFrames
    /\ Len(inbox) < NetCapacity
    /\ inbox' = Append(inbox, m)
    /\ IF m.kind = "stdin"
         THEN /\ m.n = fed + 1
              /\ \A k \in {"eof", "cancel"} : Control(k) \notin said
              /\ fed' = m.n
              /\ UNCHANGED said
         ELSE /\ m \notin said \/ m.kind = "cancel"
              /\ said' = said \cup {m}
              /\ UNCHANGED fed
    /\ UNCHANGED <<conn, outbox, handlerVars, channelVars, taskVars, procVars,
                   wireVars>>

ClientRead ==
    /\ outbox # <<>>
    /\ outbox' = Tail(outbox)
    /\ UNCHANGED <<conn, inbox, said, fed, handlerVars, channelVars, taskVars,
                   procVars, wireVars>>

(* The connection is reset: of what was not read yet only what had arrived *)
(* may be left.                                                            *)
ConnBreaks ==
    /\ conn = "up" /\ h # "upgrade"
    /\ conn' = "broken"
    /\ inbox' \in Prefixes(inbox) /\ outbox' \in Prefixes(outbox)
    /\ UNCHANGED <<said, fed, handlerVars, channelVars, taskVars, procVars,
                   wireVars>>

-----------------------------------------------------------------------------
(* handle_ws: up to the command it hands to the actor.                     *)

(* The upgrade is refused unless the Authorization header carries the      *)
(* secret after the "Bearer " prefix.                                      *)
WsHandler ==
    /\ h = "upgrade"
    /\ \E header \in {"missing", "other scheme", "other secret", "secret"} :
         h' = IF header = "secret" THEN "await_exec" ELSE "done"
    /\ UNCHANGED <<connVars, held, reading, stdinTx, prog, channelVars,
                   taskVars, procVars, wireVars>>

(* is_command_allowed, on the first word of the command. *)
IsCommandAllowed(p) == AllowedCommands = {} \/ p \in AllowedCommands

AwaitExec ==
    /\ h = "await_exec" /\ inbox # <<>>
    /\ LET m == Head(inbox) IN
         /\ IF m.kind = "exec" /\ IsCommandAllowed(m.command)
              THEN /\ h' = "loop" /\ e' = "queued"
                   /\ prog' = m.command /\ stdinTx' = TRUE
              ELSE /\ h' = "send_error"
                   /\ UNCHANGED <<e, prog, stdinTx>>
         /\ conn' = IF m.kind = "close" THEN "closing" ELSE conn
    /\ inbox' = Tail(inbox)
    /\ UNCHANGED <<outbox, said, fed, held, reading, channelVars, st, stHeld,
                   rd, rdHeld, procVars, wireVars>>

AwaitExecFails ==
    /\ h = "await_exec" /\ inbox = <<>> /\ conn = "broken"
    /\ h' = "done"
    /\ UNCHANGED <<connVars, held, reading, stdinTx, prog, channelVars,
                   taskVars, procVars, wireVars>>

-----------------------------------------------------------------------------
(* handle_ws: the select loop. An arm runs to its end, its awaits          *)
(* included, before any other arm is polled again.                         *)

(* Senders of events: execute_command and the readers. *)
ExecReturned == e \in {"ret_ok", "ret_err", "finished"}
EventsOpen == ~ExecReturned \/ \E s \in Streams : rd[s] \in {"read", "send"}

(* The receiver of stdin chunks is with execute_command until it spawns    *)
(* the command, then with stream_stdin until that task ends.               *)
StdinOpen == e = "queued" \/ st \in {"recv", "write"}

(* Faulty: takes the newest event. *)
RecvNewestEvent ==
    /\ h = "loop" /\ events # <<>>
    /\ held' = events[Len(events)]
    /\ events' = SubSeq(events, 1, Len(events) - 1)
    /\ h' = "send_output"
    /\ UNCHANGED <<connVars, reading, stdinTx, prog, stdinCh, cancelled, done,
                   taskVars, procVars, wireVars>>

RecvEvent ==
    /\ h = "loop" /\ events # <<>>
    /\ held' = Head(events) /\ events' = Tail(events)
    /\ h' = "send_output"
    /\ UNCHANGED <<connVars, reading, stdinTx, prog, stdinCh, cancelled, done,
                   taskVars, procVars, wireVars>>

EventsClosed ==
    /\ h = "loop" /\ events = <<>> /\ ~EventsOpen
    /\ h' = "await_done"
    /\ UNCHANGED <<connVars, held, reading, stdinTx, prog, channelVars,
                   taskVars, procVars, wireVars>>

SendOutput ==
    /\ h = "send_output" /\ conn = "up" /\ Len(outbox) < NetCapacity
    /\ outbox' = Append(outbox, held)
    /\ IF held.kind = "output"
         THEN sent' = [sent EXCEPT ![held.stream] = held.n] /\ UNCHANGED final
         ELSE final' = held /\ UNCHANGED sent
    /\ h' = "loop" /\ held' = NoFrame
    /\ UNCHANGED <<conn, inbox, said, fed, reading, stdinTx, prog,
                   channelVars, taskVars, procVars>>

(* The kernel accepts what a dead peer will never get. *)
SendOutputLost ==
    /\ h = "send_output" /\ conn = "broken"
    /\ h' = "loop" /\ held' = NoFrame
    /\ UNCHANGED <<connVars, reading, stdinTx, prog, channelVars, taskVars,
                   procVars, wireVars>>

(* The task returns: it drops both channel ends it owns.                   *)
SendOutputFails ==
    /\ h = "send_output" /\ conn # "up"
    /\ cancelled' = TRUE
    /\ h' = "done" /\ held' = NoFrame /\ stdinTx' = FALSE
    /\ events' = <<>>
    /\ UNCHANGED <<connVars, reading, prog, stdinCh, done, taskVars, procVars,
                   wireVars>>

RecvFrame ==
    /\ h = "loop" /\ reading /\ inbox # <<>>
    /\ inbox' = Tail(inbox)
    /\ LET m == Head(inbox) IN
         /\ IF m.kind = "stdin" /\ stdinTx
              THEN h' = "send_stdin" /\ held' = m
              ELSE UNCHANGED <<h, held>>
         /\ stdinTx' = (stdinTx /\ m.kind # "eof")
         /\ IF m.kind \in {"cancel", "bad", "close"}
              THEN cancelled' = TRUE /\ reading' = FALSE
              ELSE UNCHANGED <<cancelled, reading>>
         /\ conn' = IF m.kind = "close" THEN "closing" ELSE conn
    /\ UNCHANGED <<outbox, said, fed, prog, events, stdinCh, done, taskVars,
                   procVars, wireVars>>

(* Faulty: stops reading and does not tell the execution. *)
RecvFailsUntold ==
    /\ h = "loop" /\ reading /\ inbox = <<>> /\ conn = "broken"
    /\ reading' = FALSE
    /\ UNCHANGED <<connVars, h, held, stdinTx, prog, channelVars, taskVars,
                   procVars, wireVars>>

RecvFails ==
    /\ h = "loop" /\ reading /\ inbox = <<>> /\ conn = "broken"
    /\ cancelled' = TRUE /\ reading' = FALSE
    /\ UNCHANGED <<connVars, h, held, stdinTx, prog, events, stdinCh, done,
                   taskVars, procVars, wireVars>>

(* Faulty: drops the chunk when the channel is full. *)
TrySendStdin ==
    /\ h = "send_stdin" /\ StdinOpen
    /\ stdinCh' = IF Len(stdinCh) < ChannelCapacity THEN Append(stdinCh, held.n)
                                                   ELSE stdinCh
    /\ h' = "loop" /\ held' = NoFrame
    /\ UNCHANGED <<connVars, reading, stdinTx, prog, events, cancelled, done,
                   taskVars, procVars, wireVars>>

SendStdin ==
    /\ h = "send_stdin" /\ StdinOpen /\ Len(stdinCh) < ChannelCapacity
    /\ stdinCh' = Append(stdinCh, held.n)
    /\ h' = "loop" /\ held' = NoFrame
    /\ UNCHANGED <<connVars, reading, stdinTx, prog, events, cancelled, done,
                   taskVars, procVars, wireVars>>

(* Faulty: tries again. *)
SendStdinRetries == h = "send_stdin" /\ ~StdinOpen /\ UNCHANGED vars

SendStdinFails ==
    /\ h = "send_stdin" /\ ~StdinOpen
    /\ stdinTx' = FALSE
    /\ h' = "loop" /\ held' = NoFrame
    /\ UNCHANGED <<connVars, reading, prog, channelVars, taskVars, procVars,
                   wireVars>>

-----------------------------------------------------------------------------
(* handle_ws: the end of the session.                                      *)

(* Faulty: does not look at the result. *)
AwaitDoneUnchecked ==
    /\ h = "await_done" /\ done # "pending"
    /\ h' = "close"
    /\ UNCHANGED <<connVars, held, reading, stdinTx, prog, channelVars,
                   taskVars, procVars, wireVars>>

AwaitDone ==
    /\ h = "await_done" /\ done # "pending"
    /\ h' = IF done = "ok" THEN "close" ELSE "send_error"
    /\ UNCHANGED <<connVars, held, reading, stdinTx, prog, channelVars,
                   taskVars, procVars, wireVars>>

(* An Error frame; that it cannot be sent is ignored. *)
SendError ==
    /\ h = "send_error"
    /\ IF conn = "up"
         THEN /\ Len(outbox) < NetCapacity
              /\ outbox' = Append(outbox, Error) /\ final' = Error
         ELSE UNCHANGED <<outbox, final>>
    /\ h' = "close"
    /\ UNCHANGED <<conn, inbox, said, fed, held, reading, stdinTx, prog,
                   channelVars, taskVars, procVars, sent>>

(* sender.close(), whose failure is ignored, and the task returns.         *)
Close ==
    /\ h = "close"
    /\ IF conn = "up"
         THEN /\ Len(outbox) < NetCapacity
              /\ outbox' = Append(outbox, Control("close"))
         ELSE UNCHANGED outbox
    /\ h' = "done" /\ stdinTx' = FALSE
    /\ UNCHANGED <<conn, inbox, said, fed, held, reading, prog, channelVars,
                   taskVars, procVars, wireVars>>

-----------------------------------------------------------------------------
(* execute_command.                                                        *)

StartCommand ==
    /\ e = "queued" /\ prog # NoProgram
    /\ e' = "wait" /\ leader' = "run"
    /\ st' = "recv" /\ rd' = [s \in Streams |-> "read"]
    /\ UNCHANGED <<connVars, handlerVars, channelVars, stHeld, rdHeld, status,
                   helper, signalled, inPipe, got, gotEof, closed, pipe,
                   written, wireVars>>

(* No command, or spawn failed: the channel ends it was given are dropped. *)
SpawnFails ==
    /\ e = "queued"
    /\ e' = "ret_err" /\ stdinCh' = <<>>
    /\ UNCHANGED <<connVars, handlerVars, events, cancelled, done, st, stHeld,
                   rd, rdHeld, procVars, wireVars>>

(* The awaits at which execute_command waits for its child. *)
Reap(from) ==
    /\ e = from /\ leader = "zombie"
    /\ leader' = "reaped" /\ e' = "join_stdout"
    /\ UNCHANGED <<connVars, handlerVars, channelVars, st, stHeld, rd, rdHeld,
                   status, helper, signalled, inPipe, got, gotEof, closed,
                   pipe, written, wireVars>>

ChildExited == Reap("wait")

(* Faulty: goes on to KILL although the child has exited. *)
ExitInGraceKills ==
    /\ e = "grace" /\ leader = "zombie"
    /\ leader' = "reaped" /\ e' = "kill"
    /\ UNCHANGED <<connVars, handlerVars, channelVars, st, stHeld, rd, rdHeld,
                   status, helper, signalled, inPipe, got, gotEof, closed,
                   pipe, written, wireVars>>

ExitInGrace == Reap("grace")
ExitAfterKill == Reap("kill_wait")

(* A wait that fails is an error of the command, whose child is killed.    *)
WaitFails ==
    /\ "wait" \in Faults /\ e \in {"wait", "grace", "kill_wait"}
    /\ e' = "kill_child"
    /\ UNCHANGED <<connVars, handlerVars, channelVars, st, stHeld, rd, rdHeld,
                   procVars, wireVars>>

ExecStep(from, to) ==
    /\ e = from
    /\ e' = to
    /\ UNCHANGED <<connVars, handlerVars, channelVars, st, stHeld, rd, rdHeld,
                   procVars, wireVars>>

CancelReceived == cancelled /\ ExecStep("wait", "term")

(* terminate_child: TERM to the group, the grace period, KILL to the group.*)
(* What `kill` answers is only logged. The group exists while its leader   *)
(* was not reaped or a member of it runs.                                  *)

SendTerm ==
    /\ e = "term"
    /\ e' = "grace"
    /\ signalled' \in {"TERM"} \cup (IF "kill" \in Faults THEN {signalled}
                                                          ELSE {})
    /\ UNCHANGED <<connVars, handlerVars, channelVars, st, stHeld, rd, rdHeld,
                   leader, status, helper, inPipe, got, gotEof, closed, pipe,
                   written, wireVars>>

GraceExpires == ExecStep("grace", "kill")

KillLeader ==
    IF leader = "run"
      THEN leader' = "zombie" /\ status' = Signaled /\ inPipe' = <<>>
      ELSE UNCHANGED <<leader, status, inPipe>>

(* Faulty: a second TERM instead of a KILL. *)
SendSecondTerm ==
    /\ e = "kill"
    /\ e' = "kill_wait" /\ signalled' = "TERM"
    /\ UNCHANGED <<connVars, handlerVars, channelVars, st, stHeld, rd, rdHeld,
                   leader, status, helper, inPipe, got, gotEof, closed, pipe,
                   written, wireVars>>

SendKill ==
    /\ e = "kill"
    /\ e' = "kill_wait"
    /\ \/ /\ signalled' = "KILL"
          /\ KillLeader
          /\ helper' = IF helper = "run" THEN "dead" ELSE helper
       \/ /\ "kill" \in Faults
          /\ UNCHANGED <<signalled, leader, status, helper, inPipe>>
    /\ UNCHANGED <<connVars, handlerVars, channelVars, st, stHeld, rd, rdHeld,
                   got, gotEof, closed, pipe, written, wireVars>>

(* The readers are awaited in turn: stderr only once stdout has ended well.*)
Join(s, from, to) ==
    \/ rd[s] = "eof" /\ ExecStep(from, to)
    \/ rd[s] = "failed" /\ ExecStep(from, "kill_child")

(* Faulty: each of these leaves the stderr reader alone. *)
JoinStdoutOnly == Join("stdout", "join_stdout", "send_exit")
DetachStderr == ExecStep("join_stderr", "send_exit")

JoinStdout == Join("stdout", "join_stdout", "join_stderr")
JoinStderr == Join("stderr", "join_stderr", "send_exit")

(* Faulty: returns without killing the child. *)
LeaveChild == ExecStep("kill_child", "ret_err")

(* child.kill(): the child is signalled and waited for, unless it was      *)
(* reaped. What it answers is ignored.                                     *)
KillChild ==
    /\ e = "kill_child"
    /\ IF leader = "reaped"
         THEN e' = "ret_err" /\ UNCHANGED <<leader, status, inPipe>>
         ELSE e' = "reap_child" /\ KillLeader
    /\ UNCHANGED <<connVars, handlerVars, channelVars, st, stHeld, rd, rdHeld,
                   helper, signalled, got, gotEof, closed, pipe, written,
                   wireVars>>

ReapKilled ==
    /\ e = "reap_child" /\ leader = "zombie"
    /\ e' = "ret_err"
    /\ \/ leader' = "reaped"
       \/ "wait" \in Faults /\ leader' = "zombie"
    /\ UNCHANGED <<connVars, handlerVars, channelVars, st, stHeld, rd, rdHeld,
                   status, helper, signalled, inPipe, got, gotEof, closed,
                   pipe, written, wireVars>>

SendExit ==
    /\ e = "send_exit"
    /\ \/ /\ h # "done" /\ Len(events) < ChannelCapacity
          /\ events' = Append(events, Exit(ExitCode(status)))
          /\ e' = "ret_ok"
       \/ /\ h = "done"
          /\ e' = "ret_err"
          /\ UNCHANGED events
    /\ UNCHANGED <<connVars, handlerVars, stdinCh, cancelled, done, st,
                   stHeld, rd, rdHeld, procVars, wireVars>>

(* server_actor: the result of the task goes to the handler. *)
ReportDone ==
    /\ e \in {"ret_ok", "ret_err"}
    /\ done' = IF e = "ret_ok" THEN "ok" ELSE "err"
    /\ e' = "finished"
    /\ UNCHANGED <<connVars, handlerVars, events, stdinCh, cancelled, st,
                   stHeld, rd, rdHeld, procVars, wireVars>>

-----------------------------------------------------------------------------
(* The other ends of the pipes. They are open as long as a process of the  *)
(* command runs that holds them.                                           *)

Running == leader = "run" \/ helper = "run"
Writers(s) == Running /\ s \notin closed
TakesStdin == leader = "run" /\ "stdin" \notin closed

-----------------------------------------------------------------------------
(* stream_stdin. It owns the receiver of the channel and the write end of  *)
(* the pipe of the command, and drops both when it ends.                   *)

StdinRecv ==
    /\ st = "recv" /\ stdinCh # <<>>
    /\ stHeld' = Head(stdinCh) /\ stdinCh' = Tail(stdinCh)
    /\ st' = "write"
    /\ UNCHANGED <<connVars, handlerVars, events, cancelled, done, e, rd,
                   rdHeld, procVars, wireVars>>

StdinWrite ==
    /\ st = "write" /\ TakesStdin /\ Len(inPipe) < PipeCapacity
    /\ inPipe' = Append(inPipe, stHeld)
    /\ st' = "recv" /\ stHeld' = 0
    /\ UNCHANGED <<connVars, handlerVars, channelVars, e, rd, rdHeld, leader,
                   status, helper, signalled, got, gotEof, closed, pipe,
                   written, wireVars>>

StdinGone ==
    /\ st' = "gone" /\ stHeld' = 0 /\ stdinCh' = <<>>
    /\ UNCHANGED <<connVars, handlerVars, events, cancelled, done, e, rd,
                   rdHeld, procVars, wireVars>>

(* Faulty: ends with the sender, before the channel is drained. *)
StdinEndEarly == st = "recv" /\ ~stdinTx /\ StdinGone

StdinEnd == st = "recv" /\ stdinCh = <<>> /\ ~stdinTx /\ StdinGone

(* Nobody reads the pipe any more: the command has ended, or has closed it *)
(* and runs on.                                                            *)
StdinWriteFails == st = "write" /\ ~TakesStdin /\ StdinGone

(* execute_command aborts the task when it no longer waits for its child.  *)
Waiting == e \in {"wait", "term", "grace", "kill", "kill_wait"}
StdinAborted == st \in {"recv", "write"} /\ ~Waiting /\ StdinGone

-----------------------------------------------------------------------------
(* stream_reader, for one of the two streams.                              *)

ReaderReads(s) ==
    /\ rd[s] = "read" /\ pipe[s] # <<>>
    /\ rdHeld' = [rdHeld EXCEPT ![s] = Head(pipe[s])]
    /\ pipe' = [pipe EXCEPT ![s] = Tail(pipe[s])]
    /\ rd' = [rd EXCEPT ![s] = "send"]
    /\ UNCHANGED <<connVars, handlerVars, channelVars, e, st, stHeld, leader,
                   status, helper, signalled, inPipe, got, gotEof, closed,
                   written, wireVars>>

ReaderEnds(s, how) ==
    /\ rd' = [rd EXCEPT ![s] = how]
    /\ pipe' = [pipe EXCEPT ![s] = <<>>]
    /\ UNCHANGED <<connVars, handlerVars, channelVars, e, st, stHeld, rdHeld,
                   leader, status, helper, signalled, inPipe, got, gotEof,
                   closed, written, wireVars>>

ReaderEof(s) ==
    rd[s] = "read" /\ pipe[s] = <<>> /\ ~Writers(s) /\ ReaderEnds(s, "eof")

ReadFails(s) == "read" \in Faults /\ rd[s] = "read" /\ ReaderEnds(s, "failed")

(* Faulty: the channel has no capacity. *)
ReaderSendsUnbounded(s) ==
    /\ rd[s] = "send" /\ h # "done"
    /\ events' = Append(events, Output(s, rdHeld[s]))
    /\ rd' = [rd EXCEPT ![s] = "read"]
    /\ UNCHANGED <<connVars, handlerVars, stdinCh, cancelled, done, e, st,
                   stHeld, rdHeld, procVars, wireVars>>

ReaderSends(s) ==
    /\ rd[s] = "send" /\ h # "done" /\ Len(events) < ChannelCapacity
    /\ events' = Append(events, Output(s, rdHeld[s]))
    /\ rd' = [rd EXCEPT ![s] = "read"]
    /\ UNCHANGED <<connVars, handlerVars, stdinCh, cancelled, done, e, st,
                   stHeld, rdHeld, procVars, wireVars>>

ReaderSendFails(s) ==
    rd[s] = "send" /\ h = "done" /\ ReaderEnds(s, "failed")

-----------------------------------------------------------------------------
(* The command: any program. It may read its stdin or not, write, leave a  *)
(* helper behind that holds its outputs, close any descriptor, and end when*)
(* it likes or when a signal ends it.                                      *)

CmdReads ==
    /\ TakesStdin /\ inPipe # <<>>
    /\ got' = Head(inPipe) /\ inPipe' = Tail(inPipe)
    /\ UNCHANGED <<connVars, handlerVars, channelVars, taskVars, leader,
                   status, helper, signalled, gotEof, closed, pipe, written,
                   wireVars>>

CmdSeesEof ==
    /\ TakesStdin /\ inPipe = <<>> /\ st = "gone" /\ ~gotEof
    /\ gotEof' = TRUE
    /\ UNCHANGED <<connVars, handlerVars, channelVars, taskVars, leader,
                   status, helper, signalled, inPipe, got, closed, pipe,
                   written, wireVars>>

CmdWrites(s) ==
    /\ Writers(s) /\ rd[s] \in {"read", "send"}
    /\ written[s] < MaxOut /\ Len(pipe[s]) < PipeCapacity
    /\ written' = [written EXCEPT ![s] = @ + 1]
    /\ pipe' = [pipe EXCEPT ![s] = Append(@, written[s] + 1)]
    /\ UNCHANGED <<connVars, handlerVars, channelVars, taskVars, leader,
                   status, helper, signalled, inPipe, got, gotEof, closed,
                   wireVars>>

CmdCloses(d) ==
    /\ Running /\ d \in Closable \ closed
    /\ closed' = closed \cup {d}
    /\ inPipe' = IF d = "stdin" THEN <<>> ELSE inPipe
    /\ UNCHANGED <<connVars, handlerVars, channelVars, taskVars, leader,
                   status, helper, signalled, got, gotEof, pipe, written,
                   wireVars>>

CmdForks ==
    /\ leader = "run" /\ helper = "none"
    /\ helper' = "run"
    /\ UNCHANGED <<connVars, handlerVars, channelVars, taskVars, leader,
                   status, signalled, inPipe, got, gotEof, closed, pipe,
                   written, wireVars>>

CmdExits(c) ==
    /\ leader = "run"
    /\ leader' = "zombie" /\ status' = c /\ inPipe' = <<>>
    /\ UNCHANGED <<connVars, handlerVars, channelVars, taskVars, helper,
                   signalled, got, gotEof, closed, pipe, written, wireVars>>

HelperExits ==
    /\ helper = "run"
    /\ helper' = "dead"
    /\ UNCHANGED <<connVars, handlerVars, channelVars, taskVars, leader,
                   status, signalled, inPipe, got, gotEof, closed, pipe,
                   written, wireVars>>

-----------------------------------------------------------------------------
HandlerNext ==
    \/ WsHandler \/ AwaitExec \/ AwaitExecFails
    \/ RecvEvent \/ EventsClosed
    \/ SendOutput \/ SendOutputLost \/ SendOutputFails
    \/ RecvFrame \/ RecvFails \/ SendStdin \/ SendStdinFails
    \/ AwaitDone \/ SendError \/ Close

ExecNext ==
    \/ StartCommand \/ SpawnFails
    \/ ChildExited \/ CancelReceived \/ WaitFails
    \/ SendTerm \/ ExitInGrace \/ GraceExpires \/ SendKill \/ ExitAfterKill
    \/ JoinStdout \/ JoinStderr \/ KillChild \/ ReapKilled
    \/ SendExit \/ ReportDone

StdinNext ==
    StdinRecv \/ StdinWrite \/ StdinEnd \/ StdinWriteFails \/ StdinAborted

ReaderNext(s) ==
    \/ ReaderReads(s) \/ ReaderEof(s) \/ ReadFails(s)
    \/ ReaderSends(s) \/ ReaderSendFails(s)

ClientNext ==
    (\E m \in ClientMessages : ClientSend(m)) \/ ClientRead \/ ConnBreaks

CommandNext ==
    \/ CmdReads \/ CmdSeesEof \/ CmdForks \/ HelperExits
    \/ \E s \in Streams : CmdWrites(s)
    \/ \E d \in Closable : CmdCloses(d)
    \/ \E c \in Statuses : CmdExits(c)

(* Nothing is left to do: every task has returned, every process is gone.  *)
Over ==
    /\ h = "done" /\ e \in {"none", "finished"} /\ outbox = <<>>
    /\ ~Running /\ UNCHANGED vars

Next ==
    \/ ClientNext \/ HandlerNext \/ ExecNext \/ StdinNext
    \/ \E s \in Streams : ReaderNext(s)
    \/ CommandNext \/ Over

Spec == Init /\ [][Next]_vars

(* As long as a task can run the runtime runs one, and the timer of the    *)
(* grace period fires. Tasks take finitely many steps, so this is all they *)
(* need. Nothing is assumed of the command, of what the client sends, of   *)
(* whether it reads, or of when the connection breaks.                     *)
Runtime ==
    \/ HandlerNext \/ ExecNext \/ StdinNext
    \/ \E s \in Streams : ReaderNext(s)

Fairness == WF_vars(Runtime)

FairSpec == Spec /\ Fairness

-----------------------------------------------------------------------------
(* The promise of a session, and its refinement.                           *)

Phase == CASE leader = "none" -> "idle"
           [] leader = "run" -> "running"
           [] leader \in {"zombie", "reaped"} -> "ended"

ReportOf(s) == Exit(ExitCode(s))

Service == INSTANCE ExecService
             WITH phase <- Phase, produced <- written, delivered <- sent,
                  report <- final, Report <- ReportOf, Failure <- Error,
                  NoReport <- NoFrame

(* The session implements ExecService: however its tasks, the client, the  *)
(* connection and the command interleave, the client sees the output of    *)
(* one run of one command in order and at most one report, true to it.     *)
ImplementsService == Service!Spec

-----------------------------------------------------------------------------
ConnType ==
    /\ conn \in {"up", "closing", "broken"}
    /\ inbox \in Seq(ClientMessages) /\ Len(inbox) <= NetCapacity
    /\ outbox \in Seq(ServerFrames) /\ Len(outbox) <= NetCapacity
    /\ said \subseteq ClientMessages /\ fed \in 0..MaxIn

HandlerType ==
    /\ h \in {"upgrade", "await_exec", "loop", "send_output", "send_stdin",
              "await_done", "send_error", "close", "done"}
    /\ held \in ExecEvents \cup StdinFrames \cup {NoFrame}
    /\ reading \in BOOLEAN /\ stdinTx \in BOOLEAN
    /\ prog \in Programs \cup {NoProgram}

ChannelType ==
    /\ events \in Seq(ExecEvents) /\ Len(events) <= ChannelCapacity
    /\ stdinCh \in Seq(1..MaxIn) /\ Len(stdinCh) <= ChannelCapacity
    /\ cancelled \in BOOLEAN /\ done \in {"pending", "ok", "err"}

TaskType ==
    /\ e \in {"none", "queued", "wait", "term", "grace", "kill", "kill_wait",
              "join_stdout", "join_stderr", "send_exit", "kill_child",
              "reap_child", "ret_ok", "ret_err", "finished"}
    /\ st \in {"none", "recv", "write", "gone"} /\ stHeld \in 0..MaxIn
    /\ rd \in [Streams -> {"none", "read", "send", "eof", "failed"}]
    /\ rdHeld \in [Streams -> 0..MaxOut]

ProcType ==
    /\ leader \in {"none", "run", "zombie", "reaped"}
    /\ status \in Statuses \cup {NoStatus}
    /\ helper \in {"none", "run", "dead"}
    /\ signalled \in {"none", "TERM", "KILL"}
    /\ inPipe \in Seq(1..MaxIn) /\ got \in 0..MaxIn /\ gotEof \in BOOLEAN
    /\ closed \subseteq Closable
    /\ pipe \in [Streams -> Seq(1..MaxOut)]
    /\ \A s \in Streams : Len(pipe[s]) <= PipeCapacity
    /\ written \in [Streams -> 0..MaxOut]

WireType ==
    /\ sent \in [Streams -> 0..MaxOut]
    /\ final \in ExitFrames \cup {Error, NoFrame}

(* Type correctness of the session's state, capacities included.           *)
TypeOK ==
    /\ ConnType /\ HandlerType /\ ChannelType
    /\ TaskType /\ ProcType /\ WireType

(* The Exit frame is put on the wire only after every chunk the command or *)
(* a helper of it wrote, to either stream, and it carries the code of the  *)
(* status the child was reaped with: execute_command joins both readers    *)
(* before it sends Exit over the channel the readers share.                *)
ExitAfterAllOutput ==
    final.kind = "exit" =>
        /\ sent = written /\ \A s \in Streams : ~Writers(s)
        /\ leader = "reaped" /\ final = ReportOf(status)

(* Chunks of a stream go on the wire one after the other: none is skipped, *)
(* repeated or overtaken on the way from pipe to reader to channel to      *)
(* handler to socket.                                                      *)
NextChunk(s, n) == outbox' = Append(outbox, Output(s, n)) => n = sent[s] + 1
OutputInOrder ==
    [][\A s \in Streams : \A n \in 1..MaxOut : NextChunk(s, n)]_vars

(* Nothing follows the Exit or Error frame: an Error is only sent once no  *)
(* task holds the channel any more, an Exit is the last event in it.       *)
TerminalFrameIsLast == [][final # NoFrame => UNCHANGED wireVars]_vars

(* The server does not close a connection that is still up without having  *)
(* told the client how the command ended.                                  *)
AnswerBeforeClose == h = "close" /\ conn = "up" => final # NoFrame

(* What the command reads next follows what it has read: on the way from   *)
(* socket to handler to channel to task to pipe no chunk is lost, repeated *)
(* or overtaken.                                                           *)
StdinInOrder == \A i \in 1..Len(inPipe) : inPipe[i] = got + i

(* A command that is neither cancelled nor failing sees the end of its     *)
(* stdin only when the client has sent it, and has then read all of it:    *)
(* chunks queued behind a slow command are not lost with the channel.      *)
EofAfterAllInput ==
    [][gotEof' # gotEof /\ ~cancelled /\ Waiting
          => Control("eof") \in said /\ got = fed]_vars

(* A signal is sent only to the group of a child that was not reaped: the  *)
(* process id in the argument of `kill` cannot have been given to another. *)
NoSignalAfterReap ==
    [][(e \in {"term", "kill"} /\ e' # e) => leader \in {"run", "zombie"}]_vars

(* The handler never leaves a command running behind it that has not been  *)
(* told to end, and the actor never reports a command done that still runs.*)
NoAbandonedCommand ==
    leader = "run" => (h = "done" => cancelled) /\ done = "pending"

(* Back pressure: of each stream at most a pipe, a channel and the chunks  *)
(* the reader and the handler hold are between the command and a socket    *)
(* that is up, however slowly the client reads.                            *)
OutputInFlightBounded ==
    conn = "up" /\ h # "done" =>
        \A s \in Streams : rd[s] # "failed" =>
            written[s] - sent[s] <= PipeCapacity + ChannelCapacity + 2

-----------------------------------------------------------------------------
(* A command whose session was cancelled ends, whatever it does with TERM: *)
(* the handler fires cancel_tx, execute_command sends TERM, waits for the  *)
(* grace period and sends KILL.                                            *)
CancelKillsCommand == (cancelled /\ leader = "run") ~> leader # "run"

(* What may hold the handler up for good: a client that does not read what *)
(* it is sent, and a command that does not read its stdin.                 *)
ClientStalls ==
    /\ h \in {"send_output", "send_error", "close"}
    /\ conn = "up" /\ Len(outbox) = NetCapacity
StdinStalls ==
    h = "send_stdin" /\ StdinOpen /\ Len(stdinCh) = ChannelCapacity

(* Once the command has ended and nobody can write to its outputs any more *)
(* the session comes to its end: the child is reaped, the output that is   *)
(* left is sent, the result reported and the handler returns, even when it *)
(* was blocked on stdin nobody reads. The client may stop reading for good.*)
SessionEnds ==
    (leader = "zombie" /\ \A s \in Streams : ~Writers(s))
        ~> ((h = "done" /\ e = "finished" /\ leader = "reaped")
             \/ []ClientStalls)

(* A command ends whose client has sent a Cancel, a Close or what is no    *)
(* frame, or whose connection is lost, in whatever order the rest of the   *)
(* session happens: but for a handler that is held up for good, by stdin   *)
(* the command does not read or by output the client does not read, the    *)
(* word gets through.                                                      *)
EndAsked ==
    conn # "up" \/ \E i \in 1..Len(inbox) :
                       inbox[i].kind \in {"cancel", "close", "bad"}
CancelHonoured ==
    (leader = "run" /\ EndAsked)
        ~> (leader # "run" \/ []StdinStalls \/ []ClientStalls)
=============================================================================
