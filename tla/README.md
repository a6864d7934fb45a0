# A TLA+ model of hostcmd

`hostcmd` runs a command on another machine: `hostcmd exec` opens a websocket
to a `hostcmd server`, which spawns the command, streams stdin to it and stdout
and stderr back, and reports its exit code. The server may run as a daemon, be
reachable through an ssh forward, and is ended by `hostcmd stop`. This
directory holds TLA+ modules of those parts, TLC configurations that check
them, and proofs checked by TLAPS. Paths below are relative to `src/src/`.

## The system

| part | state it keeps | operations | talks to |
|------|----------------|------------|----------|
| server session (`server.rs` 514-1144) | per websocket: the select loop of `handle_ws`, two bounded channels, a cancel and a done channel, the tasks of `execute_command`, `stream_stdin` and two `stream_reader`s, the child and its pipes | authenticate, await exec, forward stdin, forward output, cancel, join, report | websocket, command, kernel |
| client session (`client.rs`) | the select loop, a stdin task, the exit code so far | connect, send exec, forward stdin, mirror output, Ctrl-C | websocket, terminal |
| daemon (`server.rs` 124-511) | listener, pid file, readiness file, ssh child | re-exec, bind, write pid, forward, report readiness | launcher, ssh, files |
| stop (`stop.rs`) | the pid it read | TERM, poll, KILL, remove the pid file | processes, pid file |
| protocol (`protocol.rs`) | none | encode and decode frames | both ends |
| command line and paths (`cli.rs`, `config.rs`) | the environment, which a process hands to the next | parse flags, variables and defaults, expand `~` | shell, daemon child, command |
| client metadata and environment (`client.rs` 132-187) | none | what a client says of itself and forwards | the environment of the command |
| logging (`logging.rs`) | a task-local path | format and append lines | |

What is hard about it, and where:

* **Interleaving.** A session is five tasks and a process group. An arm of the
  select of `handle_ws` may await, and while it does, no other arm is polled.
* **Back pressure.** Bounded channels and pipes in both directions, joined in
  the handler: bounded memory, and the danger of a circular wait.
* **Ends.** A command may exit, be killed, leave a helper behind that holds its
  pipes; a client may close, vanish, cancel; a read or a wait may fail. Each in
  any order with the others, and each has to lead to one true report.
* **Files and processes.** Launcher, server, `stop` and a successor meet at a
  pid file, a readiness file and a port, with no lock and with crashes.
* **Two ends.** Client and server each have a select loop that stops reading
  while it sends, a connection between them that either may close or lose, and
  a protocol in which the server silently drops what it does not expect.
* **Descent.** The environment is an interface: of a launcher to its daemon, of
  a server to its command, and of that command to a `hostcmd` it runs in turn.

## Modules

| module | what it is |
|--------|------------|
| `ExecService` | the promise of a session: one command, its output in order, at most one report, true to it. No task, channel or socket. |
| `ServerSession` | the server's side of one websocket, task by task, with the client, the network, the command and its helper as environment. Refines `ExecService`. |
| `ServerSessionInv` | its inductive invariants: `IInv`, of output and result, and `InputInv`, of stdin. |
| `ChunkQueues` | what it means that a queue holds the chunks of a stream, for the invariants of both sessions. |
| `MCServerSession` | restrictions of it that TLC needs: a command that writes little to stderr, or nothing, or that does not read, and output or stdin one at a time. |
| `ClientSession` | one `hostcmd exec`, against any server of `ExecService`. |
| `ExecSystem` | the composition: `ClientSession` and `ServerSession` joined by one connection, each in the place of the other's stand-in. |
| `MCExecSystem` | `ExecSystem` with a command that writes to stdout only, and with a filter. |
| `Protocol` | encoder and decoder of the frames of both sides, and the buffer output is framed in. |
| `Messages` | a message: a frame of either side, and what it becomes when bytes are cut, added and changed. |
| `MCProtocol` | a sample of frames for it, of every kind and length. |
| `Daemon` | servers, launchers, `stop`, and the files and port they share. |
| `Startup` | flags, variables and defaults, and how one process configures the next. |
| `MCStartup` | values of options that differ from each other. |
| `ChunkQueueLemmas` | lemmas about queues whose ends move. |
| `ServerSessionProofs`, `ServerSessionInputProofs`, `ClientSessionProofs`, `ExecSystemProofs`, `DaemonProofs`, `StartupProofs`, `ProtocolProofs` | the theorems about each part, with their proofs. |

Operators marked *Faulty* are wrong variants of the action that follows them;
no specification uses them. They are there to see each property fail.

### How state and actions correspond to the code

An await is where a task can be preempted, so every task has a variable that
says at which await it is, and an action is what it does from there to the next
one. In `ServerSession`, `h` is the place of `handle_ws` ("loop" is its
`select!`, "send_output" and "send_stdin" are awaits inside an arm), `e` of
`execute_command` with `terminate_child`, `st` of `stream_stdin` and `rd[s]` of
each `stream_reader`. The channels are sequences; a sender's action needs room,
and a channel is closed when its last sender is gone (`EventsOpen`) or its
receiver is (`StdinOpen`, `h = "done"`). `cancelled` stands for `cancel_tx`
fired or dropped, which the receiver cannot tell apart; `done` for what
`done_tx` carried. A return of `handle_ws` drops both of its channel ends in
the action that returns.

A chunk of data is its place in its stream, so that lost, repeated and
overtaken chunks are told apart and nothing else is. The command is any
program: it reads or does not, writes, forks a helper that inherits stdout and
stderr, exits with any code or by a signal, and may close a descriptor and run
on. So a reader sees the end of its stream, and a write to stdin fails, once no
process of the command holds that pipe (`Writers`, `TakesStdin`), which is not
to say that it has ended; `Closable` lists the descriptors that may be closed in
an instance. `CmdCloses` closes one for leader and helper together, and a
helper does not hold stdin. TERM changes nothing by itself,
since the command may ignore it; KILL ends leader and helper. The kill of a
child whose wait or reader has failed is a signal and a wait, with an await
between. `Faults` lists
the failures that may happen in an instance: reads of a pipe, waits for the
child, calls of `kill`. The connection may break at any moment and keep any
first part of what was in flight in each direction; a write to it may still
succeed afterwards.
The websocket client of `ServerSession` sends any frame it is allowed in any
order, undecodable and non-binary ones included.

In `ClientSession`, `c` is the place of `run_client_session`, `t` of its stdin
task. `sigint` tells what becomes of a Ctrl-C: it ends the process until the
first poll of `ctrl_c()` installs a handler; then it is heard only by a listener
that exists, which is the case while `select!` waits; another arm that is ready
may win. `Sent(f)` is a websocket send: it waits for room, goes into the void
when the server has left, and fails after a close or a reset.

In `Daemon`, `srv[i]` is the place of the server with process id `i` in
`run_server_foreground`, `launcher[i]` that of its `wait_for_daemon_start`,
`stop` that of `stop_daemon`. `fs::write` of the readiness file and of the pid
file is two steps each, as a truncated file can be read, and unlinked before it
is written. Ended processes stay as zombies until they are reaped, which is why
`stop` may still find them. `wait_for_daemon_start` has three ends: "ok" and
"failed" report on the daemon, "erred" is an error of the launcher's own, of
`try_wait` or of reading the file, and leaves daemon and file as they are. An
ssh that has ended is "held" while a process it started keeps its pipes open,
which `wait_with_output` waits for.

`ExecSystem` has the variables of both ends. What client and server share is
identified: the server's `inbox` and `outbox` are the client's `toServer` and
`toClient`, what the server has put on the wire is what the client's stand-in
of it has produced, and `Srv` says what the client can know of the server. A
step at the connection is a step of both (the upgrade, a read by the client,
the loss of the connection); all others are a step of one end. The connection
is two variables, as the ends learn at different times that it is gone. What
the client sends is up to the client alone, and what the server sends to the
server alone, so that `ImplementsClient` and `ImplementsServer` are real
questions: is the stand-in each of the two modules was checked against general
enough for the real one?

In `Protocol` a byte is a digit of `Base` and an integer has `Width` of them;
nothing in the format depends on their being 256 and 4, except that the tags
have to be bytes. A step of the decoder gives the set of its outcomes, which is
empty for an error. `Messages` starts with a frame one side may send and edits
its bytes, so it also covers lengths and counts that point past the end or stop
short of it, and unknown tags.

In `Startup` one process of a line of descent is in view: a shell or a command,
a daemon child, a server, the command it runs. `Parse` is what `clap` makes of
flags, variables and defaults, `ChildEnv` what `start_daemon` sets,
`CommandEnv` what `execute_command` sets, in its order. Values are opaque but
for the allow list, which is split at commas, and paths, which are in `HOME` or
not.

## Runs

Passing runs:

| run | question | bounds |
|-----|----------|--------|
| `session_output` | Is output complete, in order, and followed by one true report? Is a command left behind or a wrong process signalled? Is `IInv` an invariant, does the session implement `ExecService`? | 2 chunks of stdout and 1 of stderr, channel of 2, failing reads and waits, a command that may close stderr and run on |
| `session_flow` | Is `InputInv` an invariant? Does stdin arrive in order and its end after all of it? How much output can be in flight? | either 4 chunks of stdin, which fill channel, task and pipe and block the handler, or 5 of stdout, so that the bound of 4 can be exceeded; all capacities 1; every kind of frame, an allow list, failing `kill`, a lost connection, a command that may close its stdin and run on. With output the client sends no end, Cancel or Close |
| `session_ends` | Does a cancelled command end? Does a Cancel, a Close, a bad frame or a lost connection get through? Does a session drain its output and end once its command has? | 4 chunks of stdin, 2 of stdout, all capacities 1; a command that does not read, so that the handler can be held up by stdin (4 chunks) and by a client that does not read (a socket of 1); a client that sends Cancel, Close and what is no frame in any order; no helper and no closed descriptor |
| `client_session` | Is its `IInv` an invariant? Does the client forward, mirror, and end as it should? | 3 chunks of stdin, 2 of each output, channel of 1, socket of 2 |
| `exec_system` | Is the exit code the command's and the output all it wrote, end to end? Does the command see all local stdin before its end? Is each end what the other was checked against? | 1 chunk each way, all capacities 1, so that each queue is empty or full |
| `daemon` | Is its `IInv` an invariant? Do launchers return, do they and `stop` tell the truth? Does the pid file ever name another server than the one that serves? Does a server end with its forward? | 2 daemons, one with a forward, 1 run of `stop` |
| `protocol` | Does every frame decode to itself? Is a message that decodes the encoding of what it decodes to? Can a cut message decode? | bytes of base 6, integers of 2 bytes, every exit code of that width, chunks of 1 to 4 bytes, 2 edits of a message |
| `startup` | Does a daemon serve with the configuration its launcher was given? Does `stop` look at its pid file? Does a command see its own client's metadata? | every subset of flags and of variables, one nested server, every subset of forwarded variables |

The bounds are chosen so that every queue can be empty, full and blocked on,
with a chunk on each side of it, and so that each actor can go through its end
in each of its states; capacities larger than the ones used add states of the
same kind. The theorems below hold for all of them, and for any number of runs
of `stop`. In the session runs the client sends one Exec, as another one is like
any frame the handler does not expect. `exec_system` has one chunk
each way and a command that is silent on stderr: the order of chunks and of the
two streams is the matter of the runs of its two ends, and `ImplementsClient`
and `ImplementsServer` carry over what they show. In `protocol`, 2 bytes of
base 6 hold integers past what any message here has left, so that a length can
be too small, exact, too large by one and by far.

Runs that disagree with what the repository says (each is in `PROJECT.json`
under "findings" with the line it disagrees with):

| run | what it shows |
|-----|---------------|
| `exec_filter` | With both directions of the socket full, a filter with enough input deadlocks: the client awaits a stdin frame inside an arm of its select (`client.rs:94`), the server an output frame inside one of its own (`server.rs:676`), and neither reads. |
| `client_exit_code` | Stdin sent after the server's close turns a received exit code into 1 (`client.rs:94-97`). |
| `client_ctrl_c` | A Ctrl-C between two turns of the select is lost (`client.rs:80`). |
| `daemon_pid_file` | A server that ends removes the pid file of its successor (`server.rs:418`). |

More limits of the code are stated by what the passing properties exclude.
`CancelHonoured` says that a Cancel, a Close or a lost connection ends the
command unless the handler is held up for good in one of the two awaits inside
its select arms: in `stdin_tx.send` (`server.rs:708`) by stdin the command does
not read (`StdinStalls`), or in a send to a client that does not read
(`server.rs:676`, `ClientStalls`). In both it reads no frame. A command that
writes before it reads on and is stuck behind the first of them is a circle of
the server alone; no run shows it by itself. `SessionEnds` excludes the client
that does not read in the same way, and speaks of a session whose outputs
nobody can write to any more: once the command itself has exited, cancellation
is not watched, and a helper that holds its pipes keeps the session for as long
as it likes (`server.rs:916-932`).

`FailedStartLeavesNoServer` and `ReadyFileRemoved` speak of a launcher that
reports on its daemon ("ok", "failed"). One that returns an error of its own
may leave a daemon that goes on to serve, and a readiness file nobody removes
(`server.rs:284`, `309-316`). `ReadyFileRemoved` also names the one file
that is left behind a launcher that did report: a forwarding server that has
served and lost its forward writes an error nobody reads (`server.rs:137`).

### Fairness

`ServerSession`: weak fairness of all its tasks together (`Runtime`): while some
task can run, one does. The timer of the grace period is one of them. This is
weaker than fairness of each task, and enough
since the tasks can take only finitely many steps without the command, the
client or the connection moving. Neither the command nor the client is assumed
to do anything, to read its end of the socket included: hostcmd's own client
does not while it is blocked in a send (`client.rs:94`). The finding `exec_filter` adds fairness of the
client, of its stdin, of the server and of the filter, each by itself, so that
nothing but the circular wait can hold them up. `ClientSession`: weak fairness
of the main loop and of the stdin task's sends; none of local stdin, of Ctrl-C
or of the server. `Daemon`: weak fairness of each server and
each launcher; none of starts, crashes, `stop`, ssh or what ssh has left behind,
nor of the reaping of zombies.

`CHECK_DEADLOCK FALSE` appears in `exec_filter`, whose specification has no
step for a session that is over; in `protocol`, where a message is edited only
so often; and in `startup`, where the line of descent ends with a refused
server or at its bound. Everywhere else deadlock is checked.

## What is proved

TLAPS checks the theorems below for every value of the constants that meets
the named assumptions of the modules. Each module of theorems has a lemma per
conjunct of an inductive invariant, with a step per action that can disturb it,
and the theorems at its end. None of the properties is inductive alone.

| module | theorem | what it states for every instance |
|--------|---------|-----------------------------------|
| `ServerSessionProofs` | `Invariance`, `TypeCorrect` | `IInv`, and with it that no queue exceeds its capacity |
| | `ExitComesLast`, `AlwaysAnswers`, `TerminalFrame` | `ExitAfterAllOutput`, `AnswerBeforeClose`, `TerminalFrameIsLast` |
| | `NothingAbandoned`, `SignalsOwnChild` | `NoAbandonedCommand`, `NoSignalAfterReap` |
| | `OutputOrdered`, `BackPressure` | `OutputInOrder`, `OutputInFlightBounded` |
| | `Refinement` | `ImplementsService`: each step is one of `ExecService` or a stutter |
| `ServerSessionInputProofs` | `InputInvariance`, `StdinOrdered`, `EofComesLast` | `InputInv`, `StdinInOrder`, `EofAfterAllInput` |
| `ClientSessionProofs` | `Invariance`, `EofComesLast`, `StdinIsForwarded` | `IInv`, `EofAfterAllStdin`, `StdinForwardedInOrder` |
| | `OutputIsMirrored`, `SuccessIsTrue` | `MirroredInOrder`, `SuccessIsReported` |
| `ExecSystemProofs` | `SystemInvariance` | `SysInv`: what the two ends know of each other |
| | `ServerIsCovered`, `ClientIsCovered` | `ImplementsServer`, `ImplementsClient` |
| | `ExitCodeIsTrue`, `StdinReachesCommand` | `ExitCodeEndToEnd`, `StdinEndToEnd` |
| `DaemonProofs` | `Invariance`, `PidFileIsTrue` | `IInv`, `PidFileNamesNoOther` |
| | `SuccessIsTrue`, `FailureIsTrue`, `ReadyFileIsRemoved` | `SuccessfulStartServed`, `FailedStartLeavesNoServer`, `ReadyFileRemoved` |
| | `StopIsTrue` | `StoppedServerIsGone` |
| `StartupProofs` | `Invariance`, `ConfigurationIsKept` | its `IInv`, `DaemonKeepsConfiguration` |
| | `ClientIsSeen`, `DaemonIsFound` | `CommandSeesItsClient`, `StopFindsDaemon` |
| `ProtocolProofs` | `EveryFrameArrives`, `RoundTripHolds` | a frame of any size decodes to itself and nothing else; `RoundTrip` |
| | `OnlyItsBytesDecode`, `CanonicalHolds` | bytes decode only if they are the encoding of what they decode to; `Canonical` |
| | `NoPrefixHolds` | `NoPrefixDecodes` |

### Server session

Assumed: channel, pipe and socket hold at least one message, exit codes are
bytes, allowed commands are commands.

That the Exit frame comes after all output is a fact about the wire, and its
reason lies far from there: `execute_command` joined both readers, a reader
ends well only at the end of its pipe, which it reaches only when no process can
write any more, and everything it read is in the shared channel in front of the
Exit. So `IInv` follows a chunk: `PipeInv` says that a pipe holds exactly the
chunks its reader has not read, `ChannelInv` that the channel holds exactly the
chunks between the last one queued by the reader and the last one taken by the
handler, once and in order, although the other stream's chunks lie between them
(`Carries`). And it follows the result: `ExecInv` says what exists at each await
of `execute_command`, `HandlerInv` how far the handler can be, `ExitInv` that
the Exit is the last event and stays in sight until it is on the wire.
`ChannelInv` speaks of a connection that is up: once it is not, chunks are lost
and nothing is claimed but that no report follows. `BackPressure` counts: a
queue that `Carries` the chunks from `a` to `b` is at least `b - a` long.

`InputInv` follows stdin the other way. `Fetched`, `Handed` and `Read` are what
has left the task of `stream_stdin`, the channel and the socket; while chunks
can still reach a command (`Flowing`), each of these queues holds exactly what
lies between two of them. A broken connection may lose the last of what the
handler has not read, so the socket then only `Begins` to hold it, unless the
frame that ends stdin is still in it; with `EndLast` and the last part of
`FlowInv` this says that when the handler has dropped `stdin_tx` for an end of
stdin, there was no more. Chunks flow while the command runs and has not closed
its stdin; once it has, the task of `stream_stdin` may end with chunks queued,
and `EndInv` claims nothing.

### Client session and end to end

`IInv` of `ClientSession` accounts for stdin as `Taken` from the channel and
`Queued` into it, and for output as `Seen`. The frame that ends stdin is the
last on the channel, put there by a task that is gone. `OutputInv` says of the
socket what `FlowInv` says of the server's: all that was produced and not seen,
or the first part of it after a reset.

The composition needs what neither end knows alone: `FirstInv` (the first
message the server reads is the Exec, and when it comes to a Close it has
stopped reading, since a client closes only after a Cancel), `SaidInv` (a
StdinEof is the last of what the client has forwarded, and all that its task
has read), `OutputInv` and `CodeInv` (what is between the two ends). With these
every step of `SystemNext` is a step of `ServerSession` and of `ClientSession`
or a stutter. So the stand-in each end was checked against is general enough for
the real other end, and what is proved of `ServerSession` holds of the system:
`SysInv` contains the server's invariant, and `StdinReachesCommand` uses
`EofComesLast`. `ClientInv` is proved directly. All of it holds for every
command and every capacity, in particular for output and input on several
chunks and on both streams, which the run `exec_system` leaves to other runs.

### Daemon

Assumed: daemons and forwards are servers, and "no server" and "empty file"
are none. The port is a lock: of all servers at most one is between `bind` and
its end (`ProcInv`), so one writes the pid file at a time, which is what
`PidFileInv` says of each of the steps of writing it. It does not cover the
removal, and that is the finding `daemon_pid_file`. `ReadyInv` says what a
readiness file can say at each place of its server, and the launcher's and
`stop`'s reports follow from what they have read and from the process being
reaped. An error of the launcher's own is a third outcome, of which the
invariant says nothing.

### Startup

Assumed: options and environments have values for the names they are asked
for, what stands for a path is a path (`ValueAssumption`), and HOME is not `~`
itself, which each process in turn would expand again (`HomeAssumption`). `HandOver` is the lemma the rest hangs on: what
`start_daemon` puts into the environment of the child resolves, without a flag,
to what the launcher resolved, because every option is set or removed there,
because `~` is expanded before and expanding again does nothing, and because
the allow list, joined and split at commas, is the list it was. `PidFileInv`
keeps that pid file in sight of a `hostcmd stop` run by a command of that
server.

### Protocol

Assumed: a base of at least 5, so that tags are bytes, an integer of at least
one byte, and a chunk that fits a length. `Frames` and `Sendable` are what the
encoders accept: lengths and counts that fit the width, and output no larger
than the buffer. The proofs compose codecs. `Codec` states that what was put in
front of a rest is taken from it and leaves that rest, and that whatever is
taken from any bytes was put there so; it is shown for integers (`NumberOfInt`
and `PutNumber`, two's complement included), byte strings and text, then for
lists of any length (`ManyTaken`, `ManyPut`), then for each frame. `DecodeIs` turns it round: of all byte strings exactly the encoding of
`f` decodes to `f`. From it `NoPrefixDecodes` follows for all frames at once.

What recursive functions such as `TakeStrings` compute is proved by induction
in first-order form: a set of natural numbers that is not empty has a least
element (`LeastNat`, from the well-foundedness of `<`), so a set that contains 0
and the successor of each member contains all (`Induction`); and such a function
is unfolded after its existence has been shown, from finite runs of it that are
extended turn by turn (`Recursion`).

### Only model-checked

Liveness needs ENABLED and is beyond the prover: `CancelKillsCommand`,
`SessionEnds` and `CancelHonoured` of the server session, `EndsAfterServer` of
the client, `LauncherReturns` and `ForwardEndsServer` of the daemon. Every other property of a passing run is proved.

The invariants named in a cfg (`IInv` in `session_output`, `client_session`
and `daemon`, `InputInv` in `session_flow`) are checked by TLC too. `SysInv`,
`IInv` of `StartupProofs` and `MessageInv` stand in the modules of their proofs
and are in no run; the first two were found with TLC at the bounds of
`exec_system` and `startup`.


## Not modelled

* Several sessions of one server: they share the listener and the queue of
  `server_actor`, which only spawns; allowed commands and secret never change.
* The secret: a wrong one is refused before the upgrade, which is `WsHandler`.
* In `ExecSystem`, the bytes of frames; that they decode to what was sent is
  `RoundTrip`. A frame that does not decode is the frame "bad" of
  `ServerSession`.
* The syntax `clap` accepts, help texts, log lines and their format. Resolving
  the host name, the user name and the directory of a client is one call of the
  operating system each; that it may fail is part of `Connect`.
* Reuse of process ids, `hostcmd` on systems without process groups, ping and
  pong frames beyond "other".
* Removals of the readiness file and the pid file that fail: the code ignores
  that, and they are taken to succeed.
* The memory the decoder reserves for a count before it has read the items
  (`protocol.rs:156`, `168`): with a count far beyond what the message holds that
  allocation may abort the process, where the model refuses the frame.
* A helper that holds the stdin of its command, and descriptors closed by one
  process of the command while another keeps them: the pipes then stay open,
  as with a command that has not closed them.
* Commands that outlive a stopped server: `stop` signals the group of the
  server, and a command leads a group of its own.
* `axum::serve` returning: it does not on a listener that works.
* Build files, release tooling and the smoke tests, which are read as
  statements about the program.

`Startup` models, and no property speaks of, what a command that runs
`hostcmd server --daemon` gets: it inherits the readiness variable of its own
daemon, takes itself for the daemon child and serves in the foreground
(`server.rs:128`, last branch of `RunServer`).

## State of the work

All parts above are modelled, every safety property of the passing runs is
proved, and both directions of the composition are. What could be added:

1. The findings as theorems: that `ExitCodeKept` holds as long as the client
   sends no stdin after the server has closed, and that the pid file names the
   server that serves as long as no predecessor is about to remove it.
2. A second theorem for each liveness property: that the safety part of its
   argument, a measure that the tasks lower, is never raised by another step.
3. Several sessions of one server, if they come to share more than a listener.
