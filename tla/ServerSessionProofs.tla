------------------------ MODULE ServerSessionProofs ------------------------
(***************************************************************************)
(* Theorems about ServerSession, for every value of its constants: all     *)
(* capacities, all bounds, all sets of commands, messages and faults.      *)
(***************************************************************************)
EXTENDS ServerSessionInv, ChunkQueueLemmas

-----------------------------------------------------------------------------
(* What each task leaves alone.                                            *)

(* The client and the network move only the connection.                    *)
LEMMA ClientFrame ==
    ClientNext => UNCHANGED <<handlerVars, channelVars, taskVars, procVars,
                              wireVars>>
  BY DEF ClientNext, ClientSend, ClientRead, ConnBreaks, handlerVars,
         channelVars, taskVars, procVars, wireVars

(* A step of handle_ws leaves the tasks it does not spawn, and the         *)
(* command, alone.                                                         *)
LEMMA HandlerFrame ==
    HandlerNext => UNCHANGED <<said, fed, done, st, stHeld, rd, rdHeld,
                               procVars>>
  BY DEF HandlerNext, WsHandler, AwaitExec, AwaitExecFails, RecvEvent,
         EventsClosed, SendOutput, SendOutputLost, SendOutputFails, RecvFrame,
         RecvFails, SendStdin, SendStdinFails, AwaitDone, SendError, Close,
         connVars, channelVars, taskVars, procVars

(* A step of execute_command touches neither the socket nor the handler.   *)
LEMMA ExecFrame ==
    ExecNext => UNCHANGED <<connVars, handlerVars, cancelled, stHeld, rdHeld,
                            got, gotEof, closed, pipe, written, wireVars>>
  BY DEF ExecNext, StartCommand, SpawnFails, ChildExited, CancelReceived,
         WaitFails, SendTerm, ExitInGrace, GraceExpires, SendKill,
         ExitAfterKill, JoinStdout, JoinStderr, KillChild, ReapKilled,
         SendExit, ReportDone, Reap, ExecStep, Join, connVars, handlerVars,
         channelVars, taskVars, procVars, wireVars

(* A step of stream_stdin moves stdin chunks and nothing else.             *)
LEMMA StdinFrame ==
    StdinNext => UNCHANGED <<connVars, handlerVars, events, cancelled, done,
                             e, rd, rdHeld, leader, status, helper, signalled,
                             got, gotEof, closed, pipe, written, wireVars>>
  BY DEF StdinNext, StdinRecv, StdinWrite, StdinEnd, StdinWriteFails,
         StdinAborted, StdinGone, connVars, handlerVars, channelVars,
         procVars, wireVars

(* A step of stream_reader moves chunks of its stream from its pipe to the *)
(* channel of events, and nothing else.                                    *)
LEMMA ReaderFrame ==
    ASSUME NEW s \in Streams, ReaderNext(s)
    PROVE  UNCHANGED <<connVars, handlerVars, stdinCh, cancelled, done, e, st,
                       stHeld, leader, status, helper, signalled, inPipe, got,
                       gotEof, closed, written, wireVars>>
  BY DEF ReaderNext, ReaderReads, ReaderEof, ReadFails, ReaderSends,
         ReaderSendFails, ReaderEnds, connVars, handlerVars, channelVars,
         procVars, wireVars

(* The command sees its pipes and its processes only.                      *)
LEMMA CommandFrame ==
    CommandNext => UNCHANGED <<connVars, handlerVars, channelVars, taskVars,
                               signalled, wireVars>>
  BY DEF CommandNext, CmdReads, CmdSeesEof, CmdForks, HelperExits, CmdWrites,
         CmdCloses, CmdExits, connVars, handlerVars, channelVars, taskVars,
         wireVars

-----------------------------------------------------------------------------
(* The kind of a client message tells what else it carries.                *)

(* A client message of kind stdin carries a chunk the client may send.     *)
LEMMA StdinMessage ==
    ASSUME NEW m \in ClientMessages, m.kind = "stdin"
    PROVE  m \in StdinFrames /\ m.n \in 1..MaxIn
  BY DEF ClientMessages, StdinFrames, Stdin, Exec, Control

(* A client message of kind exec carries a command a client may ask for.   *)
LEMMA ExecMessage ==
    ASSUME NEW m \in ClientMessages, m.kind = "exec"
    PROVE  m.command \in Programs \cup {NoProgram}
  BY DEF ClientMessages, StdinFrames, Stdin, Exec, Control

-----------------------------------------------------------------------------
(* The socket stays well typed and within its capacity.                    *)
LEMMA ConnTypeStep == ASSUME IInv, [Next]_vars PROVE ConnType'
  <1> USE CapacityAssumption DEF IInv, TypeOK, ConnType
  <1>1. CASE ClientNext
    <2>1. ASSUME NEW m \in ClientMessages, ClientSend(m) PROVE ConnType'
      <3>1. fed' \in 0..MaxIn
        BY <2>1, StdinMessage, BoundAssumption DEF ClientSend
      <3>2. said' \subseteq ClientMessages BY <2>1 DEF ClientSend
      <3> QED BY <2>1, <3>1, <3>2 DEF ClientSend
    <2>2. CASE ClientRead BY <2>2 DEF ClientRead
    <2>3. CASE ConnBreaks
      <3>1. inbox' \in Seq(ClientMessages) /\ Len(inbox') <= NetCapacity
        <4>1. inbox' \in Prefixes(inbox) BY <2>3 DEF ConnBreaks
        <4>2. /\ inbox' \in Seq(ClientMessages) /\ Len(inbox') <= Len(inbox)
              /\ Len(inbox') \in Nat /\ Len(inbox) \in Nat
          BY <4>1, PrefixElements
        <4> QED BY <4>2
      <3>2. outbox' \in Seq(ServerFrames) /\ Len(outbox') <= NetCapacity
        <4>1. outbox' \in Prefixes(outbox) BY <2>3 DEF ConnBreaks
        <4>2. /\ outbox' \in Seq(ServerFrames) /\ Len(outbox') <= Len(outbox)
              /\ Len(outbox') \in Nat /\ Len(outbox) \in Nat
          BY <4>1, PrefixElements
        <4> QED BY <4>2
      <3> QED BY <2>3, <3>1, <3>2 DEF ConnBreaks
    <2> QED BY <1>1, <2>1, <2>2, <2>3 DEF ClientNext
  <1>2. CASE HandlerNext
    <2>1. CASE AwaitExec BY <2>1 DEF AwaitExec
    <2>2. CASE SendOutput BY <2>2 DEF SendOutput, HoldInv, ServerFrames
    <2>3. CASE RecvFrame BY <2>3 DEF RecvFrame
    <2>4. CASE SendError BY <2>4 DEF SendError, ServerFrames
    <2>5. CASE Close
      <3>1. Control("close") \in ServerFrames BY DEF ServerFrames
      <3> DEFINE m == Control("close")
      <3>2. m \in ServerFrames BY <3>1
      <3> HIDE DEF m
      <3>3. conn = "up" =>
              Len(outbox) < NetCapacity /\ outbox' = Append(outbox, m)
        BY <2>5 DEF Close, m
      <3>4. conn # "up" => outbox' = outbox BY <2>5 DEF Close
      <3>5. outbox' \in Seq(ServerFrames) /\ Len(outbox') <= NetCapacity
        <4>1. CASE conn = "up"
          BY <3>2, <3>3, <4>1, AppendProperties
        <4>2. CASE conn # "up" BY <3>4, <4>2
        <4> QED BY <4>1, <4>2
      <3> QED BY <2>5, <3>5 DEF Close
    <2>6. CASE UNCHANGED connVars BY <2>6 DEF connVars
    <2> QED BY <1>2, <2>1, <2>2, <2>3, <2>4, <2>5, <2>6
        DEF HandlerNext, WsHandler, AwaitExecFails, RecvEvent, EventsClosed,
            SendOutputLost, SendOutputFails, RecvFails, SendStdin,
            SendStdinFails, AwaitDone
  <1>3. CASE UNCHANGED connVars BY <1>3 DEF connVars
  <1> QED BY <1>1, <1>2, <1>3, ExecFrame, StdinFrame, ReaderFrame,
             CommandFrame DEF Next, Over, vars

(* The variables of handle_ws stay well typed.                             *)
LEMMA HandlerTypeStep == ASSUME IInv, [Next]_vars PROVE HandlerType'
  <1> USE DEF IInv, TypeOK, HandlerType
  <1>1. CASE HandlerNext
    <2>1. CASE AwaitExec
      <3> Head(inbox) \in ClientMessages BY <2>1 DEF AwaitExec, ConnType
      <3> QED BY <2>1, ExecMessage DEF AwaitExec
    <2>2. CASE RecvEvent BY <2>2 DEF RecvEvent, ChannelType
    <2>3. CASE RecvFrame
      <3> Head(inbox) \in ClientMessages BY <2>3 DEF RecvFrame, ConnType
      <3> QED BY <2>3, StdinMessage DEF RecvFrame
    <2>4. CASE ~(AwaitExec \/ RecvEvent \/ RecvFrame)
      BY <1>1, <2>4 DEF HandlerNext, WsHandler, AwaitExecFails, EventsClosed,
         SendOutput, SendOutputLost, SendOutputFails, RecvFails, SendStdin,
         SendStdinFails, AwaitDone, SendError, Close, connVars
    <2> QED BY <2>1, <2>2, <2>3, <2>4
  <1>2. CASE UNCHANGED handlerVars BY <1>2 DEF handlerVars
  <1> QED BY <1>1, <1>2, ClientFrame, ExecFrame, StdinFrame, ReaderFrame,
             CommandFrame DEF Next, Over, vars

(* The channels stay well typed, and senders wait while one is full.       *)
LEMMA ChannelTypeStep == ASSUME IInv, [Next]_vars PROVE ChannelType'
  <1> USE CapacityAssumption DEF IInv, TypeOK, ChannelType
  <1>1. CASE HandlerNext
    <2>1. CASE SendStdin
      BY <2>1 DEF SendStdin, HoldInv, StdinFrames, Stdin
    <2>2. CASE RecvEvent BY <2>2 DEF RecvEvent
    <2>3. CASE SendOutputFails BY <2>3 DEF SendOutputFails
    <2>4. CASE RecvFrame \/ RecvFails BY <2>4 DEF RecvFrame, RecvFails
    <2>5. CASE UNCHANGED channelVars BY <2>5 DEF channelVars
    <2> QED BY <1>1, <2>1, <2>2, <2>3, <2>4, <2>5
        DEF HandlerNext, WsHandler, AwaitExec, AwaitExecFails, EventsClosed,
            SendOutput, SendOutputLost, SendStdinFails, AwaitDone, SendError,
            Close
  <1>2. CASE ExecNext
    <2>1. CASE SendExit
      <3>1. e = "send_exit" BY <2>1 DEF SendExit
      <3>2. status \in Statuses BY <3>1 DEF ExecInv
      <3>3. Exit(ExitCode(status)) \in ExecEvents
        BY <3>2 DEF ExecEvents, ExitFrames
      <3> QED BY <2>1, <3>3 DEF SendExit
    <2>2. CASE SpawnFails BY <2>2 DEF SpawnFails
    <2>3. CASE ReportDone BY <2>3 DEF ReportDone
    <2>4. CASE UNCHANGED channelVars BY <2>4 DEF channelVars
    <2> QED BY <1>2, <2>1, <2>2, <2>3, <2>4
        DEF ExecNext, StartCommand, ChildExited, CancelReceived, WaitFails,
            SendTerm, ExitInGrace, GraceExpires, SendKill, ExitAfterKill,
            JoinStdout, JoinStderr, KillChild, ReapKilled, Reap, ExecStep, Join
  <1>3. CASE StdinNext
    <2>1. CASE StdinRecv BY <2>1 DEF StdinRecv
    <2>2. CASE StdinGone BY <2>2 DEF StdinGone
    <2>3. CASE StdinWrite BY <2>3 DEF StdinWrite, channelVars
    <2> QED BY <1>3, <2>1, <2>2, <2>3
        DEF StdinNext, StdinEnd, StdinWriteFails, StdinAborted
  <1>4. ASSUME NEW s \in Streams, ReaderNext(s) PROVE ChannelType'
    <2>1. CASE ReaderSends(s)
      <3>1. Output(s, rdHeld[s]) \in ExecEvents
        BY <2>1 DEF ReaderSends, HoldInv, ExecEvents, OutputFrames
      <3> QED BY <2>1, <3>1 DEF ReaderSends
    <2>2. CASE UNCHANGED channelVars BY <2>2 DEF channelVars
    <2> QED BY <1>4, <2>1, <2>2
        DEF ReaderNext, ReaderReads, ReaderEof, ReadFails, ReaderSendFails,
            ReaderEnds
  <1>5. CASE UNCHANGED channelVars BY <1>5 DEF channelVars
  <1> QED BY <1>1, <1>2, <1>3, <1>4, <1>5, ClientFrame, CommandFrame
          DEF Next, Over, vars

(* The awaits of the tasks, and what they hold, stay well typed.           *)
LEMMA TaskTypeStep == ASSUME IInv, [Next]_vars PROVE TaskType'
  <1> USE BoundAssumption DEF IInv, TypeOK, TaskType
  <1>1. CASE HandlerNext
    <2>1. CASE AwaitExec BY <2>1 DEF AwaitExec
    <2>2. CASE UNCHANGED taskVars BY <2>2 DEF taskVars
    <2> QED BY <1>1, <2>1, <2>2
        DEF HandlerNext, WsHandler, AwaitExecFails, RecvEvent, EventsClosed,
            SendOutput, SendOutputLost, SendOutputFails, RecvFrame, RecvFails,
            SendStdin, SendStdinFails, AwaitDone, SendError, Close
  <1>2. CASE ExecNext
    BY <1>2 DEF ExecNext, StartCommand, SpawnFails, ChildExited,
       CancelReceived, WaitFails, SendTerm, ExitInGrace, GraceExpires,
       SendKill, ExitAfterKill, JoinStdout, JoinStderr, KillChild, ReapKilled,
       SendExit, ReportDone, Reap, ExecStep, Join
  <1>3. CASE StdinNext
    BY <1>3 DEF StdinNext, StdinRecv, StdinWrite, StdinEnd, StdinWriteFails,
       StdinAborted, StdinGone, ChannelType
  <1>4. ASSUME NEW s \in Streams, ReaderNext(s) PROVE TaskType'
    <2>1. CASE ReaderReads(s)
      <3>1. Head(pipe[s]) \in 0..MaxOut BY <2>1 DEF ReaderReads, ProcType
      <3> QED BY <2>1, <3>1 DEF ReaderReads
    <2>2. CASE ReaderSends(s) BY <2>2 DEF ReaderSends
    <2>3. ASSUME NEW how \in {"eof", "failed"}, ReaderEnds(s, how)
          PROVE  TaskType'
      BY <2>3 DEF ReaderEnds
    <2> QED BY <1>4, <2>1, <2>2, <2>3
        DEF ReaderNext, ReaderEof, ReadFails, ReaderSendFails
  <1>5. CASE UNCHANGED taskVars BY <1>5 DEF taskVars
  <1> QED BY <1>1, <1>2, <1>3, <1>4, <1>5, ClientFrame, CommandFrame
          DEF Next, Over, vars

(* The command and its pipes stay well typed and within their capacity.    *)
LEMMA ProcTypeStep == ASSUME IInv, [Next]_vars PROVE ProcType'
  <1> USE BoundAssumption, CapacityAssumption DEF IInv, TypeOK, ProcType
  <1>1. CASE ExecNext
    <2>1. CASE StartCommand BY <2>1 DEF StartCommand
    <2>2. ASSUME NEW from, Reap(from) PROVE ProcType' BY <2>2 DEF Reap
    <2>3. CASE SendTerm BY <2>3 DEF SendTerm
    <2>4. ASSUME KillLeader
          PROVE  /\ leader' \in {"none", "run", "zombie", "reaped"}
                 /\ status' \in Statuses \cup {NoStatus}
                 /\ inPipe' \in Seq(1..MaxIn)
      <3>1. CASE leader = "run" BY <2>4, <3>1 DEF KillLeader, Statuses
      <3>2. CASE leader # "run" BY <2>4, <3>2 DEF KillLeader
      <3> QED BY <3>1, <3>2
    <2>5. CASE SendKill BY <2>4, <2>5 DEF SendKill
    <2>6. CASE KillChild
      <3>1. status' \in Statuses \cup {NoStatus} /\ inPipe' \in Seq(1..MaxIn)
        <4>1. CASE leader = "reaped" BY <2>6, <4>1 DEF KillChild
        <4>2. CASE leader # "reaped" BY <2>6, <2>4, <4>2 DEF KillChild
        <4> QED BY <4>1, <4>2
      <3>2. leader' \in {"none", "run", "zombie", "reaped"}
        BY <2>6, <2>4 DEF KillChild
      <3> QED BY <2>6, <3>1, <3>2 DEF KillChild
    <2>7. CASE ReapKilled BY <2>7 DEF ReapKilled
    <2>8. CASE UNCHANGED procVars BY <2>8 DEF procVars
    <2> QED BY <1>1, <2>1, <2>2, <2>3, <2>5, <2>6, <2>7, <2>8
        DEF ExecNext, SpawnFails, ChildExited, CancelReceived, WaitFails,
            ExitInGrace, GraceExpires, ExitAfterKill, JoinStdout, JoinStderr,
            SendExit, ReportDone, ExecStep, Join
  <1>2. CASE StdinNext
    <2>1. CASE StdinWrite BY <2>1 DEF StdinWrite, HoldInv
    <2>2. CASE UNCHANGED procVars BY <2>2 DEF procVars
    <2> QED BY <1>2, <2>1, <2>2
        DEF StdinNext, StdinRecv, StdinEnd, StdinWriteFails, StdinAborted,
            StdinGone
  <1>3. ASSUME NEW s \in Streams, ReaderNext(s) PROVE ProcType'
    <2>1. CASE ReaderReads(s) BY <2>1 DEF ReaderReads
    <2>2. CASE ReaderSends(s) BY <2>2 DEF ReaderSends, procVars
    <2>3. ASSUME NEW how, ReaderEnds(s, how) PROVE ProcType'
      BY <2>3 DEF ReaderEnds
    <2> QED BY <1>3, <2>1, <2>2, <2>3
        DEF ReaderNext, ReaderEof, ReadFails, ReaderSendFails
  <1>4. CASE CommandNext
    <2>1. ASSUME NEW s \in Streams, CmdWrites(s) PROVE ProcType'
      BY <2>1 DEF CmdWrites
    <2>2. CASE CmdReads BY <2>2 DEF CmdReads
    <2>3. CASE CmdSeesEof \/ CmdForks \/ HelperExits
      BY <2>3 DEF CmdSeesEof, CmdForks, HelperExits
    <2>4. ASSUME NEW c \in Statuses, CmdExits(c) PROVE ProcType'
      BY <2>4 DEF CmdExits
    <2>5. ASSUME NEW d \in Closable, CmdCloses(d) PROVE ProcType'
      <3>1. inPipe' \in Seq(1..MaxIn)
        <4>1. CASE inPipe' = <<>> BY <4>1, EmptySeq
        <4>2. CASE inPipe' = inPipe BY <4>2
        <4> QED BY <2>5, <4>1, <4>2 DEF CmdCloses
      <3>2. closed' \subseteq Closable BY <2>5 DEF CmdCloses
      <3> QED BY <2>5, <3>1, <3>2 DEF CmdCloses
    <2> QED BY <1>4, <2>1, <2>2, <2>3, <2>4, <2>5 DEF CommandNext
  <1>5. CASE UNCHANGED procVars BY <1>5 DEF procVars
  <1> QED BY <1>1, <1>2, <1>3, <1>4, <1>5, ClientFrame, HandlerFrame
          DEF Next, Over, vars

(* What was put on the wire stays well typed.                              *)
LEMMA WireTypeStep == ASSUME IInv, [Next]_vars PROVE WireType'
  <1> USE DEF IInv, TypeOK, WireType
  <1>1. CASE HandlerNext
    <2>1. CASE SendOutput
      <3>1. held \in OutputFrames \cup ExitFrames
        BY <2>1 DEF SendOutput, HoldInv, ExecEvents
      <3>2. held \in OutputFrames => held.stream \in Streams
                                     /\ held.n \in 0..MaxOut
        BY BoundAssumption DEF OutputFrames, Output
      <3>3. held \in ExitFrames => held.kind # "output"
        BY DEF ExitFrames, Exit
      <3> QED BY <2>1, <3>1, <3>2, <3>3 DEF SendOutput, OutputFrames, Output
    <2>2. CASE SendError BY <2>2 DEF SendError
    <2>3. CASE UNCHANGED wireVars BY <2>3 DEF wireVars
    <2> QED BY <1>1, <2>1, <2>2, <2>3
        DEF HandlerNext, WsHandler, AwaitExec, AwaitExecFails, RecvEvent,
            EventsClosed, SendOutputLost, SendOutputFails, RecvFrame,
            RecvFails, SendStdin, SendStdinFails, AwaitDone, Close
  <1>2. CASE UNCHANGED wireVars BY <1>2 DEF wireVars
  <1> QED BY <1>1, <1>2, ClientFrame, ExecFrame, StdinFrame, ReaderFrame,
             CommandFrame DEF Next, Over, vars

-----------------------------------------------------------------------------
(* A task at a sending await holds what it is to send.                     *)
LEMMA HoldInvStep == ASSUME IInv, [Next]_vars PROVE HoldInv'
  <1> USE DEF IInv, TypeOK, HoldInv
  <1>1. CASE HandlerNext
    <2>1. CASE RecvEvent
      <3>1. Head(events) \in ExecEvents BY <2>1 DEF RecvEvent, ChannelType
      <3> QED BY <2>1, <3>1 DEF RecvEvent, taskVars
    <2>2. CASE RecvFrame
      <3>1. Head(inbox) \in ClientMessages BY <2>2 DEF RecvFrame, ConnType
      <3> QED BY <2>2, <3>1, StdinMessage DEF RecvFrame, taskVars
    <2>3. CASE ~(RecvEvent \/ RecvFrame)
      BY <1>1, <2>3 DEF HandlerNext, WsHandler, AwaitExec, AwaitExecFails,
         EventsClosed, SendOutput, SendOutputLost, SendOutputFails, RecvFails,
         SendStdin, SendStdinFails, AwaitDone, SendError, Close, taskVars
    <2> QED BY <2>1, <2>2, <2>3
  <1>2. CASE ExecNext
    <2>1. CASE StartCommand BY <2>1 DEF StartCommand, handlerVars
    <2>2. CASE UNCHANGED <<handlerVars, st, stHeld, rd, rdHeld>>
      BY <2>2 DEF handlerVars
    <2> QED BY <1>2, <2>1, <2>2
        DEF ExecNext, SpawnFails, ChildExited, CancelReceived, WaitFails,
            SendTerm, ExitInGrace, GraceExpires, SendKill, ExitAfterKill,
            JoinStdout, JoinStderr, KillChild, ReapKilled, SendExit,
            ReportDone, Reap, ExecStep, Join
  <1>3. CASE StdinNext
    <2>1. CASE StdinRecv
      <3>1. Head(stdinCh) \in 1..MaxIn
        BY <2>1, BoundAssumption DEF StdinRecv, ChannelType
      <3> QED BY <2>1, <3>1 DEF StdinRecv, handlerVars
    <2>2. CASE StdinWrite BY <2>2 DEF StdinWrite, handlerVars
    <2>3. CASE StdinGone BY <2>3 DEF StdinGone, handlerVars
    <2> QED BY <1>3, <2>1, <2>2, <2>3
        DEF StdinNext, StdinEnd, StdinWriteFails, StdinAborted
  <1>4. ASSUME NEW s \in Streams, ReaderNext(s) PROVE HoldInv'
    <2>1. CASE ReaderReads(s)
      <3>1. pipe[s] \in Seq(1..MaxOut) BY DEF ProcType
      <3>2. Head(pipe[s]) \in 1..MaxOut
        BY <2>1, <3>1, BoundAssumption DEF ReaderReads
      <3> QED BY <2>1, <3>2 DEF ReaderReads, TaskType, handlerVars
    <2>2. CASE ReaderSends(s) BY <2>2 DEF ReaderSends, TaskType, handlerVars
    <2>3. ASSUME NEW how \in {"eof", "failed"}, ReaderEnds(s, how)
          PROVE  HoldInv'
      BY <2>3 DEF ReaderEnds, TaskType, handlerVars
    <2> QED BY <1>4, <2>1, <2>2, <2>3
        DEF ReaderNext, ReaderEof, ReadFails, ReaderSendFails
  <1>5. CASE UNCHANGED <<handlerVars, taskVars>>
    BY <1>5 DEF handlerVars, taskVars
  <1> QED BY <1>1, <1>2, <1>3, <1>4, <1>5, ClientFrame, CommandFrame
          DEF Next, Over, vars

(* What exists at each await of execute_command survives every step.       *)
LEMMA ExecInvStep == ASSUME IInv, [Next]_vars PROVE ExecInv'
  <1> USE DEF IInv, TypeOK, ExecInv, Waiting, Succeeded, Streams
  <1>1. CASE HandlerNext
    <2>1. CASE AwaitExec
      BY <2>1 DEF AwaitExec, HandlerInv, channelVars, procVars
    <2>2. CASE UNCHANGED <<e, done, rd, procVars>> BY <2>2 DEF procVars
    <2> QED BY <1>1, <2>1, <2>2, HandlerFrame
        DEF HandlerNext, WsHandler, AwaitExecFails, RecvEvent, EventsClosed,
            SendOutput, SendOutputLost, SendOutputFails, RecvFrame, RecvFails,
            SendStdin, SendStdinFails, AwaitDone, SendError, Close, taskVars
  <1>2. CASE ExecNext
    <2> USE DEF channelVars, procVars
    <2>1. CASE StartCommand BY <2>1 DEF StartCommand
    <2>2. CASE SpawnFails BY <2>2 DEF SpawnFails
    <2>3. ASSUME NEW from \in {"wait", "grace", "kill_wait"}, Reap(from)
          PROVE  ExecInv'
      BY <2>3 DEF Reap
    <2>4. CASE CancelReceived \/ WaitFails \/ GraceExpires
      BY <2>4 DEF CancelReceived, WaitFails, GraceExpires, ExecStep
    <2>5. CASE SendTerm BY <2>5 DEF SendTerm
    <2>6. CASE SendKill BY <2>6 DEF SendKill, KillLeader, Statuses
    <2>7. CASE JoinStdout BY <2>7 DEF JoinStdout, Join, ExecStep
    <2>8. CASE JoinStderr BY <2>8 DEF JoinStderr, Join, ExecStep
    <2>9. CASE KillChild
      <3>1. leader \in {"run", "zombie", "reaped"}
        BY <2>9 DEF KillChild, ProcType
      <3>2. CASE leader = "run"
        BY <2>9, <3>2 DEF KillChild, KillLeader, Statuses
      <3>3. CASE leader = "zombie" BY <2>9, <3>3 DEF KillChild, KillLeader
      <3>4. CASE leader = "reaped" BY <2>9, <3>4 DEF KillChild
      <3> QED BY <3>1, <3>2, <3>3, <3>4
    <2>12. CASE ReapKilled BY <2>12 DEF ReapKilled
    <2>10. CASE SendExit BY <2>10 DEF SendExit
    <2>11. CASE ReportDone BY <2>11 DEF ReportDone
    <2> QED BY <1>2, <2>1, <2>2, <2>3, <2>4, <2>5, <2>6, <2>7, <2>8, <2>9,
               <2>10, <2>11, <2>12 DEF ExecNext, ChildExited, ExitInGrace,
               ExitAfterKill
  <1>3. ASSUME NEW s \in Streams, ReaderNext(s) PROVE ExecInv'
    <2>1. ASSUME NEW t \in Streams, rd[t] \in {"none", "eof"}
          PROVE  rd'[t] = rd[t]
      BY <1>3, <2>1 DEF ReaderNext, ReaderReads, ReaderEof, ReadFails,
         ReaderSends, ReaderSendFails, ReaderEnds, TaskType
    <2> QED BY <1>3, <2>1, ReaderFrame
  <1>4. CASE CommandNext
    <2>1. CASE CmdForks BY <2>1 DEF CmdForks, channelVars, taskVars
    <2>2. CASE HelperExits BY <2>2 DEF HelperExits, channelVars, taskVars
    <2>3. ASSUME NEW c \in Statuses, CmdExits(c) PROVE ExecInv'
      BY <2>3 DEF CmdExits, channelVars, taskVars
    <2>4. CASE UNCHANGED <<channelVars, taskVars, leader, status, helper>>
      BY <2>4 DEF channelVars, taskVars
    <2> QED BY <1>4, <2>1, <2>2, <2>3, <2>4
        DEF CommandNext, CmdReads, CmdSeesEof, CmdWrites, CmdCloses
  <1>5. CASE UNCHANGED <<e, done, rd, leader, status, helper>> BY <1>5
  <1> QED BY <1>1, <1>2, <1>3, <1>4, <1>5, ClientFrame, StdinFrame
          DEF Next, Over, vars, channelVars, taskVars, procVars

(* How far handle_ws is agrees with how far the execution is, after every  *)
(* step.                                                                   *)
LEMMA HandlerInvStep == ASSUME IInv, [Next]_vars PROVE HandlerInv'
  <1> USE DEF IInv, TypeOK, HandlerInv, Succeeded, EventsOpen, ExecReturned
  <1>1. CASE HandlerNext
    <2> UNCHANGED <<done, rd>> BY <1>1, HandlerFrame
    <2> USE DEF taskVars, channelVars, wireVars
    <2>1. CASE WsHandler BY <2>1 DEF WsHandler
    <2>2. CASE AwaitExec BY <2>2 DEF AwaitExec, ExecInv
    <2>3. CASE AwaitExecFails BY <2>3 DEF AwaitExecFails
    <2>4. CASE RecvEvent BY <2>4 DEF RecvEvent
    <2>5. CASE EventsClosed BY <2>5 DEF EventsClosed
    <2>6. CASE SendOutput
      BY <2>6 DEF SendOutput, HoldInv, ExecEvents, OutputFrames, ExitFrames,
         Output, Exit, Error
    <2>7. CASE SendOutputLost BY <2>7 DEF SendOutputLost
    <2>8. CASE SendOutputFails BY <2>8 DEF SendOutputFails
    <2>9. CASE RecvFrame BY <2>9 DEF RecvFrame
    <2>10. CASE RecvFails BY <2>10 DEF RecvFails
    <2>11. CASE SendStdin BY <2>11 DEF SendStdin
    <2>12. CASE SendStdinFails BY <2>12 DEF SendStdinFails
    <2>13. CASE AwaitDone 
      <3>1. done = "err" => final.kind # "exit" /\ final # Error
        BY <2>13 DEF AwaitDone, ExecInv, ExitInv
      <3>2. done = "err" => final = NoFrame
        BY <3>1 DEF WireType, ExitFrames, Exit
      <3> QED BY <2>13, <3>2 DEF AwaitDone, ExecInv, ChannelType
    <2>14. CASE SendError BY <2>14 DEF SendError
    <2>15. CASE Close BY <2>15 DEF Close
    <2> QED BY <1>1, <2>1, <2>2, <2>3, <2>4, <2>5, <2>6, <2>7, <2>8, <2>9,
               <2>10, <2>11, <2>12, <2>13, <2>14, <2>15 DEF HandlerNext
  <1>2. CASE ExecNext
    <2>1. UNCHANGED <<h, final, cancelled>>
      BY <1>2, ExecFrame DEF handlerVars, wireVars
    <2>2. /\ e \notin {"none", "finished"} /\ e' # "none"
          /\ e = "queued" \/ rd' = rd
          /\ e = "send_exit" \/ events' = events
          /\ e = "ret_ok" \/ UNCHANGED done \/ done' = "err"
          /\ ExecReturned => e' = "finished"
      BY <1>2 DEF ExecNext, StartCommand, SpawnFails, ChildExited,
         CancelReceived, WaitFails, SendTerm, ExitInGrace, GraceExpires,
         SendKill, ExitAfterKill, JoinStdout, JoinStderr, KillChild,
         ReapKilled, SendExit, ReportDone, Reap, ExecStep, Join, channelVars
    <2> QED BY <2>1, <2>2 DEF HandlerType
  <1>3. ASSUME NEW s \in Streams, ReaderNext(s) PROVE HandlerInv'
    <2>1. e # "none" /\ rd[s] \in {"read", "send"}
      BY <1>3 DEF ReaderNext, ReaderReads, ReaderEof, ReadFails, ReaderSends,
         ReaderSendFails, ExecInv
    <2>2. h \in {"loop", "send_output", "send_stdin", "done"}
      BY <2>1 DEF HandlerType
    <2> QED BY <1>3, <2>1, <2>2, ReaderFrame DEF handlerVars, wireVars
  <1>4. CASE UNCHANGED <<h, e, done, rd, events, cancelled, final>> BY <1>4
  <1> QED BY <1>1, <1>2, <1>3, <1>4, ClientFrame, StdinFrame, CommandFrame
          DEF Next, Over, vars, handlerVars, channelVars, taskVars, wireVars

-----------------------------------------------------------------------------
(* No step loses, repeats or reorders a chunk between the command and its  *)
(* reader.                                                                 *)
LEMMA PipeInvStep == ASSUME IInv, [Next]_vars PROVE PipeInv'
  <1> USE DEF IInv, TypeOK, PipeInv, Writers, Running
  <1>1. CASE ExecNext
    <2> UNCHANGED <<rdHeld, pipe, written>> BY <1>1, ExecFrame
    <2>1. CASE StartCommand BY <2>1 DEF StartCommand, ExecInv
    <2>2. CASE ~StartCommand
      <3>1. rd' = rd /\ (Running' => Running) /\ closed' = closed
        BY <1>1, <2>2
        DEF ExecNext, SpawnFails, ChildExited, CancelReceived, WaitFails,
            SendTerm, ExitInGrace, GraceExpires, SendKill, ExitAfterKill,
            JoinStdout, JoinStderr, KillChild, ReapKilled, SendExit,
            ReportDone, Reap, ExecStep, Join, KillLeader, procVars
      <3> QED BY <3>1
    <2> QED BY <2>1, <2>2
  <1>2. ASSUME NEW s \in Streams, ReaderNext(s) PROVE PipeInv'
    <2> UNCHANGED <<written, leader, helper, closed>> BY <1>2, ReaderFrame
    <2> pipe[s] \in Seq(1..MaxOut) BY DEF ProcType
    <2> rdHeld[s] \in Nat /\ written[s] \in Nat
      BY BoundAssumption DEF TaskType, ProcType
    <2>1. CASE ReaderReads(s)
      <3>1. pipe[s] # <<>> /\ Consecutive(pipe[s], rdHeld[s])
        BY <2>1 DEF ReaderReads
      <3>2. /\ Len(Tail(pipe[s])) = Len(pipe[s]) - 1
            /\ Consecutive(Tail(pipe[s]), rdHeld[s] + 1)
        BY <3>1, TailConsecutive
      <3>3. Head(pipe[s]) = rdHeld[s] + 1
        BY <3>1 DEF Consecutive
      <3>4. rd[s] = "read" /\ rdHeld[s] + Len(pipe[s]) = written[s]
        BY <2>1 DEF ReaderReads
      <3>5. /\ rdHeld' = [rdHeld EXCEPT ![s] = rdHeld[s] + 1]
            /\ pipe' = [pipe EXCEPT ![s] = Tail(pipe[s])]
            /\ rd' = [rd EXCEPT ![s] = "send"]
        BY <2>1, <3>3 DEF ReaderReads
      <3>6. rdHeld'[s] = rdHeld[s] + 1 /\ pipe'[s] = Tail(pipe[s])
            /\ rd'[s] = "send"
        BY <3>5 DEF TaskType, ProcType
      <3>7. /\ rdHeld'[s] + Len(pipe'[s]) = written[s]
            /\ rdHeld'[s] <= written[s]
        <4>1. Len(pipe[s]) \in Nat \ {0} BY <3>1, LenProperties
        <4>2. rdHeld[s] + 1 <= written[s]
              /\ (rdHeld[s] + 1) + (Len(pipe[s]) - 1) = written[s]
          BY <3>4, <4>1
        <4> QED BY ONLY <3>2, <3>6, <4>2
      <3>8. \A t \in Streams \ {s} :
              rdHeld'[t] = rdHeld[t] /\ pipe'[t] = pipe[t] /\ rd'[t] = rd[t]
        BY <3>5 DEF TaskType, ProcType
      <3> QED BY <3>2, <3>6, <3>7, <3>8
    <2>2. CASE ReaderSends(s)
      BY <2>2 DEF ReaderSends, TaskType, procVars
    <2>3. CASE ReaderEof(s)
      BY <2>3 DEF ReaderEof, ReaderEnds, TaskType, ProcType
    <2>4. ASSUME ReaderEnds(s, "failed") PROVE PipeInv'
      BY <2>4 DEF ReaderEnds, TaskType, ProcType, Consecutive
    <2> QED BY <1>2, <2>1, <2>2, <2>3, <2>4
        DEF ReaderNext, ReadFails, ReaderSendFails
  <1>3. CASE CommandNext
    <2>1. ASSUME NEW s \in Streams, CmdWrites(s) PROVE PipeInv'
      <3> DEFINE n == written[s] + 1
      <3>1. /\ pipe[s] \in Seq(1..MaxOut) /\ rdHeld[s] \in Nat
            /\ n \in 1..MaxOut
        BY <2>1, BoundAssumption DEF CmdWrites, TaskType, ProcType
      <3>2. /\ rd[s] \in {"read", "send"} /\ Consecutive(pipe[s], rdHeld[s])
            /\ rdHeld[s] + Len(pipe[s]) = written[s]
        BY <2>1 DEF CmdWrites
      <3>3. n = rdHeld[s] + (Len(pipe[s]) + 1)
        <4>1. Len(pipe[s]) \in Nat BY <3>1, LenProperties
        <4> QED BY <3>1, <3>2, <4>1
      <3>4. /\ Len(Append(pipe[s], n)) = Len(pipe[s]) + 1
            /\ Consecutive(Append(pipe[s], n), rdHeld[s])
        BY <3>1, <3>2, <3>3, AppendConsecutive, Zenon
      <3>5. /\ written' = [written EXCEPT ![s] = n]
            /\ pipe' = [pipe EXCEPT ![s] = Append(pipe[s], n)]
        BY <2>1 DEF CmdWrites
      <3>6. written'[s] = n /\ pipe'[s] = Append(pipe[s], n)
        BY <3>5 DEF ProcType
      <3>7. /\ rdHeld[s] + Len(pipe'[s]) = written'[s]
            /\ rdHeld[s] <= written'[s]
        <4>1. Len(pipe[s]) \in Nat BY <3>1, LenProperties
        <4> QED BY <3>1, <3>3, <3>4, <3>6, <4>1
      <3>8. \A t \in Streams \ {s} :
              written'[t] = written[t] /\ pipe'[t] = pipe[t]
        BY <3>5 DEF ProcType
      <3>9. UNCHANGED <<rd, rdHeld, leader, helper, closed>>
        BY <2>1 DEF CmdWrites, taskVars
      <3> HIDE DEF n
      <3> QED BY <3>2, <3>4, <3>6, <3>7, <3>8, <3>9
    <2>2. ASSUME UNCHANGED <<taskVars, pipe, written>>, Running' => Running,
                 closed \subseteq closed'
          PROVE  PipeInv'
      BY <2>2 DEF taskVars
    <2> QED BY <1>3, <2>1, <2>2
        DEF CommandNext, CmdReads, CmdSeesEof, CmdForks, HelperExits,
            CmdCloses, CmdExits
  <1>4. CASE UNCHANGED <<rd, rdHeld, pipe, written, leader, helper, closed>>
    BY <1>4
  <1> QED BY <1>1, <1>2, <1>3, <1>4, ClientFrame, HandlerFrame, StdinFrame
          DEF Next, Over, vars, taskVars, procVars

-----------------------------------------------------------------------------
(* The Exit event stays the last one, and comes out when nothing is left.  *)

(* Taking the first event keeps an Exit last, and takes it only when it is *)
(* alone.                                                                  *)
LEMMA ExitTail ==
    ASSUME NEW S, NEW q \in Seq(S), q # <<>>, ExitOnlyLast(q)
    PROVE  /\ ExitOnlyLast(Tail(q)) /\ (HasExit(Tail(q)) => HasExit(q))
           /\ Head(q).kind = "exit" =>
                /\ HasExit(q) /\ Tail(q) = <<>> /\ Head(q) = ReportOf(status)
           /\ EndsInExit(q) => Head(q).kind = "exit" \/ EndsInExit(Tail(q))
  <1> DEFINE t == Tail(q)
  <1>1. /\ Len(q) \in Nat \ {0} /\ Len(t) = Len(q) - 1 /\ Head(q) = q[1]
        /\ t \in Seq(S) /\ \A i \in 1..Len(t) : t[i] = q[i + 1]
    BY LenProperties, HeadTailProperties
  <1>2. t = <<>> <=> Len(t) = 0 BY <1>1, EmptySeq
  <1> HIDE DEF t
  <1>3. \A i \in 1..Len(t) : i + 1 \in 1..Len(q) /\ (i + 1 = Len(q) => i = Len(t))
    BY <1>1
  <1>4. ExitOnlyLast(t) BY <1>1, <1>3 DEF ExitOnlyLast
  <1>5. HasExit(t) => HasExit(q) BY <1>1, <1>3 DEF HasExit
  <1>6. Head(q).kind = "exit" =>
          HasExit(q) /\ t = <<>> /\ Head(q) = ReportOf(status)
    <2>1. 1 \in 1..Len(q) BY <1>1
    <2>2. q[1].kind = "exit" => 1 = Len(q) /\ q[1] = ReportOf(status)
      BY <2>1 DEF ExitOnlyLast
    <2> QED BY <1>1, <1>2, <2>1, <2>2 DEF HasExit
  <1>7. EndsInExit(q) => Head(q).kind = "exit" \/ EndsInExit(t)
    <2> SUFFICES ASSUME EndsInExit(q), Len(q) # 1 PROVE EndsInExit(t)
      BY <1>1 DEF EndsInExit
    <2>1. Len(t) \in 1..Len(t) /\ Len(t) + 1 = Len(q) BY <1>1
    <2>2. t[Len(t)] = q[Len(q)] BY <1>1, <2>1
    <2> QED BY <1>2, <2>1, <2>2 DEF EndsInExit
  <1> QED BY <1>4, <1>5, <1>6, <1>7 DEF t

(* In a channel that holds no Exit, an event put last is the only Exit if  *)
(* it is one.                                                              *)
LEMMA ExitAppend ==
    ASSUME NEW S, NEW q \in Seq(S), NEW m \in S, ~HasExit(q)
    PROVE  /\ m.kind = "exit" =>
                EndsInExit(Append(q, m))
                /\ (m = ReportOf(status) => ExitOnlyLast(Append(q, m)))
           /\ m.kind # "exit" =>
                ~HasExit(Append(q, m)) /\ ExitOnlyLast(Append(q, m))
  <1> DEFINE r == Append(q, m)
  <1>1. /\ Len(q) \in Nat /\ Len(r) = Len(q) + 1 /\ r[Len(q) + 1] = m
        /\ r # <<>> /\ \A i \in 1..Len(q) : r[i] = q[i]
    BY LenProperties, AppendProperties
  <1> HIDE DEF r
  <1>2. r[Len(r)] = m BY <1>1
  <1>3. ASSUME NEW i \in 1..Len(r), r[i].kind = "exit"
        PROVE  i = Len(r)
    <2>1. CASE i \in 1..Len(q) BY <1>1, <1>3, <2>1 DEF HasExit
    <2> QED BY <1>1, <2>1
  <1> QED BY <1>1, <1>2, <1>3 DEF HasExit, EndsInExit, ExitOnlyLast, r

-----------------------------------------------------------------------------
(* The output event of a chunk is an event, and tells its stream and       *)
(* number.                                                                 *)
LEMMA OutputEvent ==
    ASSUME NEW m \in ExecEvents, NEW s \in Streams, IsChunk(m, s)
    PROVE  m.n \in Nat
  BY BoundAssumption DEF ExecEvents, OutputFrames, ExitFrames, Output, Exit,
     IsChunk

(* What was taken of a stream and what was queued of it are numbers of     *)
(* chunks.                                                                 *)
LEMMA TakenQueued ==
    ASSUME IInv, NEW s \in Streams
    PROVE  Taken(s) \in Nat /\ Queued(s) \in Nat
  <1>1. sent[s] \in Nat /\ rdHeld[s] \in Nat
    BY BoundAssumption DEF IInv, TypeOK, WireType, TaskType
  <1>2. rd[s] = "send" => rdHeld[s] - 1 \in Nat
    BY BoundAssumption DEF IInv, HoldInv
  <1>3. h = "send_output" /\ IsChunk(held, s) => held.n \in Nat
    BY OutputEvent DEF IInv, HoldInv
  <1> QED BY <1>1, <1>2, <1>3 DEF Taken, Queued

(* A stream whose ends did not move. *)
LEMMA StreamStays ==
    ASSUME NEW s \in Streams, StreamInv(s),
           UNCHANGED <<Taken(s), Queued(s), events>>,
           (h' = "send_output" /\ IsChunk(held', s))
             => held'.n = sent'[s] + 1
    PROVE  StreamInv(s)'
  BY DEF StreamInv

(* No step loses, repeats or reorders a chunk between the readers and the  *)
(* socket.                                                                 *)
LEMMA ChannelInvStep == ASSUME IInv, [Next]_vars PROVE ChannelInv'
  <1> SUFFICES ASSUME conn' = "up", h' # "done", NEW s \in Streams
               PROVE  StreamInv(s)'
    BY DEF ChannelInv
  <1>1. conn = "up"
    <2>1. CASE ClientNext
      BY <2>1 DEF ClientNext, ClientSend, ClientRead, ConnBreaks
    <2>2. CASE HandlerNext
      BY <2>2 DEF HandlerNext, WsHandler, AwaitExec, AwaitExecFails,
         RecvEvent, EventsClosed, SendOutput, SendOutputLost, SendOutputFails,
         RecvFrame, RecvFails, SendStdin, SendStdinFails, AwaitDone,
         SendError, Close, connVars
    <2>3. CASE UNCHANGED conn BY <2>3
    <2> QED BY <2>1, <2>2, <2>3, ExecFrame, StdinFrame, ReaderFrame,
               CommandFrame DEF Next, Over, vars, connVars
  <1>2. h # "done"
    <2>1. CASE HandlerNext
      BY <2>1 DEF HandlerNext, WsHandler, AwaitExec, AwaitExecFails,
         RecvEvent, EventsClosed, SendOutput, SendOutputLost, SendOutputFails,
         RecvFrame, RecvFails, SendStdin, SendStdinFails, AwaitDone,
         SendError, Close
    <2>2. CASE UNCHANGED h BY <2>2
    <2> QED BY <2>1, <2>2, ClientFrame, ExecFrame, StdinFrame, ReaderFrame,
               CommandFrame DEF Next, Over, vars, handlerVars
  <1>3. StreamInv(s) BY <1>1, <1>2 DEF IInv, ChannelInv
  <1>4. /\ Taken(s) \in Nat /\ Queued(s) \in Nat /\ Taken(s) <= Queued(s)
        /\ Carries(events, s, Taken(s), Queued(s))
    BY <1>3, TakenQueued DEF StreamInv
  <1>5. events \in Seq(ExecEvents) BY DEF IInv, TypeOK, ChannelType
  <1>6. CASE UNCHANGED <<h, held, events, sent, rd, rdHeld>>
    BY <1>3, <1>6 DEF StreamInv, Taken, Queued
  <1>7. CASE HandlerNext
    <2> UNCHANGED <<rd, rdHeld>> BY <1>7, HandlerFrame
    <2> Queued(s)' = Queued(s) BY DEF Queued
    <2>1. CASE RecvEvent
      <3>1. /\ Taken(s) = sent[s] /\ sent' = sent /\ h' = "send_output"
            /\ events # <<>> /\ held' = Head(events) /\ events' = Tail(events)
        BY <2>1 DEF RecvEvent, Taken, wireVars
      <3>2. CASE IsChunk(Head(events), s)
        <4>1. /\ Head(events).n = sent[s] + 1 /\ sent[s] + 1 <= Queued(s)
              /\ Carries(Tail(events), s, sent[s] + 1, Queued(s))
          BY <1>4, <1>5, <3>1, <3>2, CarriesTail
        <4>2. Taken(s)' = sent[s] + 1 BY <3>1, <3>2, <4>1 DEF Taken
        <4> QED BY <3>1, <3>2, <4>1, <4>2 DEF StreamInv
      <3>3. CASE ~IsChunk(Head(events), s)
        <4>1. Carries(Tail(events), s, Taken(s), Queued(s))
          BY <1>4, <1>5, <3>1, <3>3, CarriesTail
        <4>2. Taken(s)' = Taken(s) BY <3>1, <3>3 DEF Taken
        <4> QED BY <1>4, <3>1, <3>3, <4>1, <4>2 DEF StreamInv
      <3> QED BY <3>2, <3>3
    <2>2. CASE SendOutput
      <3>1. h = "send_output" /\ h' = "loop" /\ events' = events
        BY <2>2 DEF SendOutput, channelVars
      <3>2. Taken(s)' = Taken(s)
        <4>1. sent \in [Streams -> 0..MaxOut]
          BY DEF IInv, TypeOK, WireType
        <4>2. CASE IsChunk(held, s)
          BY <2>2, <3>1, <4>1, <4>2 DEF SendOutput, Taken, IsChunk, Streams
        <4>3. CASE ~IsChunk(held, s)
          BY <2>2, <3>1, <4>1, <4>3 DEF SendOutput, Taken, IsChunk, Streams
        <4> QED BY <4>2, <4>3
      <3> QED BY <1>3, <3>1, <3>2, StreamStays
    <2>3. CASE ~(RecvEvent \/ SendOutput)
      <3>1. /\ h # "send_output" /\ h' # "send_output"
            /\ UNCHANGED <<events, sent>>
        BY <1>1, <1>7, <2>3
        DEF HandlerNext, WsHandler, AwaitExec, AwaitExecFails, EventsClosed,
            SendOutputLost, SendOutputFails, RecvFrame, RecvFails, SendStdin,
            SendStdinFails, AwaitDone, SendError, Close, channelVars, wireVars
      <3>2. Taken(s)' = Taken(s) BY <3>1 DEF Taken
      <3> QED BY <1>3, <3>1, <3>2, StreamStays
    <2> QED BY <2>1, <2>2, <2>3
  <1>8. CASE ExecNext
    <2> UNCHANGED <<h, held, sent, rdHeld>>
      BY <1>8, ExecFrame DEF handlerVars, wireVars
    <2> Taken(s)' = Taken(s) BY DEF Taken
    <2> (h' = "send_output" /\ IsChunk(held', s)) => held'.n = sent'[s] + 1
      BY <1>3 DEF StreamInv
    <2>1. CASE StartCommand
      <3>1. rd[s] = "none" /\ rd'[s] = "read" /\ events' = events
        BY <2>1 DEF StartCommand, IInv, ExecInv, channelVars
      <3>2. Queued(s)' = Queued(s) BY <3>1 DEF Queued
      <3> QED BY <1>3, <3>1, <3>2, StreamStays
    <2>2. CASE SendExit
      <3>1. Queued(s)' = Queued(s) BY <2>2 DEF SendExit, Queued
      <3>2. events' = Append(events, Exit(ExitCode(status)))
        BY <1>2, <2>2 DEF SendExit
      <3>3. ~IsChunk(Exit(ExitCode(status)), s) BY DEF IsChunk, Exit
      <3>4. Exit(ExitCode(status)) \in ExecEvents
        BY <2>2 DEF SendExit, IInv, ExecInv, ExecEvents, ExitFrames
      <3>5. Carries(events', s, Taken(s), Queued(s))
        BY <1>4, <1>5, <3>2, <3>3, <3>4, CarriesAppend
      <3> QED BY <1>3, <3>1, <3>5 DEF StreamInv
    <2>3. CASE UNCHANGED <<rd, events>>
      <3>1. Queued(s)' = Queued(s) BY <2>3 DEF Queued
      <3> QED BY <1>3, <2>3, <3>1, StreamStays
    <2> QED BY <1>8, <2>1, <2>2, <2>3
        DEF ExecNext, SpawnFails, ChildExited, CancelReceived, WaitFails,
            SendTerm, ExitInGrace, GraceExpires, SendKill, ExitAfterKill,
            JoinStdout, JoinStderr, KillChild, ReapKilled, ReportDone, Reap,
            ExecStep, Join, channelVars
  <1>9. ASSUME NEW t \in Streams, ReaderNext(t) PROVE StreamInv(s)'
    <2> UNCHANGED <<h, held, sent>>
      BY <1>9, ReaderFrame DEF handlerVars, wireVars
    <2> Taken(s)' = Taken(s) BY DEF Taken
    <2> (h' = "send_output" /\ IsChunk(held', s)) => held'.n = sent'[s] + 1
      BY <1>3 DEF StreamInv
    <2> /\ rd \in [Streams -> {"none", "read", "send", "eof", "failed"}]
        /\ rdHeld \in [Streams -> 0..MaxOut]
      BY DEF IInv, TypeOK, TaskType
    <2>1. CASE ReaderReads(t)
      <3>1. events' = events BY <2>1 DEF ReaderReads, channelVars
      <3>2. Head(pipe[t]) = rdHeld[t] + 1
        BY <2>1 DEF ReaderReads, IInv, TypeOK, ProcType, PipeInv, Consecutive
      <3>3. rdHeld' = [rdHeld EXCEPT ![t] = rdHeld[t] + 1]
            /\ rd' = [rd EXCEPT ![t] = "send"] /\ rd[t] = "read"
        BY <2>1, <3>2 DEF ReaderReads
      <3>4. Queued(s)' = Queued(s)
        BY <3>3, BoundAssumption DEF Queued
      <3> QED BY <1>3, <3>1, <3>4, StreamStays
    <2>2. CASE ReaderSends(t)
      <3>1. /\ rd[t] = "send" /\ rd' = [rd EXCEPT ![t] = "read"]
            /\ rdHeld' = rdHeld
            /\ events' = Append(events, Output(t, rdHeld[t]))
        BY <2>2 DEF ReaderSends
      <3>2. Output(t, rdHeld[t]) \in ExecEvents
        BY <2>2 DEF ReaderSends, IInv, HoldInv, ExecEvents, OutputFrames
      <3>3. CASE s = t
        <4>1. IsChunk(Output(t, rdHeld[t]), s) BY <3>3 DEF IsChunk, Streams, Output
        <4>2. Queued(s) = rdHeld[s] - 1 /\ Queued(s)' = rdHeld[s]
          BY <3>1, <3>3 DEF Queued
        <4>3. Output(t, rdHeld[t]).n = Queued(s) + 1
          BY <3>3, <4>2, BoundAssumption DEF Output
        <4>4. Carries(events', s, Taken(s), Queued(s) + 1)
          BY <1>4, <1>5, <3>1, <3>2, <4>1, <4>3, CarriesAppend
        <4>5. Queued(s)' = Queued(s) + 1 BY <4>2, BoundAssumption
        <4> QED BY <1>4, <4>4, <4>5 DEF StreamInv
      <3>4. CASE s # t
        <4>1. ~IsChunk(Output(t, rdHeld[t]), s) BY <3>4 DEF IsChunk, Output
        <4>2. Queued(s)' = Queued(s) BY <3>1, <3>4 DEF Queued
        <4>3. Carries(events', s, Taken(s), Queued(s))
          BY <1>4, <1>5, <3>1, <3>2, <4>1, CarriesAppend
        <4> QED BY <1>4, <4>2, <4>3 DEF StreamInv
      <3> QED BY <3>3, <3>4
    <2>3. ASSUME NEW how \in {"eof", "failed"}, ReaderEnds(t, how),
                 rd[t] = "read"
          PROVE  StreamInv(s)'
      <3>1. Queued(s)' = Queued(s) /\ events' = events
        BY <2>3 DEF ReaderEnds, Queued, channelVars
      <3> QED BY <1>3, <3>1, StreamStays
    <2> QED BY <1>2, <1>9, <2>1, <2>2, <2>3
        DEF ReaderNext, ReaderEof, ReadFails, ReaderSendFails
  <1> QED BY <1>6, <1>7, <1>8, <1>9, ClientFrame, StdinFrame, CommandFrame
          DEF Next, Over, vars, handlerVars, channelVars, taskVars, wireVars

-----------------------------------------------------------------------------
(* As long as the command has not succeeded no Exit is anywhere.           *)
LEMMA NoExitYet ==
    ASSUME IInv, ~Succeeded
    PROVE  ~HasExit(events) /\ held.kind # "exit" /\ final.kind # "exit"
  BY DEF IInv, ExitInv

(* While no Exit is anywhere and the command has not succeeded, nothing is *)
(* to be shown of Exit events.                                             *)
LEMMA NoExitInv ==
    ASSUME ~HasExit(events)', ~Succeeded', held'.kind # "exit",
           final'.kind # "exit"
    PROVE  ExitInv'
  BY DEF ExitInv, HasExit, ExitOnlyLast

(* The Exit event of a success is on its way, last, until it is on the     *)
(* wire.                                                                   *)
LEMMA ExitInvStep == ASSUME IInv, [Next]_vars PROVE ExitInv'
  <1> USE DEF Succeeded
  <1>1. ExitInv /\ events \in Seq(ExecEvents)
    BY DEF IInv, TypeOK, ChannelType
  <1>2. CASE HandlerNext
    <2>1. Succeeded' = Succeeded /\ status' = status
      <3>1. UNCHANGED <<done, procVars>> BY <1>2, HandlerFrame
      <3>2. e' = e \/ (e = "none" /\ e' = "queued")
        BY <1>2 DEF HandlerNext, WsHandler, AwaitExec, AwaitExecFails,
           RecvEvent, EventsClosed, SendOutput, SendOutputLost,
           SendOutputFails, RecvFrame, RecvFails, SendStdin, SendStdinFails,
           AwaitDone, SendError, Close, taskVars, IInv, HandlerInv
      <3> QED BY <3>1, <3>2 DEF procVars
    <2>2. CASE RecvEvent
      <3>1. /\ held.kind # "exit" /\ h = "loop" /\ events # <<>>
            /\ h' = "send_output" /\ held' = Head(events)
            /\ events' = Tail(events) /\ UNCHANGED <<conn, final>>
        BY <2>2 DEF RecvEvent, connVars, wireVars, IInv, HoldInv, NoFrame
      <3>2. final.kind # "exit" BY <1>1, <3>1 DEF ExitInv
      <3>3. /\ ExitOnlyLast(Tail(events))
            /\ HasExit(Tail(events)) => HasExit(events)
            /\ Head(events).kind = "exit" =>
                 /\ HasExit(events) /\ Tail(events) = <<>>
                 /\ Head(events) = ReportOf(status)
            /\ EndsInExit(events) =>
                 Head(events).kind = "exit" \/ EndsInExit(Tail(events))
        BY <1>1, <3>1, ExitTail DEF ExitInv
      <3>4. ExitOnlyLast(events)' BY <2>1, <3>1, <3>3 DEF ExitOnlyLast
      <3>5. HasExit(events)' => Succeeded'
        BY <1>1, <2>1, <3>1, <3>3 DEF ExitInv
      <3>6. held'.kind = "exit" =>
              /\ Succeeded' /\ events' = <<>>
              /\ held' = ReportOf(status)'
        BY <1>1, <2>1, <3>1, <3>3 DEF ExitInv
      <3>7. (Succeeded' /\ conn' = "up") =>
              held'.kind = "exit" \/ EndsInExit(events')
        BY <1>1, <2>1, <3>1, <3>2, <3>3 DEF ExitInv
      <3> QED BY <3>1, <3>2, <3>4, <3>5, <3>6, <3>7 DEF ExitInv
    <2>3. CASE SendOutput
      <3>1. /\ h = "send_output" /\ h' = "loop" /\ held' = NoFrame
            /\ UNCHANGED <<conn, events>>
            /\ IF held.kind = "output" THEN final' = final
                                       ELSE final' = held
        BY <2>3 DEF SendOutput, channelVars
      <3>2. held'.kind # "exit" BY <3>1 DEF NoFrame
      <3>3. final.kind # "exit" BY <1>1, <3>1 DEF ExitInv
      <3>4. final'.kind = "exit" => Succeeded /\ events = <<>>
        BY <1>1, <3>1, <3>3 DEF ExitInv
      <3>5. held.kind = "exit" => final'.kind = "exit" BY <3>1
      <3>6. ExitOnlyLast(events)' BY <1>1, <2>1, <3>1 DEF ExitInv, ExitOnlyLast
      <3>7. HasExit(events)' => Succeeded' BY <1>1, <2>1, <3>1 DEF ExitInv
      <3> QED BY <1>1, <2>1, <3>1, <3>2, <3>3, <3>4, <3>5, <3>6, <3>7
              DEF ExitInv
    <2>4. CASE SendOutputFails
      <3>1. /\ h = "send_output" /\ h' = "done" /\ held' = NoFrame
            /\ events' = <<>> /\ final' = final
        BY <2>4 DEF SendOutputFails, wireVars
      <3>2. final'.kind # "exit" /\ held'.kind # "exit"
        BY <1>1, <3>1 DEF ExitInv, NoFrame
      <3> QED BY <3>1, <3>2 DEF ExitInv, ExitOnlyLast, HasExit
    <2>5. CASE SendOutputLost
      <3>1. /\ h = "send_output" /\ h' = "loop" /\ held' = NoFrame
            /\ conn' = "broken" /\ UNCHANGED <<events, final>>
        BY <2>5 DEF SendOutputLost, connVars, channelVars, wireVars
      <3>2. final'.kind # "exit" /\ held'.kind # "exit"
        BY <1>1, <3>1 DEF ExitInv, NoFrame
      <3>3. ExitOnlyLast(events)' /\ (HasExit(events)' => Succeeded')
        BY <1>1, <2>1, <3>1 DEF ExitInv, ExitOnlyLast
      <3> QED BY <3>1, <3>2, <3>3 DEF ExitInv
    <2>6. CASE SendError
      <3>1. ~Succeeded BY <2>6 DEF SendError, IInv, HandlerInv
      <3>2. /\ UNCHANGED <<events, held>> /\ final' \in {final, Error}
        BY <2>6 DEF SendError, channelVars
      <3>3. final'.kind # "exit" BY <3>1, <3>2, NoExitYet DEF Error
      <3> QED BY <2>1, <3>1, <3>2, <3>3, NoExitYet, NoExitInv
    <2>7. CASE ~(RecvEvent \/ SendOutput \/ SendOutputFails
                  \/ SendOutputLost \/ SendError)
      <3>1. /\ h' # "send_output" /\ h # "done" /\ h # "send_output"
            /\ UNCHANGED <<events, final>> /\ held'.kind # "exit"
            /\ conn' = conn \/ conn' = "closing"
        <4> held.kind = "exit" => h = "send_output"
          BY DEF IInv, HoldInv, StdinFrames, Stdin, NoFrame, TypeOK,
             HandlerType
        <4>1. CASE RecvFrame
          BY <2>7, <4>1 DEF RecvFrame, wireVars
        <4>2. CASE ~RecvFrame
          BY <1>2, <2>7, <4>2
          DEF HandlerNext, WsHandler, AwaitExec, AwaitExecFails, EventsClosed,
              RecvFails, SendStdin, SendStdinFails, AwaitDone, Close, NoFrame,
              connVars, channelVars, wireVars
        <4> QED BY <4>1, <4>2
      <3>2. held.kind # "exit"
        BY <3>1 DEF IInv, HoldInv, StdinFrames, Stdin, NoFrame
      <3>3. ExitOnlyLast(events)' /\ (HasExit(events)' => Succeeded')
        BY <1>1, <2>1, <3>1 DEF ExitInv, ExitOnlyLast
      <3> QED BY <1>1, <2>1, <3>1, <3>2, <3>3 DEF ExitInv
    <2> QED BY <2>2, <2>3, <2>4, <2>5, <2>6, <2>7
  <1>3. CASE ExecNext
    <2>1. UNCHANGED <<conn, h, held, final>>
      BY <1>3, ExecFrame DEF connVars, handlerVars, wireVars
    <2>2. CASE SendExit
      <3>1. ~Succeeded BY <2>2 DEF SendExit, IInv, ExecInv
      <3>2. CASE h = "done"
        <4>1. ~Succeeded' /\ events' = events
          BY <2>2, <3>1, <3>2 DEF SendExit
        <4> QED BY <2>1, <3>1, <4>1, NoExitYet, NoExitInv
      <3>3. CASE h # "done"
        <4>1. /\ events' = Append(events, ReportOf(status)) /\ e' = "ret_ok"
              /\ status' = status /\ ReportOf(status).kind = "exit"
          BY <2>2, <3>3 DEF SendExit, ReportOf, Exit, procVars
        <4>2. ReportOf(status) \in ExecEvents
          BY <2>2 DEF SendExit, ReportOf, IInv, ExecInv, ExecEvents,
             ExitFrames
        <4>3. EndsInExit(events') /\ ExitOnlyLast(events')
          BY <1>1, <3>1, <4>1, <4>2, NoExitYet, ExitAppend
        <4>4. ExitOnlyLast(events)' BY <4>1, <4>3 DEF ExitOnlyLast
        <4> QED BY <2>1, <3>1, <4>1, <4>3, <4>4, NoExitYet DEF ExitInv
      <3> QED BY <3>2, <3>3
    <2>3. CASE ReportDone
      <3>1. Succeeded' = Succeeded /\ UNCHANGED <<status, events>>
        BY <2>3 DEF ReportDone, IInv, ExecInv, procVars
      <3>2. ExitOnlyLast(events)' BY <1>1, <3>1 DEF ExitInv, ExitOnlyLast
      <3> QED BY <1>1, <2>1, <3>1, <3>2 DEF ExitInv
    <2>4. CASE ~(SendExit \/ ReportDone)
      <3>1. ~Succeeded /\ ~Succeeded' /\ events' = events
        BY <1>3, <2>4
        DEF ExecNext, StartCommand, SpawnFails, ChildExited, CancelReceived,
            WaitFails, SendTerm, ExitInGrace, GraceExpires, SendKill,
            ExitAfterKill, JoinStdout, JoinStderr, KillChild, ReapKilled, Reap,
            ExecStep, Join, IInv, ExecInv, channelVars
      <3> QED BY <2>1, <3>1, NoExitYet, NoExitInv
    <2> QED BY <2>2, <2>3, <2>4
  <1>4. ASSUME NEW s \in Streams, ReaderNext(s) PROVE ExitInv'
    <2>1. UNCHANGED <<conn, h, held, done, e, status, final>>
      BY <1>4, ReaderFrame DEF connVars, handlerVars, wireVars
    <2>2. CASE ReaderSends(s)
      <3>1. ~Succeeded BY <2>2 DEF ReaderSends, IInv, ExecInv
      <3>2. Output(s, rdHeld[s]) \in ExecEvents
        BY <2>2 DEF ReaderSends, IInv, HoldInv, ExecEvents, OutputFrames
      <3>3. events' = Append(events, Output(s, rdHeld[s]))
            /\ Output(s, rdHeld[s]).kind # "exit"
        BY <2>2 DEF ReaderSends, Output
      <3>4. ~HasExit(events')
        BY <1>1, <3>1, <3>2, <3>3, NoExitYet, ExitAppend
      <3> QED BY <2>1, <3>1, <3>4, NoExitYet, NoExitInv
    <2>3. CASE events' = events
      <3>1. ExitOnlyLast(events)' BY <1>1, <2>1, <2>3 DEF ExitInv, ExitOnlyLast
      <3> QED BY <1>1, <2>1, <2>3, <3>1 DEF ExitInv
    <2> QED BY <1>4, <2>2, <2>3
        DEF ReaderNext, ReaderReads, ReaderEof, ReadFails, ReaderSendFails,
            ReaderEnds, channelVars
  <1>5. CASE CommandNext
    <2>1. UNCHANGED <<conn, h, held, events, done, e, final>>
      BY <1>5, CommandFrame
      DEF connVars, handlerVars, channelVars, taskVars, wireVars
    <2>2. CASE Succeeded
      <3>1. status' = status
        BY <1>5, <2>2 DEF CommandNext, CmdReads, CmdSeesEof, CmdForks,
           HelperExits, CmdWrites, CmdCloses, CmdExits, IInv, ExecInv
      <3>2. ExitOnlyLast(events)' BY <1>1, <2>1, <3>1 DEF ExitInv, ExitOnlyLast
      <3> QED BY <1>1, <2>1, <3>1, <3>2 DEF ExitInv
    <2>3. CASE ~Succeeded BY <2>1, <2>3, NoExitYet, NoExitInv
    <2> QED BY <2>2, <2>3
  <1>6. CASE conn' \in {conn, "broken"}
             /\ UNCHANGED <<h, held, events, done, e, status, final>>
    <2>1. ExitOnlyLast(events)' BY <1>1, <1>6 DEF ExitInv, ExitOnlyLast
    <2> QED BY <1>1, <1>6, <2>1 DEF ExitInv
  <1>7. CASE ClientNext
    <2>1. conn' \in {conn, "broken"}
      BY <1>7 DEF ClientNext, ClientSend, ClientRead, ConnBreaks
    <2> QED BY <1>6, <1>7, <2>1, ClientFrame
        DEF handlerVars, channelVars, taskVars, procVars, wireVars
  <1> QED BY <1>2, <1>3, <1>4, <1>5, <1>6, <1>7, StdinFrame
          DEF Next, Over, vars, connVars, handlerVars, channelVars, taskVars,
              procVars, wireVars

-----------------------------------------------------------------------------
(* What holds when the handler is about to put the Exit event on the wire: *)
(* the readers have ended, and nothing is left in a pipe or the channel.   *)
LEMMA AllDelivered ==
    ASSUME IInv, h = "send_output", held.kind = "exit", conn = "up"
    PROVE  /\ sent = written /\ \A s \in Streams : ~Writers(s)
           /\ leader = "reaped" /\ held = ReportOf(status)
  <1>1. Succeeded /\ events = <<>> /\ held = ReportOf(status)
    BY DEF IInv, ExitInv
  <1>2. leader = "reaped" /\ \A s \in Streams : rd[s] = "eof"
    BY <1>1 DEF IInv, ExecInv
  <1>3. ASSUME NEW s \in Streams PROVE sent[s] = written[s]
    <2>1. Taken(s) = sent[s] /\ Queued(s) = rdHeld[s]
      BY <1>2 DEF Taken, Queued, IsChunk
    <2>2. Taken(s) = Queued(s)
      <3>1. StreamInv(s) BY DEF IInv, ChannelInv
      <3>2. Taken(s) <= Queued(s) /\ Carries(<<>>, s, Taken(s), Queued(s))
        BY <1>1, <3>1 DEF StreamInv
      <3> QED BY <3>2, TakenQueued, CarriesEmpty
    <2>3. rdHeld[s] = written[s]
      <3>1. rdHeld[s] + Len(pipe[s]) = written[s] /\ pipe[s] = <<>>
        BY <1>2 DEF IInv, PipeInv
      <3>2. rdHeld[s] \in Nat
        BY BoundAssumption DEF IInv, TypeOK, TaskType
      <3> QED BY <3>1, <3>2
    <2> QED BY <2>1, <2>2, <2>3
  <1>4. sent = written
    BY <1>3 DEF IInv, TypeOK, WireType, ProcType
  <1>5. \A s \in Streams : ~Writers(s) BY <1>2 DEF IInv, PipeInv
  <1> QED BY <1>1, <1>2, <1>4, <1>5

(* The final frame while a message of the channel is sent: none yet.       *)
LEMMA NoFinalYet ==
    ASSUME IInv, h = "send_output"
    PROVE  final = NoFrame
  BY DEF IInv, ExitInv, HandlerInv, TypeOK, WireType, ExitFrames, Exit

(* handle_ws comes to close a connection that is up by an Exit already on  *)
(* the wire, or by sending an Error.                                       *)
LEMMA AnswerBeforeCloseStep ==
    ASSUME IInv, [Next]_vars PROVE AnswerBeforeClose'
  <1> SUFFICES ASSUME h' = "close", conn' = "up" PROVE final' # NoFrame
    BY DEF AnswerBeforeClose
  <1>1. CASE AwaitDone
    <2>1. /\ h = "await_done" /\ done = "ok" /\ conn = "up" /\ final' = final
      BY <1>1 DEF AwaitDone, connVars, wireVars
    <2>2. held.kind # "exit" /\ ~EndsInExit(events)
      BY <2>1 DEF IInv, HoldInv, HandlerInv, NoFrame, EndsInExit
    <2>3. final.kind = "exit" BY <2>1, <2>2 DEF IInv, ExitInv, Succeeded
    <2> QED BY <2>1, <2>3 DEF NoFrame
  <1>2. CASE SendError
    BY <1>2 DEF SendError, Error, NoFrame
  <1>3. CASE UNCHANGED <<h, final>> /\ (conn' = "up" => conn = "up")
    BY <1>3 DEF IInv, AnswerBeforeClose
  <1>4. CASE HandlerNext
    BY <1>1, <1>2, <1>4 DEF HandlerNext, WsHandler, AwaitExec,
       AwaitExecFails, RecvEvent, EventsClosed, SendOutput, SendOutputLost,
       SendOutputFails, RecvFrame, RecvFails, SendStdin, SendStdinFails,
       Close
  <1>5. CASE ClientNext
    <2>1. conn' = "up" => conn = "up"
      BY <1>5 DEF ClientNext, ClientSend, ClientRead, ConnBreaks
    <2> QED BY <1>3, <1>5, <2>1, ClientFrame DEF handlerVars, wireVars
  <1> QED BY <1>3, <1>4, <1>5, ExecFrame, StdinFrame, ReaderFrame,
             CommandFrame DEF Next, Over, vars, connVars, handlerVars, wireVars

-----------------------------------------------------------------------------
(* Every step of the session is a step of the service, or none.            *)
LEMMA ServiceStep == ASSUME IInv, [Next]_vars PROVE [Service!Next]_(Service!vars)
  <1> USE DEF Service!vars
  <1>1. CASE UNCHANGED <<Phase, status, written, sent, final>>
    BY <1>1
  <1>2. CASE HandlerNext
    <2>1. Phase' = Phase /\ UNCHANGED <<status, written>>
      BY <1>2, HandlerFrame DEF procVars, Phase
    <2>2. CASE SendOutput
      <3>1. h = "send_output" /\ conn = "up" /\ held \in ExecEvents
        BY <2>2 DEF SendOutput, IInv, HoldInv
      <3>2. final = NoFrame BY <3>1, NoFinalYet
      <3>3. CASE held.kind = "output"
        <4>1. held.stream \in Streams
          BY <3>1, <3>3 DEF ExecEvents, OutputFrames, ExitFrames, Output, Exit
        <4> DEFINE s == held.stream
        <4>2. StreamInv(s) /\ IsChunk(held, s)
          BY <3>1, <3>3, <4>1 DEF IInv, ChannelInv, IsChunk, Streams
        <4>3. held.n = sent[s] + 1 /\ held.n <= Queued(s)
          BY <3>1, <4>2 DEF StreamInv, Taken
        <4>4. Queued(s) <= rdHeld[s] /\ rdHeld[s] <= written[s]
          BY <4>1, BoundAssumption
          DEF Queued, IInv, PipeInv, TypeOK, TaskType
        <4>5. sent[s] < written[s]
          BY <4>1, <4>3, <4>4, TakenQueued, BoundAssumption
          DEF IInv, TypeOK, WireType, TaskType, ProcType
        <4>6. sent' = [sent EXCEPT ![s] = @ + 1] /\ final' = final
          BY <2>2, <3>3, <4>3 DEF SendOutput
        <4>7. Service!Deliver(s)
          BY <2>1, <3>2, <4>5, <4>6 DEF Service!Deliver
        <4> QED BY <4>1, <4>7 DEF Service!Next
      <3>4. CASE held.kind # "output"
        <4>1. held.kind = "exit"
          BY <3>1, <3>4 DEF ExecEvents, OutputFrames, ExitFrames, Output, Exit
        <4>2. sent = written /\ leader = "reaped" /\ held = ReportOf(status)
          BY <3>1, <4>1, AllDelivered
        <4>3. Phase = "ended" BY <4>2 DEF Phase
        <4>4. final' = ReportOf(status) /\ sent' = sent
          BY <2>2, <3>4, <4>2 DEF SendOutput
        <4> QED BY <2>1, <3>2, <4>2, <4>3, <4>4
                DEF Service!ReportExit, Service!Next
      <3> QED BY <3>3, <3>4
    <2>3. CASE SendError
      <3>1. final = NoFrame /\ leader # "run"
        BY <2>3 DEF SendError, IInv, HandlerInv, ExecInv, Waiting
      <3>2. Phase # "running" BY <3>1 DEF Phase, IInv, TypeOK, ProcType
      <3>3. CASE conn = "up"
        <4>1. final' = Error /\ sent' = sent
          BY <2>3, <3>3 DEF SendError
        <4> QED BY <2>1, <3>1, <3>2, <4>1
                DEF Service!ReportFailure, Service!Next
      <3>4. CASE conn # "up"
        <4>1. final' = final /\ sent' = sent BY <2>3, <3>4 DEF SendError
        <4> QED BY <1>1, <2>1, <4>1
      <3> QED BY <3>3, <3>4
    <2>4. CASE UNCHANGED wireVars BY <1>1, <2>1, <2>4 DEF wireVars
    <2> QED BY <1>2, <2>2, <2>3, <2>4
        DEF HandlerNext, WsHandler, AwaitExec, AwaitExecFails, RecvEvent,
            EventsClosed, SendOutputLost, SendOutputFails, RecvFrame,
            RecvFails, SendStdin, SendStdinFails, AwaitDone, Close
  <1>3. ASSUME leader = "run", leader' \in {"zombie", "reaped"},
               status' \in Statuses, UNCHANGED <<written, sent, final>>
        PROVE  Service!Next
    <2>1. Phase = "running" /\ Phase' = "ended" BY <1>3 DEF Phase
    <2>2. Service!End(status') BY <1>3, <2>1 DEF Service!End
    <2> QED BY <1>3, <2>2 DEF Service!Next
  <1>4. CASE ExecNext
    <2>1. UNCHANGED <<written, sent, final>>
      BY <1>4, ExecFrame DEF wireVars
    <2>2. CASE StartCommand
      <3>1. leader = "none" /\ leader' = "run" /\ status' = status
        BY <2>2 DEF StartCommand, IInv, ExecInv
      <3>2. Phase = "idle" /\ Phase' = "running" BY <3>1 DEF Phase
      <3> QED BY <2>1, <3>1, <3>2 DEF Service!Start, Service!Next
    <2>3. CASE SendKill \/ KillChild \/ ReapKilled
      <3>1. CASE leader = "run"
        <4>1. \/ leader' = leader /\ status' = status
              \/ leader' \in {"zombie", "reaped"} /\ status' = Signaled
          BY <2>3, <3>1 DEF SendKill, KillChild, ReapKilled, KillLeader
        <4>2. CASE leader' = leader /\ status' = status
          BY <1>1, <2>1, <4>2 DEF Phase
        <4> QED BY <1>3, <2>1, <3>1, <4>1, <4>2 DEF Statuses
      <3>2. CASE leader # "run"
        <4>1. leader \in {"zombie", "reaped"} /\ status' = status
          BY <2>3, <3>2 DEF SendKill, KillChild, ReapKilled, KillLeader,
             IInv, ExecInv, Waiting, TypeOK, ProcType
        <4>2. leader' \in {"zombie", "reaped"}
          BY <2>3, <4>1 DEF SendKill, KillChild, ReapKilled, KillLeader
        <4>3. Phase' = Phase BY <4>1, <4>2 DEF Phase
        <4> QED BY <1>1, <2>1, <4>1, <4>3
      <3> QED BY <3>1, <3>2
    <2>4. ASSUME NEW from, Reap(from) PROVE UNCHANGED <<Phase, status>>
      BY <2>4 DEF Reap, Phase
    <2>5. CASE UNCHANGED <<leader, status>>
      BY <1>1, <2>1, <2>5 DEF Phase
    <2> QED BY <1>1, <1>4, <2>1, <2>2, <2>3, <2>4, <2>5
        DEF ExecNext, SpawnFails, ChildExited, CancelReceived, WaitFails,
            SendTerm, ExitInGrace, GraceExpires, ExitAfterKill, JoinStdout,
            JoinStderr, SendExit, ReportDone, ExecStep, Join, procVars
  <1>5. CASE CommandNext
    <2>1. UNCHANGED <<sent, final>> BY <1>5, CommandFrame DEF wireVars
    <2>2. ASSUME NEW s \in Streams, CmdWrites(s) PROVE Service!Next
      <3>1. leader \in {"run", "zombie", "reaped"} /\ Writers(s)
        BY <2>2 DEF CmdWrites, Writers, Running, IInv, ExecInv, TypeOK,
           ProcType
      <3>2. Phase \in {"running", "ended"} BY <3>1 DEF Phase
      <3>3. final \in {NoFrame, Error}
        BY <3>1 DEF IInv, ExitAfterAllOutput, TypeOK, WireType, ExitFrames,
           Exit
      <3>4. Phase' = Phase /\ status' = status
            /\ written' = [written EXCEPT ![s] = @ + 1]
        BY <2>2 DEF CmdWrites, Phase
      <3>5. Service!Produce(s)
        BY <2>1, <3>2, <3>3, <3>4 DEF Service!Produce
      <3> QED BY <3>5 DEF Service!Next
    <2>3. ASSUME NEW c \in Statuses, CmdExits(c) PROVE Service!Next
      BY <1>3, <2>1, <2>3 DEF CmdExits
    <2>4. CASE UNCHANGED <<leader, status, written>>
      BY <1>1, <2>1, <2>4 DEF Phase
    <2> QED BY <1>5, <2>2, <2>3, <2>4
        DEF CommandNext, CmdReads, CmdSeesEof, CmdForks, HelperExits,
            CmdCloses
  <1>6. CASE UNCHANGED <<leader, status, written, sent, final>>
    BY <1>1, <1>6 DEF Phase
  <1> QED BY <1>2, <1>4, <1>5, <1>6, ClientFrame, StdinFrame, ReaderFrame
          DEF Next, Over, vars, procVars, wireVars

-----------------------------------------------------------------------------
(* The Exit frame is put on the wire after all output, and what it says    *)
(* stays true.                                                             *)
LEMMA ExitAfterAllOutputStep ==
    ASSUME IInv, [Next]_vars PROVE ExitAfterAllOutput'
  <1> SUFFICES ASSUME final'.kind = "exit"
               PROVE  /\ sent' = written' /\ (\A s \in Streams : ~Writers(s))'
                      /\ leader' = "reaped" /\ final' = ReportOf(status)'
    BY DEF ExitAfterAllOutput
  <1>1. CASE final.kind # "exit"
    <2>1. SendOutput
      <3>1. final' # final BY <1>1
      <3>2. HandlerNext
        BY <3>1, ClientFrame, ExecFrame, StdinFrame, ReaderFrame, CommandFrame
        DEF Next, Over, vars, wireVars
      <3>3. ~SendError BY <1>1 DEF SendError, Error
      <3> QED BY <3>1, <3>2, <3>3
          DEF HandlerNext, WsHandler, AwaitExec, AwaitExecFails, RecvEvent,
              EventsClosed, SendOutputLost, SendOutputFails, RecvFrame,
              RecvFails, SendStdin, SendStdinFails, AwaitDone, Close, wireVars
    <2>2. /\ h = "send_output" /\ conn = "up" /\ final' = held /\ sent' = sent
          /\ UNCHANGED procVars
      BY <1>1, <2>1 DEF SendOutput
    <2>3. /\ sent = written /\ \A s \in Streams : ~Writers(s)
          /\ leader = "reaped" /\ held = ReportOf(status)
      BY <2>2, AllDelivered
    <2> QED BY <2>2, <2>3 DEF procVars, Writers, Running, ReportOf
  <1>2. CASE final.kind = "exit"
    <2>1. /\ sent = written /\ \A s \in Streams : ~Writers(s)
          /\ leader = "reaped"
          /\ final = ReportOf(status) /\ final # NoFrame /\ final # Error
      BY <1>2 DEF IInv, ExitAfterAllOutput, NoFrame, Error
    <2>2. Phase = "ended" BY <2>1 DEF Phase
    <2>3. UNCHANGED <<status, written, sent, final>>
      BY <2>1, <2>2, ServiceStep
      DEF Service!Next, Service!vars, Service!Start, Service!Produce,
          Service!Deliver, Service!End, Service!ReportExit,
          Service!ReportFailure
    <2>4. e \notin {"queued", "kill_child", "reap_child", "kill"} /\ ~Waiting
      BY <1>2, <2>1 DEF IInv, ExitInv, Succeeded, ExecInv, Waiting
    <2>5. leader' = "reaped" /\ (helper' = "run" => helper = "run")
          /\ closed \subseteq closed'
      <3>1. CASE ExecNext
        BY <2>1, <2>4, <3>1 DEF ExecNext, StartCommand, SpawnFails,
           ChildExited, CancelReceived, WaitFails, SendTerm, ExitInGrace,
           GraceExpires, SendKill, ExitAfterKill, JoinStdout, JoinStderr,
           KillChild, ReapKilled, SendExit, ReportDone, Reap, ExecStep, Join,
           procVars
      <3>2. CASE CommandNext
        BY <2>1, <3>2 DEF CommandNext, CmdReads, CmdSeesEof, CmdForks,
           HelperExits, CmdWrites, CmdCloses, CmdExits
      <3>3. CASE UNCHANGED <<leader, helper, closed>> BY <2>1, <3>3
      <3> QED BY <3>1, <3>2, <3>3, ClientFrame, HandlerFrame, StdinFrame,
                 ReaderFrame DEF Next, Over, vars, procVars
    <2>6. (\A s \in Streams : ~Writers(s))'
      BY <2>1, <2>5 DEF Writers, Running
    <2> QED BY <2>1, <2>3, <2>5, <2>6 DEF ReportOf
  <1> QED BY <1>1, <1>2

(* The invariant holds when the websocket is accepted.                     *)
LEMMA InitIInv == Init => IInv
  <1> SUFFICES ASSUME Init PROVE IInv OBVIOUS
  <1> USE CapacityAssumption, BoundAssumption DEF Init, NoFrame
  <1>1. TypeOK
    <2> HIDE DEF NoFrame
    <2>1. ConnType BY DEF ConnType
    <2>2. HandlerType BY DEF HandlerType
    <2>3. ChannelType
      <3>1. events \in Seq(ExecEvents) /\ Len(events) <= ChannelCapacity
        BY EmptySeq
      <3>2. stdinCh \in Seq(1..MaxIn) /\ Len(stdinCh) <= ChannelCapacity
        BY EmptySeq
      <3> QED BY <3>1, <3>2 DEF ChannelType
    <2>4. TaskType BY DEF TaskType
    <2>5. ProcType
      <3>1. inPipe \in Seq(1..MaxIn) BY EmptySeq
      <3>2. pipe \in [Streams -> Seq(1..MaxOut)]
        <4>1. <<>> \in Seq(1..MaxOut) BY EmptySeq
        <4> QED BY <4>1
      <3>3. \A s \in Streams : Len(pipe[s]) <= PipeCapacity
        BY EmptySeq
      <3>4. written \in [Streams -> 0..MaxOut] OBVIOUS
      <3>5. /\ leader \in {"none", "run", "zombie", "reaped"}
            /\ status \in Statuses \cup {NoStatus}
            /\ helper \in {"none", "run", "dead"}
            /\ signalled \in {"none", "TERM", "KILL"}
        OBVIOUS
      <3>6. got \in 0..MaxIn OBVIOUS
      <3>7. gotEof \in BOOLEAN /\ closed \subseteq Closable BY Zenon
      <3> HIDE DEF Init
      <3> QED BY <3>1, <3>2, <3>3, <3>4, <3>5, <3>6, <3>7 DEF ProcType
    <2>6. WireType BY DEF WireType
    <2> QED BY <2>1, <2>2, <2>3, <2>4, <2>5, <2>6 DEF TypeOK
  <1>2. HoldInv /\ HandlerInv
    BY DEF HoldInv, HandlerInv, Succeeded, ExecReturned, Error
  <1>3. ExecInv BY DEF ExecInv, Waiting, Succeeded, Statuses, Streams
  <1>4. PipeInv BY DEF PipeInv, Consecutive
  <1>5. ChannelInv
    <2> SUFFICES ASSUME NEW s \in Streams PROVE StreamInv(s)
      BY DEF ChannelInv
    <2>1. Taken(s) = 0 /\ Queued(s) = 0 BY DEF Taken, Queued
    <2> QED BY <2>1, CarriesNothing DEF StreamInv
  <1>6. ExitInv /\ ExitAfterAllOutput /\ AnswerBeforeClose
    BY DEF ExitInv, ExitOnlyLast, HasExit, Succeeded, ExitAfterAllOutput,
       AnswerBeforeClose
  <1> QED BY <1>1, <1>2, <1>3, <1>4, <1>5, <1>6 DEF IInv

(* Every step of the session preserves the invariant.                      *)
LEMMA NextIInv == IInv /\ [Next]_vars => IInv'
  <1> SUFFICES ASSUME IInv, [Next]_vars PROVE IInv' OBVIOUS
  <1>1. TypeOK'
    BY ConnTypeStep, HandlerTypeStep, ChannelTypeStep, TaskTypeStep,
       ProcTypeStep, WireTypeStep DEF TypeOK
  <1> QED BY <1>1, HoldInvStep, ExecInvStep, HandlerInvStep, PipeInvStep,
             ChannelInvStep, ExitInvStep, ExitAfterAllOutputStep,
             AnswerBeforeCloseStep DEF IInv

-----------------------------------------------------------------------------
(* The invariant holds of every session: the chunks of each stream are     *)
(* accounted for at every await of every task, and the tasks are at awaits *)
(* that fit each other.                                                    *)
THEOREM Invariance == Spec => []IInv
  <1>1. Init => IInv BY InitIInv
  <1>2. IInv /\ [Next]_vars => IInv' BY NextIInv
  <1> QED BY <1>1, <1>2, PTL DEF Spec

(* The state of the session is well typed, and no channel, pipe or socket  *)
(* ever holds more than its capacity.                                      *)
THEOREM TypeCorrect == Spec => []TypeOK
  <1>1. IInv => TypeOK BY DEF IInv
  <1> QED BY <1>1, Invariance, PTL

(* execute_command joins both readers before it sends Exit: an Exit frame  *)
(* on the wire follows every chunk, and carries the status of the child.   *)
THEOREM ExitComesLast == Spec => []ExitAfterAllOutput
  <1>1. IInv => ExitAfterAllOutput BY DEF IInv
  <1> QED BY <1>1, Invariance, PTL

(* handle_ws closes a connection that is up only after an Exit or an Error.*)
THEOREM AlwaysAnswers == Spec => []AnswerBeforeClose
  <1>1. IInv => AnswerBeforeClose BY DEF IInv
  <1> QED BY <1>1, Invariance, PTL

(* handle_ws returns while a command runs only when it has fired cancel_tx,*)
(* and server_actor fires done_tx only once the command has ended.         *)
THEOREM NothingAbandoned == Spec => []NoAbandonedCommand
  <1>1. IInv => NoAbandonedCommand
    BY DEF IInv, ExecInv, HandlerInv, Waiting, NoAbandonedCommand
  <1> QED BY <1>1, Invariance, PTL

(* terminate_child signals the group of a child it has not reaped.         *)
THEOREM SignalsOwnChild == Spec => NoSignalAfterReap
  <1>1. IInv /\ [Next]_vars
          => [(e \in {"term", "kill"} /\ e' # e)
                => leader \in {"run", "zombie"}]_vars
    BY DEF IInv, ExecInv, Waiting
  <1> QED BY <1>1, Invariance, PTL DEF Spec, NoSignalAfterReap

(* The session implements the abstract service: the output of one run of   *)
(* one command, in order, then at most one report, true to the command.    *)
THEOREM Refinement == Spec => ImplementsService
  <1>1. Init => Service!Init
    BY DEF Init, Service!Init, Phase
  <1>2. IInv /\ [Next]_vars => [Service!Next]_(Service!vars)
    BY ServiceStep
  <1> QED BY <1>1, <1>2, Invariance, PTL
          DEF Spec, ImplementsService, Service!Spec

(* An output frame put on the wire carries the chunk that follows the last *)
(* one of its stream.                                                      *)
LEMMA NextChunkStep ==
    ASSUME IInv, [Next]_vars, NEW s \in Streams, NEW n \in 1..MaxOut
    PROVE  NextChunk(s, n)
  <1> DEFINE m == Output(s, n)
  <1> SUFFICES ASSUME outbox' = Append(outbox, m) PROVE n = sent[s] + 1
    BY DEF NextChunk
  <1>1. outbox \in Seq(ServerFrames) BY DEF IInv, TypeOK, ConnType
  <1>2. m \in ServerFrames BY DEF ServerFrames, ExecEvents, OutputFrames
  <1>3. m.kind = "output" /\ m.stream = s /\ m.n = n BY DEF Output
  <1> HIDE DEF m
  <1>4. Len(outbox) \in Nat /\ Len(outbox') = Len(outbox) + 1
    BY <1>1, <1>2, AppendProperties, LenProperties
  <1>5. outbox' # outbox BY <1>4
  <1>6. CASE ClientNext
    <2>1. outbox' # <<>> BY <1>1, <1>2, AppendProperties
    <2>2. CASE outbox # <<>> /\ outbox' = Tail(outbox)
      <3>1. Len(outbox') = Len(outbox) - 1
        BY <1>1, <2>2, HeadTailProperties
      <3> QED BY <1>4, <3>1
    <2>3. CASE outbox' \in Prefixes(outbox)
      <3>1. Len(outbox') <= Len(outbox) BY <1>1, <2>3, PrefixElements
      <3> QED BY <1>4, <3>1
    <2> QED BY <1>5, <1>6, <2>1, <2>2, <2>3
        DEF ClientNext, ClientSend, ClientRead, ConnBreaks
  <1>7. CASE SendOutput
    <2>1. /\ h = "send_output" /\ conn = "up" /\ held \in ServerFrames
          /\ outbox' = Append(outbox, held)
      BY <1>7 DEF SendOutput, IInv, HoldInv, ServerFrames
    <2>2. Append(outbox, held) = Append(outbox, m) BY <2>1
    <2>4. held \in ServerFrames BY <2>1
    <2>5. held = m BY ONLY <1>1, <1>2, <2>2, <2>4, AppendSame
    <2>3. StreamInv(s) /\ IsChunk(held, s)
      BY <1>3, <2>1, <2>5 DEF IInv, ChannelInv, IsChunk, Streams
    <2> QED BY <1>3, <2>1, <2>5, <2>3 DEF StreamInv
  <1>8. CASE SendError
    <2>1. outbox' = Append(outbox, Error)
      BY <1>5, <1>8 DEF SendError
    <2>2. Error \in ServerFrames BY DEF ServerFrames
    <2>3. Append(outbox, Error) = Append(outbox, m) BY <2>1
    <2>4. Error = m BY <1>1, <1>2, <2>2, <2>3, AppendSame
    <2> QED BY <1>3, <2>4 DEF Error
  <1>9. CASE Close
    <2>1. outbox' = Append(outbox, Control("close"))
      BY <1>5, <1>9 DEF Close
    <2>2. Control("close") \in ServerFrames BY DEF ServerFrames
    <2>3. Append(outbox, Control("close")) = Append(outbox, m) BY <2>1
    <2>4. Control("close") = m BY <1>1, <1>2, <2>2, <2>3, AppendSame
    <2> QED BY <1>3, <2>4 DEF Control
  <1>10. CASE HandlerNext
    BY <1>5, <1>7, <1>8, <1>9, <1>10 DEF HandlerNext, WsHandler, AwaitExec,
       AwaitExecFails, RecvEvent, EventsClosed, SendOutputLost,
       SendOutputFails, RecvFrame, RecvFails, SendStdin, SendStdinFails,
       AwaitDone, connVars
  <1> QED BY <1>5, <1>6, <1>10, ExecFrame, StdinFrame, ReaderFrame,
             CommandFrame DEF Next, Over, vars, connVars

(* Each stream is put on the wire chunk by chunk.                          *)
THEOREM OutputOrdered == Spec => OutputInOrder
  <1>1. IInv /\ [Next]_vars
          => [\A s \in Streams : \A n \in 1..MaxOut : NextChunk(s, n)]_vars
    BY NextChunkStep
  <1> QED BY <1>1, Invariance, PTL DEF Spec, OutputInOrder

(* Nothing follows the Exit or the Error frame.                            *)
THEOREM TerminalFrame == Spec => TerminalFrameIsLast
  <1>1. IInv /\ [Next]_vars => [final # NoFrame => UNCHANGED wireVars]_vars
    BY ServiceStep DEF wireVars, Service!Next, Service!vars, Service!Start,
       Service!Produce, Service!Deliver, Service!End, Service!ReportExit,
       Service!ReportFailure
  <1> QED BY <1>1, Invariance, PTL DEF Spec, TerminalFrameIsLast

(* Back pressure reaches the command: what was written and not sent is in  *)
(* the pipe, held by the reader, in the channel or held by the handler.    *)
LEMMA BoundedInFlight == IInv => OutputInFlightBounded
  <1> SUFFICES ASSUME IInv, conn = "up", h # "done", NEW s \in Streams,
                      rd[s] # "failed"
               PROVE  written[s] - sent[s] <= PipeCapacity + ChannelCapacity + 2
    BY DEF OutputInFlightBounded
  <1>1. /\ PipeCapacity \in Nat /\ ChannelCapacity \in Nat
        /\ sent[s] \in Nat /\ rdHeld[s] \in Nat /\ written[s] \in Nat
    BY BoundAssumption, CapacityAssumption DEF IInv, TypeOK, WireType, TaskType, ProcType
  <1>2. /\ rdHeld[s] + Len(pipe[s]) = written[s]
        /\ Len(pipe[s]) \in Nat /\ Len(pipe[s]) <= PipeCapacity
    BY LenProperties DEF IInv, TypeOK, TaskType, ProcType, PipeInv
  <1>3. Taken(s) \in Nat /\ Queued(s) \in Nat BY TakenQueued
  <1>4. /\ StreamInv(s) /\ events \in Seq(ExecEvents)
        /\ Len(events) <= ChannelCapacity
    BY DEF IInv, TypeOK, ChannelType, ChannelInv
  <1>5. Queued(s) - Taken(s) <= Len(events) /\ Len(events) \in Nat
    BY <1>3, <1>4, CarriesLength, LenProperties DEF StreamInv
  <1>6. Taken(s) <= sent[s] + 1 BY <1>1, <1>4 DEF StreamInv, Taken
  <1>7. rdHeld[s] <= Queued(s) + 1 BY <1>1 DEF Queued
  <1>8. written[s] <= (Queued(s) + 1) + PipeCapacity
    BY <1>1, <1>2, <1>3, <1>7
  <1>9. Queued(s) <= (sent[s] + 1) + ChannelCapacity
    BY <1>1, <1>3, <1>4, <1>5, <1>6
  <1> QED BY <1>1, <1>3, <1>8, <1>9

(* However slowly the client reads, of each stream only so much is between *)
(* the command and the socket as its pipe, the channel and the two tasks   *)
(* hold.                                                                   *)
THEOREM BackPressure == Spec => []OutputInFlightBounded
  BY Invariance, BoundedInFlight, PTL
=============================================================================
