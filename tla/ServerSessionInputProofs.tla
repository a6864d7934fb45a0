---------------------- MODULE ServerSessionInputProofs ----------------------
(***************************************************************************)
(* Theorems about the stdin of a command, for every value of the constants *)
(* of ServerSession.                                                       *)
(***************************************************************************)
EXTENDS ServerSessionProofs

-----------------------------------------------------------------------------
(* What has left each place of the way in is a number of chunks.           *)
LEMMA InputCounts ==
    ASSUME IInv
    PROVE  /\ got \in Nat /\ fed \in Nat
           /\ inPipe \in Seq(1..MaxIn) /\ Len(inPipe) \in Nat
           /\ stdinCh \in Seq(1..MaxIn) /\ Len(stdinCh) \in Nat
           /\ Fetched \in Nat /\ Handed \in Nat /\ Read \in Nat
  <1>1. /\ got \in Nat /\ fed \in Nat
        /\ inPipe \in Seq(1..MaxIn) /\ Len(inPipe) \in Nat
        /\ stdinCh \in Seq(1..MaxIn) /\ Len(stdinCh) \in Nat
    BY BoundAssumption, LenProperties
    DEF IInv, TypeOK, ConnType, ChannelType, ProcType
  <1> QED BY <1>1 DEF Fetched, Handed, Read

(* The tasks and the pipe start empty, and a pipe nobody reads is emptied. *)
LEMMA InputStateStep ==
    ASSUME IInv, InputInv, [Next]_vars PROVE InputStateInv'
  <1> USE DEF IInv, InputInv, InputStateInv
  <1>1. CASE ClientNext
    BY <1>1, ClientFrame
    DEF handlerVars, channelVars, taskVars, procVars, TakesStdin
  <1>2. CASE HandlerNext
    <2> UNCHANGED <<st, procVars>> BY <1>2, HandlerFrame
    <2> USE DEF TakesStdin
    <2>1. CASE AwaitExec BY <2>1 DEF AwaitExec, HandlerInv, channelVars, procVars
    <2>2. CASE RecvFrame BY <2>2 DEF RecvFrame, taskVars, procVars
    <2>3. CASE SendStdin BY <2>3 DEF SendStdin, HandlerInv, taskVars, procVars
    <2>4. CASE h' # "send_stdin" /\ UNCHANGED <<stdinCh, e>>
      BY <2>4 DEF procVars
    <2> QED BY <1>2, <2>1, <2>2, <2>3, <2>4
        DEF HandlerNext, WsHandler, AwaitExecFails, RecvEvent, EventsClosed,
            SendOutput, SendOutputLost, SendOutputFails, RecvFails,
            SendStdinFails, AwaitDone, SendError, Close, channelVars, taskVars
  <1>3. CASE ExecNext
    <2>1. UNCHANGED <<h, stdinTx, got>> /\ e \notin {"none", "finished"}
      BY <1>3, ExecFrame
      DEF handlerVars, ExecNext, StartCommand, SpawnFails, ChildExited,
          CancelReceived, WaitFails, SendTerm, ExitInGrace, GraceExpires,
          SendKill, ExitAfterKill, JoinStdout, JoinStderr, KillChild,
          ReapKilled, SendExit, ReportDone, Reap, ExecStep, Join
    <2>2. e' \notin {"none", "queued"} /\ (leader' = "none" => leader = "none")
      BY <1>3
      DEF ExecNext, StartCommand, SpawnFails, ChildExited, CancelReceived,
          WaitFails, SendTerm, ExitInGrace, GraceExpires, SendKill,
          ExitAfterKill, JoinStdout, JoinStderr, KillChild, ReapKilled,
          SendExit, ReportDone, Reap, ExecStep, Join, KillLeader, procVars
    <2>3. closed' = closed /\ (~TakesStdin' => inPipe' = <<>>)
      BY <1>3, ExecFrame
      DEF ExecNext, StartCommand, SpawnFails, ChildExited, CancelReceived,
          WaitFails, SendTerm, ExitInGrace, GraceExpires, SendKill,
          ExitAfterKill, JoinStdout, JoinStderr, KillChild, ReapKilled,
          SendExit, ReportDone, Reap, ExecStep, Join, KillLeader, procVars, TakesStdin
    <2> QED BY <2>1, <2>2, <2>3
  <1>4. CASE StdinNext
    <2> UNCHANGED <<handlerVars, e, leader, got, closed>> BY <1>4, StdinFrame
    <2>1. st # "none" /\ (inPipe' = inPipe \/ TakesStdin)
      BY <1>4 DEF StdinNext, StdinRecv, StdinWrite, StdinEnd,
         StdinWriteFails, StdinAborted, StdinGone, procVars
    <2> QED BY <2>1 DEF handlerVars, TakesStdin
  <1>5. ASSUME NEW s \in Streams, ReaderNext(s) PROVE InputStateInv'
    BY <1>5, ReaderFrame DEF handlerVars, TakesStdin
  <1>6. CASE CommandNext
    <2> UNCHANGED <<handlerVars, channelVars, taskVars>>
      BY <1>6, CommandFrame
    <2>1. /\ ~TakesStdin' => inPipe' = <<>>
          /\ leader' = "none" => leader = "none" /\ UNCHANGED <<got, closed>>
      BY <1>6 DEF TakesStdin, Running, IInv, ExecInv, CommandNext, CmdReads, CmdSeesEof, CmdWrites, CmdForks,
         CmdExits, HelperExits, CmdCloses
    <2> QED BY <2>1 DEF handlerVars, channelVars, taskVars
  <1>7. CASE UNCHANGED vars
    BY <1>7
    DEF vars, handlerVars, channelVars, taskVars, procVars, TakesStdin
  <1> QED BY <1>1, <1>2, <1>3, <1>4, <1>5, <1>6, <1>7 DEF Next, Over

(* A client sends no stdin after what ends it.                             *)
LEMMA EndLastStep == ASSUME IInv, InputInv, [Next]_vars PROVE EndLast'
  <1> inbox \in Seq(ClientMessages) /\ Len(inbox) \in Nat
    BY LenProperties DEF IInv, TypeOK, ConnType
  <1> USE DEF InputInv, EndLast
  <1>1. ASSUME NEW m \in ClientMessages, ClientSend(m) PROVE EndLast'
    <2>1. /\ inbox' = Append(inbox, m) /\ said \subseteq said'
          /\ m.kind = "stdin" => \A k \in {"eof", "close"} : Control(k) \notin said
          /\ m.kind # "stdin" => m \in said'
      BY <1>1 DEF ClientSend
    <2>2. Ends(m) => m = Control(m.kind)
      BY DEF Ends, ClientMessages, Exec, StdinFrames, Stdin, Control
    <2>3. /\ Len(inbox') = Len(inbox) + 1 /\ inbox'[Len(inbox) + 1] = m
          /\ \A i \in 1..Len(inbox) : inbox'[i] = inbox[i]
      BY <2>1, AppendProperties
    <2> SUFFICES ASSUME NEW i \in 1..Len(inbox'), Ends(inbox'[i])
                 PROVE  /\ Control(inbox'[i].kind) \in said'
                        /\ \A j \in 1..Len(inbox') :
                             i < j => inbox'[j].kind # "stdin"
      OBVIOUS
    <2>4. CASE i = Len(inbox) + 1
      BY <2>1, <2>2, <2>3, <2>4 DEF Ends
    <2>5. CASE i \in 1..Len(inbox)
      <3>1. Control(inbox[i].kind) \in said /\ inbox[i].kind \in {"eof", "close"}
        BY <2>3, <2>5 DEF Ends
      <3>2. ASSUME NEW j \in 1..Len(inbox'), i < j
            PROVE  inbox'[j].kind # "stdin"
        <4>1. CASE j \in 1..Len(inbox) BY <2>3, <2>5, <3>2, <4>1
        <4>2. CASE j = Len(inbox) + 1 BY <2>1, <2>3, <3>1, <4>2
        <4> QED BY <2>3, <4>1, <4>2
      <3> QED BY <2>1, <2>3, <2>5, <3>1, <3>2
    <2> QED BY <2>3, <2>4, <2>5
  <1>2. CASE UNCHANGED said /\ inbox # <<>> /\ inbox' = Tail(inbox)
    <2>1. /\ Len(inbox') = Len(inbox) - 1
          /\ \A i \in 1..Len(inbox') : inbox'[i] = inbox[i + 1]
      BY <1>2, HeadTailProperties
    <2>2. \A i \in 1..Len(inbox') : i + 1 \in 1..Len(inbox) BY <2>1
    <2>3. \A i, j \in 1..Len(inbox') : i < j => i + 1 < j + 1 BY <2>1
    <2> QED BY <1>2, <2>1, <2>2, <2>3
  <1>3. CASE UNCHANGED said /\ inbox' \in Prefixes(inbox)
    <2>1. \A i \in 1..Len(inbox') : i \in 1..Len(inbox) /\ inbox'[i] = inbox[i]
      BY <1>3, PrefixElements
    <2> QED BY <1>3, <2>1
  <1>4. CASE UNCHANGED <<said, inbox>> BY <1>4
  <1>5. CASE HandlerNext
    BY <1>2, <1>4, <1>5
    DEF HandlerNext, WsHandler, AwaitExec, AwaitExecFails, RecvEvent,
        EventsClosed, SendOutput, SendOutputLost, SendOutputFails, RecvFrame,
        RecvFails, SendStdin, SendStdinFails, AwaitDone, SendError, Close,
        connVars
  <1> QED BY <1>1, <1>3, <1>4, <1>5, ExecFrame, StdinFrame, ReaderFrame,
             CommandFrame
          DEF Next, Over, vars, ClientNext, ClientRead, ConnBreaks, connVars

(* What the command reads follows what it has read.                        *)
LEMMA StdinInOrderStep ==
    ASSUME IInv, InputInv, [Next]_vars PROVE StdinInOrder'
  <1> Consecutive(inPipe, got)
    BY DEF InputInv, StdinInOrder, Consecutive
  <1>1. inPipe \in Seq(1..MaxIn) /\ Len(inPipe) \in Nat /\ got \in Nat
    BY InputCounts
  <1> SUFFICES Consecutive(inPipe, got)'
    BY DEF StdinInOrder, Consecutive
  <1>2. CASE StdinWrite
    <2>1. /\ st = "write" /\ TakesStdin /\ got' = got
          /\ inPipe' = Append(inPipe, stHeld)
      BY <1>2, StdinFrame DEF StdinWrite
    <2>2. stHeld = got + Len(inPipe) + 1
      BY <2>1 DEF InputInv, Flowing, FlowInv
    <2>3. stHeld \in 1..MaxIn BY <2>1 DEF IInv, HoldInv
    <2>4. stHeld = got + (Len(inPipe) + 1) BY <1>1, <2>2
    <2> QED BY <1>1, <2>1, <2>3, <2>4, AppendConsecutive
  <1>3. CASE CmdReads
    <2>1. inPipe # <<>> /\ got' = Head(inPipe) /\ inPipe' = Tail(inPipe)
      BY <1>3 DEF CmdReads
    <2>2. Head(inPipe) = got + 1
      <3>1. Len(inPipe) \in Nat \ {0} /\ Head(inPipe) = inPipe[1]
        BY <1>1, <2>1, LenProperties, HeadTailProperties
      <3> QED BY <3>1 DEF Consecutive
    <2> QED BY <1>1, <2>1, <2>2, TailConsecutive
  <1>4. CASE inPipe' = <<>>
    BY <1>4, EmptySeq DEF Consecutive
  <1>5. CASE UNCHANGED <<inPipe, got>> BY <1>5
  <1>6. CASE ExecNext
    BY <1>4, <1>5, <1>6, ExecFrame
    DEF ExecNext, StartCommand, SpawnFails, ChildExited, CancelReceived,
        WaitFails, SendTerm, ExitInGrace, GraceExpires, SendKill,
        ExitAfterKill, JoinStdout, JoinStderr, KillChild, ReapKilled, SendExit,
        ReportDone, Reap, ExecStep, Join, KillLeader, procVars
  <1>7. CASE StdinNext
    BY <1>2, <1>5, <1>7
    DEF StdinNext, StdinRecv, StdinEnd, StdinWriteFails, StdinAborted,
        StdinGone, procVars
  <1>8. CASE CommandNext
    BY <1>3, <1>4, <1>5, <1>8
    DEF CommandNext, CmdSeesEof, CmdWrites, CmdForks, CmdExits, HelperExits,
        CmdCloses
  <1> QED BY <1>5, <1>6, <1>7, <1>8, ClientFrame, HandlerFrame, ReaderFrame
          DEF Next, Over, vars, procVars

-----------------------------------------------------------------------------
(* Chunks on their way. No step sets them flowing again.                   *)
LEMMA FlowingBack ==
    ASSUME IInv, InputInv, [Next]_vars, Flowing'
    PROVE  Flowing
  <1> USE DEF IInv, InputInv, InputStateInv, Flowing, TakesStdin
  <1>1. CASE HandlerNext
    <2> UNCHANGED <<st, leader, closed>> BY <1>1, HandlerFrame DEF procVars
    <2>1. CASE AwaitExec
      BY <2>1 DEF AwaitExec, HandlerInv
    <2>2. CASE WsHandler BY <2>2 DEF WsHandler, HandlerInv, taskVars
    <2>3. CASE e' = e /\ (h' \in {"upgrade", "await_exec"}
                            => h \in {"upgrade", "await_exec"})
      BY <2>3
    <2> QED BY <1>1, <2>1, <2>2, <2>3
        DEF HandlerNext, AwaitExecFails, RecvEvent, EventsClosed, SendOutput,
            SendOutputLost, SendOutputFails, RecvFrame, RecvFails, SendStdin,
            SendStdinFails, AwaitDone, SendError, Close, taskVars
  <1>2. CASE ExecNext
    <2>1. /\ e \notin {"none", "finished"} /\ e' \notin {"none", "queued"}
          /\ \/ e = "queued"
             \/ st' = st /\ closed' = closed
                /\ (leader' = "run" => leader = "run")
      BY <1>2
      DEF ExecNext, StartCommand, SpawnFails, ChildExited, CancelReceived,
          WaitFails, SendTerm, ExitInGrace, GraceExpires, SendKill,
          ExitAfterKill, JoinStdout, JoinStderr, KillChild, ReapKilled,
          SendExit, ReportDone, Reap, ExecStep, Join, KillLeader, procVars
    <2>2. st' \in {"recv", "write"} /\ TakesStdin' BY <2>1
    <2> QED BY <2>1, <2>2
  <1>3. CASE StdinNext
    <2>1. st \in {"recv", "write"} /\ UNCHANGED <<h, e, leader, closed>>
      BY <1>3, StdinFrame
      DEF StdinNext, StdinRecv, StdinWrite, StdinEnd, StdinWriteFails,
          StdinAborted, handlerVars
    <2> QED BY <2>1
  <1>4. CASE CommandNext
    <2>1. /\ UNCHANGED <<h, e, st>> /\ (leader' = "run" => leader = "run")
          /\ closed \subseteq closed'
      BY <1>4, CommandFrame
      DEF CommandNext, CmdReads, CmdSeesEof, CmdWrites, CmdForks, CmdExits,
          HelperExits, CmdCloses, handlerVars, taskVars
    <2> QED BY <2>1
  <1>5. CASE UNCHANGED <<h, e, st, leader, closed>> BY <1>5
  <1> QED BY <1>1, <1>2, <1>3, <1>4, <1>5, ClientFrame, ReaderFrame
          DEF Next, Over, vars, handlerVars, taskVars, procVars

(* A client that sends has its chunks numbered, and ends them once.        *)
LEMMA FlowClient ==
    ASSUME IInv, InputInv, ClientNext, Flowing
    PROVE  FlowInv'
  <1>1. /\ UNCHANGED <<h, held, stdinTx, stdinCh, st, stHeld, got, inPipe>>
        /\ Fetched' = Fetched /\ Handed' = Handed /\ Read' = Read
    BY ClientFrame
    DEF handlerVars, channelVars, taskVars, procVars, Fetched, Handed, Read
  <1>2. FlowInv BY DEF InputInv
  <1>3. ASSUME NEW m \in ClientMessages, ClientSend(m) PROVE FlowInv'
    <2>1. /\ conn = "up" /\ inbox' = Append(inbox, m) /\ conn' = conn
          /\ said \subseteq said'
          /\ m.kind = "stdin" =>
               m.n = fed + 1 /\ fed' = fed + 1 /\ Control("eof") \notin said
          /\ m.kind # "stdin" => fed' = fed
      BY <1>3 DEF ClientSend
    <2>2. inbox \in Seq(ClientMessages) /\ Read \in Nat /\ fed \in Nat
      BY InputCounts DEF IInv, TypeOK, ConnType
    <2>3. Read <= fed /\ Carries(inbox, "stdin", Read, fed)
      BY <1>2, <2>1 DEF FlowInv
    <2>4. IsChunk(m, "stdin") <=> m.kind = "stdin" BY DEF IsChunk
    <2>5. /\ ~IsChunk(m, "stdin") => Carries(inbox', "stdin", Read, fed)
          /\ IsChunk(m, "stdin") /\ m.n = fed + 1
               => Carries(inbox', "stdin", Read, fed + 1)
      BY ONLY <1>3, <2>1, <2>2, <2>3, CarriesAppend
    <2>6. /\ fed' \in Nat /\ Read <= fed'
          /\ Carries(inbox', "stdin", Read, fed')
      BY <2>1, <2>2, <2>3, <2>4, <2>5
    <2>8. Begins(inbox', "stdin", Read, fed')
      BY ONLY <2>2, <2>6, CarriesBegins
    <2>7. h \notin {"upgrade", "await_exec", "done"} /\ ~stdinTx
            => Control("eof") \in said' /\ Read = fed'
      BY <1>2, <2>1 DEF FlowInv
    <2> QED BY <1>1, <1>2, <2>6, <2>7, <2>8 DEF FlowInv
  <1>4. CASE ConnBreaks
    <2>1. /\ conn = "up" /\ conn' = "broken" /\ inbox' \in Prefixes(inbox)
          /\ UNCHANGED <<said, fed>>
      BY <1>4 DEF ConnBreaks
    <2>2. inbox \in Seq(ClientMessages) /\ Read \in Nat /\ fed \in Nat
      BY InputCounts DEF IInv, TypeOK, ConnType
    <2>3. Begins(inbox, "stdin", Read, fed) /\ Carries(inbox, "stdin", Read, fed)
      BY <1>2, <2>1 DEF FlowInv
    <2>4. Begins(inbox', "stdin", Read, fed)
      BY ONLY <2>1, <2>2, <2>3, BeginsPrefix
    <2>5. ASSUME HasEnd(inbox') PROVE Carries(inbox', "stdin", Read, fed)
      <3>1. PICK x \in 1..Len(inbox') : Ends(inbox'[x])
        BY <2>5 DEF HasEnd
      <3>2. x \in 1..Len(inbox) /\ Ends(inbox[x])
        BY <2>1, <2>2, <3>1, PrefixElements
      <3>3. \A j \in 1..Len(inbox) : x < j => ~IsChunk(inbox[j], "stdin")
        BY <3>2 DEF InputInv, EndLast, IsChunk
      <3> QED BY ONLY <2>1, <2>2, <2>3, <3>3, CarriesPrefix
    <2> QED BY <1>1, <1>2, <2>1, <2>4, <2>5 DEF FlowInv
  <1>5. CASE ClientRead
    <2>1. UNCHANGED <<conn, inbox, said, fed>> BY <1>5 DEF ClientRead
    <2> QED BY <1>1, <1>2, <2>1 DEF FlowInv
  <1> QED BY <1>3, <1>4, <1>5 DEF ClientNext

(* A step that moves no chunk and does not let go of stdin_tx.             *)
LEMMA FlowStays ==
    ASSUME InputInv, Flowing,
           UNCHANGED <<conn, inbox, said, fed, stdinCh, st, stHeld, got, inPipe>>,
           h # "send_stdin", h' # "send_stdin",
           \/ h' = "done"
           \/ /\ stdinTx' = stdinTx /\ h # "done"
              /\ h \in {"upgrade", "await_exec"} =>
                   h' \in {"upgrade", "await_exec"}
    PROVE  FlowInv'
  BY DEF InputInv, FlowInv, Fetched, Handed, Read

(* What is in the socket once its first message was taken.                 *)
Follows(q, a) ==
    /\ Begins(q, "stdin", a, fed)
    /\ conn # "broken" \/ HasEnd(inbox) => Carries(q, "stdin", a, fed)
    /\ HasEnd(q) => HasEnd(inbox)

LEMMA SocketTail ==
    ASSUME IInv, FlowInv, inbox # <<>>
    PROVE  IF Head(inbox).kind = "stdin"
             THEN /\ Head(inbox).n = Read + 1 /\ Read + 1 <= fed
                  /\ Follows(Tail(inbox), Read + 1)
             ELSE Follows(Tail(inbox), Read)
  <1>1. inbox \in Seq(ClientMessages) /\ Read \in Nat /\ fed \in Nat
    BY InputCounts DEF IInv, TypeOK, ConnType
  <1>2. Begins(inbox, "stdin", Read, fed) BY DEF FlowInv
  <1>3. IF Head(inbox).kind = "stdin"
          THEN /\ Head(inbox).n = Read + 1 /\ Read + 1 <= fed
               /\ Begins(Tail(inbox), "stdin", Read + 1, fed)
          ELSE Begins(Tail(inbox), "stdin", Read, fed)
    BY ONLY <1>1, <1>2, inbox # <<>>, BeginsTail DEF IsChunk
  <1>4. ASSUME conn # "broken" \/ HasEnd(inbox)
        PROVE  IF Head(inbox).kind = "stdin"
                 THEN Carries(Tail(inbox), "stdin", Read + 1, fed)
                 ELSE Carries(Tail(inbox), "stdin", Read, fed)
    <2>1. Carries(inbox, "stdin", Read, fed) BY <1>4 DEF FlowInv
    <2> QED BY ONLY <1>1, <2>1, inbox # <<>>, CarriesTail DEF IsChunk
  <1>5. HasEnd(Tail(inbox)) => HasEnd(inbox)
    <2>1. /\ Len(inbox) \in Nat /\ Len(Tail(inbox)) = Len(inbox) - 1
          /\ \A i \in 1..Len(Tail(inbox)) : Tail(inbox)[i] = inbox[i + 1]
      BY <1>1, LenProperties, HeadTailProperties
    <2>2. \A i \in 1..Len(Tail(inbox)) : i + 1 \in 1..Len(inbox) BY <2>1
    <2> QED BY <2>1, <2>2 DEF HasEnd
  <1> QED BY <1>3, <1>4, <1>5 DEF Follows

(* The handler takes a message of the client.                              *)
LEMMA FlowRecvFrame ==
    ASSUME IInv, InputInv, RecvFrame, Flowing
    PROVE  FlowInv'
  <1> DEFINE m == Head(inbox)
  <1>1. /\ h = "loop" /\ inbox # <<>> /\ inbox' = Tail(inbox)
        /\ UNCHANGED <<said, fed, stdinCh, st, stHeld, got, inPipe>>
        /\ IF m.kind = "stdin" /\ stdinTx
             THEN h' = "send_stdin" /\ held' = m ELSE h' = "loop"
        /\ stdinTx' <=> stdinTx /\ m.kind # "eof"
        /\ conn' = conn \/ m.kind = "close"
    BY DEF RecvFrame, taskVars, procVars
  <1>2. inbox \in Seq(ClientMessages) /\ Read \in Nat /\ fed \in Nat
        /\ Handed \in Nat
    BY InputCounts DEF IInv, TypeOK, ConnType
  <1>3. FlowInv /\ Read <= fed /\ Read = Handed
    BY <1>1, <1>2 DEF InputInv, FlowInv, Read
  <1>4. IF m.kind = "stdin"
          THEN /\ m.n = Read + 1 /\ Read + 1 <= fed
               /\ Follows(inbox', Read + 1)
          ELSE Follows(inbox', Read)
    BY <1>1, <1>3, SocketTail
  <1>5. m.kind = "stdin" => stdinTx
    <2> SUFFICES ASSUME m.kind = "stdin", ~stdinTx PROVE FALSE OBVIOUS
    <2>1. Read = fed BY <1>1, <1>3 DEF FlowInv
    <2> QED BY <1>2, <1>4, <2>1
  <1>10. Len(inbox) \in Nat \ {0} /\ m = inbox[1]
    BY <1>1, <1>2, LenProperties, HeadTailProperties
  <1>11. Ends(m) => HasEnd(inbox) BY <1>10 DEF HasEnd
  <1>12. conn' # "broken" => conn # "broken" \/ HasEnd(inbox)
    BY <1>1, <1>11 DEF Ends
  <1>6. m.kind = "eof" => Control("eof") \in said /\ Read = fed
    <2> SUFFICES ASSUME m.kind = "eof"
                 PROVE  Control("eof") \in said /\ Read = fed
      OBVIOUS
    <2>2. /\ Control("eof") \in said
          /\ \A j \in 1..Len(inbox) : 1 < j => inbox[j].kind # "stdin"
      BY <1>10 DEF InputInv, EndLast, Ends
    <2>3. \A j \in 1..Len(inbox) : inbox[j].kind # "stdin" BY <1>10, <2>2
    <2>4. ~(Read < fed)
      <3> SUFFICES ASSUME Read < fed PROVE FALSE OBVIOUS
      <3>1. Read + 1 \in Read + 1 .. fed BY <1>2
      <3>3. Carries(inbox, "stdin", Read, fed)
        BY <1>3, <1>11 DEF FlowInv, Ends
      <3> QED BY <2>3, <3>1, <3>3 DEF Carries, IsChunk
    <2> QED BY <1>2, <1>3, <2>2, <2>4
  <1> HIDE DEF m
  <1>7. Fetched' = Fetched /\ Handed' = Handed
    BY <1>1 DEF Fetched, Handed
  <1>8. CASE m.kind = "stdin"
    <2>1. h' = "send_stdin" /\ held' = m /\ stdinTx' BY <1>1, <1>5, <1>8
    <2>2. Read' = Read + 1 BY <1>2, <1>3, <1>7, <2>1 DEF Read
    <2> QED BY <1>1, <1>3, <1>4, <1>7, <1>8, <1>12, <2>1, <2>2
        DEF FlowInv, Follows
  <1>9. CASE m.kind # "stdin"
    <2>1. h' = "loop" BY <1>1, <1>9
    <2>2. Read' = Read BY <1>2, <1>3, <1>7, <2>1 DEF Read
    <2>3. ~stdinTx' => Control("eof") \in said /\ Read = fed
      BY <1>1, <1>3, <1>6 DEF FlowInv
    <2> QED BY <1>1, <1>3, <1>4, <1>7, <1>9, <1>12, <2>1, <2>2,
           <2>3 DEF FlowInv, Follows
  <1> QED BY <1>8, <1>9

(* The handler puts the chunk it holds into the channel.                   *)
LEMMA FlowSendStdin ==
    ASSUME IInv, InputInv, SendStdin, Flowing
    PROVE  FlowInv'
  <1>1. /\ h = "send_stdin" /\ h' = "loop" /\ stdinCh' = Append(stdinCh, held.n)
        /\ UNCHANGED <<conn, inbox, said, fed, stdinTx, st, stHeld, got, inPipe>>
    BY DEF SendStdin, connVars, taskVars, procVars
  <1>2. /\ FlowInv /\ stdinTx /\ held.n = Handed + 1
        /\ Consecutive(stdinCh, Fetched)
    BY <1>1 DEF InputInv, InputStateInv, FlowInv
  <1>3. held.n \in 1..MaxIn
    BY <1>1 DEF IInv, HoldInv, StdinFrames, Stdin
  <1>4. /\ stdinCh \in Seq(1..MaxIn) /\ Len(stdinCh) \in Nat
        /\ Fetched \in Nat /\ Handed \in Nat
    BY InputCounts
  <1>5. held.n = Fetched + (Len(stdinCh) + 1)
    BY <1>2, <1>4 DEF Handed
  <1>6. /\ Len(stdinCh') = Len(stdinCh) + 1 /\ Consecutive(stdinCh', Fetched)
    BY <1>1, <1>2, <1>3, <1>4, <1>5, AppendConsecutive
  <1>7. Fetched' = Fetched BY <1>1 DEF Fetched
  <1>8. Handed' = Handed + 1 BY <1>4, <1>6, <1>7 DEF Handed
  <1>9. Read' = Read BY <1>1, <1>4, <1>8 DEF Read
  <1> QED BY <1>1, <1>2, <1>6, <1>7, <1>9 DEF FlowInv

(* The handler, on the way in.                                             *)
LEMMA FlowHandler ==
    ASSUME IInv, InputInv, HandlerNext, Flowing, Flowing'
    PROVE  FlowInv'
  <1> UNCHANGED <<said, fed, st, stHeld, got, inPipe, leader>>
    BY HandlerFrame DEF procVars
  <1>1. CASE WsHandler
    BY <1>1, FlowStays DEF WsHandler, connVars, channelVars
  <1>2. CASE AwaitExec
    <2>1. /\ h = "await_exec" /\ e = "none" /\ inbox # <<>>
          /\ inbox' = Tail(inbox) /\ UNCHANGED stdinCh
          /\ conn' = conn \/ Head(inbox).kind = "close"
      BY <1>2 DEF AwaitExec, IInv, HandlerInv, channelVars
    <2>2. /\ Head(inbox).kind = "exec" /\ h' = "loop" /\ stdinTx'
      <3>1. leader = "none"
        BY <2>1 DEF IInv, ExecInv
      <3> QED BY <1>2, <2>1, <3>1 DEF AwaitExec, Flowing, TakesStdin
    <2>3. FlowInv BY DEF InputInv
    <2>4. Follows(inbox', Read) BY <2>1, <2>2, <2>3, SocketTail
    <2>7. Fetched' = Fetched /\ Handed' = Handed /\ Read' = Read
      BY <2>1, <2>2 DEF Fetched, Handed, Read
    <2> QED BY <2>1, <2>2, <2>3, <2>4, <2>7 DEF FlowInv, Follows
  <1>3. CASE SendStdinFails
    <2>1. h = "send_stdin" /\ ~StdinOpen /\ h' = "loop" /\ UNCHANGED e
      BY <1>3 DEF SendStdinFails, taskVars
    <2>2. e # "none" BY <2>1 DEF IInv, HandlerInv
    <2> QED BY <2>1, <2>2 DEF StdinOpen, Flowing
  <1>4. CASE h # "send_stdin" /\ h' # "send_stdin"
             /\ UNCHANGED <<conn, inbox, stdinCh>>
             /\ \/ h' = "done"
                \/ /\ stdinTx' = stdinTx
                   /\ h \notin {"upgrade", "await_exec", "done"}
    BY <1>4, FlowStays
  <1>5. CASE RecvEvent \/ RecvFails
    BY <1>4, <1>5 DEF RecvEvent, RecvFails, connVars
  <1>6. CASE EventsClosed \/ AwaitExecFails
    BY <1>4, <1>6 DEF EventsClosed, AwaitExecFails, connVars, channelVars
  <1>7. CASE SendOutput \/ SendOutputLost \/ SendOutputFails
    BY <1>4, <1>7
    DEF SendOutput, SendOutputLost, SendOutputFails, connVars, channelVars
  <1>8. CASE AwaitDone \/ SendError \/ Close
    BY <1>4, <1>8 DEF AwaitDone, SendError, Close, connVars, channelVars
  <1> QED BY <1>1, <1>2, <1>3, <1>5, <1>6, <1>7, <1>8, FlowRecvFrame,
             FlowSendStdin DEF HandlerNext

(* The task of stream_stdin moves the next chunk.                          *)
LEMMA FlowStdin ==
    ASSUME IInv, InputInv, StdinNext, Flowing, Flowing'
    PROVE  FlowInv'
  <1>1. /\ UNCHANGED <<connVars, handlerVars, e, leader, got>>
        /\ st \in {"recv", "write"} /\ TakesStdin
    <2>1. UNCHANGED <<connVars, handlerVars, e, leader, got>>
          /\ st \in {"recv", "write"}
      BY StdinFrame
      DEF StdinNext, StdinRecv, StdinWrite, StdinEnd, StdinWriteFails,
          StdinAborted, connVars, StdinGone
    <2>2. e \notin {"none", "queued"} BY <2>1 DEF InputInv, InputStateInv
    <2> QED BY <2>1, <2>2 DEF Flowing
  <1>2. FlowInv BY DEF InputInv
  <1>3. /\ got \in Nat /\ inPipe \in Seq(1..MaxIn) /\ Len(inPipe) \in Nat
        /\ stdinCh \in Seq(1..MaxIn) /\ Len(stdinCh) \in Nat
        /\ Fetched \in Nat /\ Handed \in Nat
    BY InputCounts
  <1>4. ASSUME Handed' = Handed, Consecutive(stdinCh', Fetched'),
               st' = "write" => stHeld' = got + Len(inPipe') + 1
        PROVE  FlowInv'
    <2>1. Read' = Read BY <1>1, <1>4 DEF Read, handlerVars
    <2> QED BY <1>1, <1>2, <1>4, <2>1 DEF FlowInv, connVars, handlerVars
  <1>5. CASE StdinRecv
    <2>1. /\ st = "recv" /\ st' = "write" /\ stdinCh # <<>>
          /\ stHeld' = Head(stdinCh) /\ stdinCh' = Tail(stdinCh)
          /\ UNCHANGED inPipe
      BY <1>5 DEF StdinRecv, procVars
    <2>2. Fetched = got + Len(inPipe) /\ Fetched' = Fetched + 1
      BY <1>1, <1>3, <2>1 DEF Fetched
    <2>3. /\ Len(stdinCh') = Len(stdinCh) - 1
          /\ Consecutive(stdinCh', Fetched + 1)
      BY <1>2, <1>3, <2>1, TailConsecutive DEF FlowInv
    <2>4. stHeld' = Fetched + 1
      <3>1. Len(stdinCh) \in Nat \ {0} /\ Head(stdinCh) = stdinCh[1]
        BY <1>3, <2>1, LenProperties, HeadTailProperties
      <3> QED BY <1>2, <2>1, <3>1 DEF FlowInv, Consecutive
    <2>5. Handed' = Handed BY <1>3, <2>2, <2>3 DEF Handed
    <2> QED BY <1>4, <2>1, <2>2, <2>3, <2>4, <2>5
  <1>6. CASE StdinWrite
    <2>1. /\ st = "write" /\ st' = "recv" /\ inPipe' = Append(inPipe, stHeld)
          /\ UNCHANGED stdinCh
      BY <1>6 DEF StdinWrite, channelVars
    <2>2. stHeld \in 1..MaxIn BY <2>1 DEF IInv, HoldInv
    <2>3. Len(inPipe') = Len(inPipe) + 1
      BY <1>3, <2>1, <2>2, AppendProperties
    <2>4. Fetched' = Fetched BY <1>1, <1>3, <2>1, <2>3 DEF Fetched
    <2>5. Handed' = Handed BY <2>1, <2>4 DEF Handed
    <2> QED BY <1>2, <1>4, <2>1, <2>4, <2>5 DEF FlowInv
  <1>7. CASE st' = "gone"
    BY <1>1, <1>7 DEF Flowing, InputInv, InputStateInv, handlerVars, TakesStdin
  <1> QED BY <1>5, <1>6, <1>7
          DEF StdinNext, StdinEnd, StdinWriteFails, StdinAborted, StdinGone

(* execute_command and the command touch no chunk in flight but the one    *)
(* that is read.                                                           *)
LEMMA FlowRest ==
    ASSUME IInv, InputInv, Flowing,
           UNCHANGED <<connVars, handlerVars, stdinCh, stHeld>>,
           UNCHANGED st \/ {st, st'} \subseteq {"none", "recv"},
           got' + Len(inPipe') = got + Len(inPipe)
    PROVE  FlowInv'
  <1>1. Fetched' = Fetched BY DEF Fetched
  <1>2. Handed' = Handed BY <1>1 DEF Handed
  <1>3. Read' = Read BY <1>2 DEF Read, handlerVars
  <1> QED BY <1>1, <1>2, <1>3 DEF InputInv, FlowInv, connVars, handlerVars

(* execute_command hands stdin over to its task and to its command.        *)
LEMMA FlowExec ==
    ASSUME IInv, InputInv, ExecNext, Flowing, Flowing'
    PROVE  FlowInv'
  <1> UNCHANGED <<connVars, handlerVars, stHeld, got>> BY ExecFrame
  <1>1. CASE StartCommand
    <2>1. /\ UNCHANGED <<stdinCh, inPipe>> /\ st' = "recv" /\ e = "queued"
      BY <1>1 DEF StartCommand, channelVars
    <2>2. st = "none" BY <2>1 DEF InputInv, InputStateInv
    <2> QED BY <2>1, <2>2, FlowRest
  <1>2. CASE ~StartCommand
    <2>1. /\ UNCHANGED st /\ e' \notin {"none", "queued"}
          /\ leader' = "run" => inPipe' = inPipe
          /\ e = "queued" \/ UNCHANGED stdinCh
      BY <1>2
      DEF ExecNext, SpawnFails, ChildExited, CancelReceived, WaitFails,
          SendTerm, ExitInGrace, GraceExpires, SendKill, ExitAfterKill,
          JoinStdout, JoinStderr, KillChild, ReapKilled, SendExit, ReportDone,
          Reap, ExecStep, Join, KillLeader, procVars, channelVars
    <2>2. st \in {"recv", "write"} /\ leader' = "run"
      BY <2>1 DEF Flowing, TakesStdin
    <2>3. e # "queued" BY <2>2 DEF InputInv, InputStateInv
    <2> QED BY <2>1, <2>2, <2>3, FlowRest
  <1> QED BY <1>1, <1>2

(* The command reads the next chunk.                                       *)
LEMMA ReadsNext ==
    ASSUME IInv, InputInv, CmdReads
    PROVE  got' + Len(inPipe') = got + Len(inPipe)
  <1>1. /\ inPipe # <<>> /\ got' = Head(inPipe) /\ inPipe' = Tail(inPipe)
        /\ inPipe \in Seq(1..MaxIn) /\ got \in Nat
    BY InputCounts DEF CmdReads
  <1>2. /\ Len(inPipe) \in Nat \ {0} /\ Head(inPipe) = inPipe[1]
        /\ Len(inPipe') = Len(inPipe) - 1
    BY <1>1, LenProperties, HeadTailProperties
  <1>3. inPipe[1] = got + 1 BY <1>2 DEF InputInv, StdinInOrder
  <1> QED BY <1>1, <1>2, <1>3

LEMMA FlowCommand ==
    ASSUME IInv, InputInv, CommandNext, Flowing, Flowing'
    PROVE  FlowInv'
  <1> UNCHANGED <<connVars, handlerVars, channelVars, taskVars>>
    BY CommandFrame
  <1>1. UNCHANGED <<stdinCh, st, stHeld, e>> BY DEF channelVars, taskVars
  <1>2. CASE CmdReads BY <1>1, <1>2, ReadsNext, FlowRest
  <1>3. CASE UNCHANGED <<got, inPipe>> BY <1>1, <1>3, FlowRest
  <1>4. ASSUME NEW c \in Statuses, CmdExits(c) PROVE FlowInv'
    <2>1. /\ leader = "run" /\ leader' = "zombie" BY <1>4 DEF CmdExits
    <2>2. e \notin {"none", "queued"} BY <2>1 DEF IInv, ExecInv
    <2> QED BY <1>1, <2>1, <2>2 DEF Flowing, TakesStdin
  <1>5. ASSUME NEW d \in Closable, CmdCloses(d) PROVE FlowInv'
    <2>1. CASE d = "stdin"
      <3>1. ~TakesStdin' BY <1>5, <2>1 DEF CmdCloses, TakesStdin
      <3>2. e' \notin {"none", "queued"}
        BY <1>1, <1>5 DEF CmdCloses, Running, IInv, ExecInv
      <3> QED BY <3>1, <3>2 DEF Flowing
    <2>2. CASE d # "stdin"
      BY <1>1, <1>5, <2>2, FlowRest DEF CmdCloses
    <2> QED BY <2>1, <2>2
  <1> QED BY <1>2, <1>3, <1>4, <1>5
          DEF CommandNext, CmdSeesEof, CmdForks, HelperExits, CmdCloses,
              CmdWrites

(* No chunk that can still reach the command is lost, repeated or          *)
(* reordered on its way from the socket.                                   *)
LEMMA FlowStep ==
    ASSUME IInv, InputInv, [Next]_vars, Flowing' PROVE FlowInv'
  <1>1. Flowing BY FlowingBack
  <1>2. ASSUME NEW s \in Streams, ReaderNext(s) PROVE FlowInv'
    <2>1. UNCHANGED <<connVars, handlerVars, stdinCh, st, stHeld, inPipe, got>>
      BY <1>2, ReaderFrame
    <2> QED BY <1>1, <2>1, FlowRest
  <1>3. CASE UNCHANGED vars
    <2>1. UNCHANGED <<connVars, handlerVars, stdinCh, st, stHeld, inPipe, got>>
      BY <1>3 DEF vars, channelVars, taskVars, procVars
    <2> QED BY <1>1, <2>1, FlowRest
  <1> QED BY <1>1, <1>2, <1>3, FlowClient, FlowHandler, FlowExec, FlowStdin,
             FlowCommand DEF Next, Over

(* stream_stdin leaves a running command only with all of its stdin.       *)
LEMMA EndStep == ASSUME IInv, InputInv, [Next]_vars PROVE EndInv'
  <1> SUFFICES ASSUME st' = "gone", TakesStdin', Waiting', ~cancelled'
               PROVE  /\ Control("eof") \in said'
                      /\ got' + Len(inPipe') = fed'
    BY DEF EndInv
  <1>1. ASSUME st = "gone", TakesStdin, Waiting, ~cancelled
        PROVE  Control("eof") \in said /\ got + Len(inPipe) = fed
    BY <1>1 DEF InputInv, EndInv
  <1>2. CASE ClientNext
    <2>1. UNCHANGED <<st, leader, closed, e, cancelled, got, inPipe>>
      BY <1>2, ClientFrame DEF taskVars, procVars, channelVars
    <2>2. Control("eof") \in said /\ got + Len(inPipe) = fed
      BY <1>1, <2>1 DEF Waiting, TakesStdin
    <2>3. Control("eof") \in said' /\ fed' = fed
      BY <1>2, <2>2 DEF ClientNext, ClientSend, ClientRead, ConnBreaks
    <2> QED BY <2>1, <2>2, <2>3
  <1>3. CASE HandlerNext
    <2>1. UNCHANGED <<st, leader, closed, said, fed, got, inPipe>>
      BY <1>3, HandlerFrame DEF procVars
    <2>2. (e' = e \/ e' = "queued") /\ (cancelled => cancelled')
      BY <1>3 DEF HandlerNext, WsHandler, AwaitExec,
         AwaitExecFails, RecvEvent, EventsClosed, SendOutput, SendOutputLost,
         SendOutputFails, RecvFrame, RecvFails, SendStdin, SendStdinFails,
         AwaitDone, SendError, Close, taskVars, channelVars
    <2> QED BY <1>1, <2>1, <2>2 DEF Waiting, TakesStdin
  <1>4. CASE ExecNext
    <2>1. UNCHANGED <<said, fed, got, closed, cancelled>>
      BY <1>4, ExecFrame DEF connVars
    <2>2. /\ UNCHANGED <<st, inPipe>> /\ TakesStdin /\ Waiting
      BY <1>4, <2>1
      DEF ExecNext, StartCommand, SpawnFails, ChildExited, CancelReceived,
          WaitFails, SendTerm, ExitInGrace, GraceExpires, SendKill,
          ExitAfterKill, JoinStdout, JoinStderr, KillChild, ReapKilled,
          SendExit, ReportDone, Reap, ExecStep, Join, KillLeader, procVars,
          Waiting, TakesStdin
    <2> QED BY <1>1, <2>1, <2>2
  <1>5. CASE StdinNext
    <2>1. UNCHANGED <<connVars, handlerVars, e, leader, closed, got, cancelled>>
      BY <1>5, StdinFrame
    <2>2. st = "recv" /\ stdinCh = <<>> /\ ~stdinTx /\ UNCHANGED inPipe
      BY <1>5, <2>1
      DEF StdinNext, StdinRecv, StdinWrite, StdinEnd, StdinWriteFails,
          StdinAborted, StdinGone, procVars, Waiting, TakesStdin
    <2>3. Flowing /\ FlowInv BY <2>1, <2>2 DEF Flowing, InputInv, TakesStdin
    <2>4. h \notin {"upgrade", "await_exec", "done", "send_stdin"}
      BY <2>1, <2>2
      DEF IInv, HandlerInv, Waiting, InputInv, InputStateInv
    <2>5. Control("eof") \in said /\ Read = fed
      BY <2>2, <2>3, <2>4 DEF FlowInv
    <2>6. Read = got + Len(inPipe)
      <3>1. Len(stdinCh) = 0 BY <2>2, EmptySeq
      <3> QED BY <2>2, <2>4, <3>1, InputCounts DEF Read, Handed, Fetched
    <2> QED BY <2>1, <2>2, <2>5, <2>6 DEF connVars
  <1>6. ASSUME NEW s \in Streams, ReaderNext(s)
        PROVE  Control("eof") \in said' /\ got' + Len(inPipe') = fed'
    <2>1. UNCHANGED <<said, fed, st, leader, closed, e, cancelled, got, inPipe>>
      BY <1>6, ReaderFrame DEF connVars
    <2> QED BY <1>1, <2>1 DEF Waiting, TakesStdin
  <1>7. CASE CommandNext
    <2>1. UNCHANGED <<said, fed, st, e, cancelled>>
      BY <1>7, CommandFrame DEF connVars, channelVars, taskVars
    <2>2. TakesStdin /\ (CmdReads \/ UNCHANGED <<got, inPipe>>)
      BY <1>7 DEF TakesStdin, CommandNext, CmdReads, CmdSeesEof, CmdForks, HelperExits,
         CmdCloses, CmdWrites, CmdExits
    <2>3. got' + Len(inPipe') = got + Len(inPipe) BY <2>2, ReadsNext
    <2> QED BY <1>1, <2>1, <2>2, <2>3 DEF Waiting, TakesStdin
  <1>8. CASE UNCHANGED vars
    BY <1>1, <1>8
    DEF vars, connVars, channelVars, taskVars, procVars, Waiting, TakesStdin
  <1> QED BY <1>2, <1>3, <1>4, <1>5, <1>6, <1>7, <1>8 DEF Next, Over

-----------------------------------------------------------------------------
(* No chunk has come in when the websocket is accepted.                    *)
LEMMA InitInputInv == Init => InputInv
  <1> SUFFICES ASSUME Init PROVE InputInv OBVIOUS
  <1>1. Len(<<>>) = 0 BY EmptySeq
  <1>2. Fetched = 0 /\ Handed = 0 /\ Read = 0
    BY <1>1 DEF Init, Fetched, Handed, Read
  <1>3. InputStateInv /\ EndInv
    BY DEF Init, InputStateInv, EndInv, TakesStdin
  <1>4. StdinInOrder /\ EndLast BY <1>1 DEF Init, StdinInOrder, EndLast
  <1>5. FlowInv
    BY <1>1, <1>2, CarriesNothing DEF Init, FlowInv, Consecutive, Begins
  <1> QED BY <1>3, <1>4, <1>5 DEF InputInv

(* Every chunk of stdin that can still reach the command is accounted for  *)
(* at every await of every task.                                           *)
THEOREM InputInvariance == Spec => []InputInv
  <1>1. IInv /\ InputInv /\ [Next]_vars => InputInv'
    BY InputStateStep, EndLastStep, StdinInOrderStep, FlowStep, EndStep
    DEF InputInv
  <1> QED BY <1>1, InitInputInv, Invariance, PTL DEF Spec

(* stdin reaches the command in order, without a gap.                      *)
THEOREM StdinOrdered == Spec => []StdinInOrder
  <1>1. InputInv => StdinInOrder BY DEF InputInv
  <1> QED BY <1>1, InputInvariance, PTL

(* A command whose session goes well sees the end of its stdin only where  *)
(* the client has ended it, and has then read all of it.                   *)
THEOREM EofComesLast == Spec => EofAfterAllInput
  <1>1. ASSUME IInv, InputInv, Next, gotEof' # gotEof, ~cancelled, Waiting
        PROVE  Control("eof") \in said /\ got = fed
    <2>1. CmdSeesEof
      BY <1>1, ClientFrame, HandlerFrame, ExecFrame, StdinFrame, ReaderFrame
      DEF Next, Over, vars, procVars, CommandNext, CmdReads, CmdForks,
          HelperExits, CmdCloses, CmdWrites, CmdExits
    <2>2. TakesStdin /\ st = "gone" /\ inPipe = <<>>
      BY <2>1 DEF CmdSeesEof
    <2>3. Control("eof") \in said /\ got + Len(inPipe) = fed
      BY <1>1, <2>2 DEF InputInv, EndInv
    <2>4. Len(inPipe) = 0 BY <2>2, EmptySeq
    <2> QED BY <2>3, <2>4, InputCounts, <1>1
  <1>2. IInv /\ InputInv /\ [Next]_vars
          => [gotEof' # gotEof /\ ~cancelled /\ Waiting
                => Control("eof") \in said /\ got = fed]_vars
    BY <1>1
  <1> QED BY <1>2, InputInvariance, Invariance, PTL
          DEF Spec, EofAfterAllInput
=============================================================================
