------------------------ MODULE ClientSessionProofs ------------------------
(***************************************************************************)
(* Theorems about ClientSession, for every value of its constants: all     *)
(* capacities, all bounds and all exit codes.                              *)
(***************************************************************************)
EXTENDS ClientSession, ChunkQueueLemmas

-----------------------------------------------------------------------------
(* A sent frame fits the socket.                                           *)
LEMMA SentType ==
    ASSUME IInv, NEW f \in Frames \cup {ExecFrame, CloseFrame}, Sent(f),
           UNCHANGED serverVars
    PROVE  ServerType'
  <1>1. ServerType BY DEF IInv, TypeOK
  <1>2. CASE srv = "gone"
    <2>1. toClient' \in Prefixes(toClient) /\ UNCHANGED toServer
          /\ conn' = "reset"
      BY <1>2 DEF Sent
    <2>2. toClient' \in Seq(ServerFrames) /\ Len(toClient') <= NetCapacity
      BY <1>1, <2>1, ClientAssumption, PrefixElements DEF ServerType
    <2> QED BY <1>1, <2>1, <2>2 DEF ServerType, serverVars
  <1>3. CASE srv # "gone"
    <2>1. toServer' = Append(toServer, f) /\ UNCHANGED <<conn, toClient>>
      BY <1>3 DEF Sent
    <2> QED BY <1>1, <2>1 DEF ServerType, serverVars
  <1> QED BY <1>2, <1>3

(* A frame the server sends fits it too.                                   *)
LEMMA ServerSendsType ==
    ASSUME IInv, NEW f \in ServerFrames, ServerSends(f),
           srv' \in {"serving", "reported", "gone"},
           produced' \in [Streams -> 0..MaxOut]
    PROVE  ServerType'
  BY ClientAssumption, AppendProperties
  DEF ServerSends, IInv, TypeOK, ServerType

(* An arm that is not Ctrl-C cannot make Ctrl-C seen.                      *)
LEMMA OtherArmKeeps ==
    ASSUME IInv, OtherArm
    PROVE  /\ sigint' \in {"default", "none", "pending", "seen", "lost"}
           /\ sigint' = "seen" <=> sigint = "seen"
  BY DEF IInv, TypeOK, SessionType, OtherArm

(* The session stays well typed.                                           *)
LEMMA SessionTypeStep == ASSUME IInv, [Next]_vars PROVE SessionType'
  <1> USE ClientAssumption DEF IInv, TypeOK, SessionType, HoldInv
  <1> USE DEF mainVars, historyVars
  <1>1. CASE Connect BY <1>1 DEF Connect, Ends, Fails
  <1>2. CASE SendExec BY <1>2 DEF SendExec, Sent, SendFails, Ends, Fails
  <1>3. CASE SignalArm BY <1>3 DEF SignalArm
  <1>4. CASE SendCancel BY <1>4 DEF SendCancel, Sent, SendFails, Ends, Fails
  <1>5. CASE CloseSender BY <1>5 DEF CloseSender, Sent, Ends
  <1>6. CASE StdinArm
    <2>1. chan # <<>> => Head(chan) \in Frames
      BY HeadTailProperties DEF TaskType
    <2>2. sigint' \in {"default", "none", "pending", "seen", "lost"}
      BY <1>6, OtherArmKeeps DEF StdinArm
    <2>3. readStdin' \in BOOLEAN BY <1>6 DEF StdinArm
    <2>4. /\ c' \in {"select", "send_stdin"}
          /\ held' \in Frames \cup ServerFrames \cup {NoFrame}
      <3>1. held \in Frames \cup ServerFrames \cup {NoFrame} OBVIOUS
      <3> QED BY ONLY <1>6, <2>1, <3>1 DEF StdinArm
    <2>5. UNCHANGED <<exit, code, historyVars>> BY <1>6 DEF StdinArm
    <2> QED BY <2>2, <2>3, <2>4, <2>5
  <1>7. CASE SendStdin
    <2>1. held.kind = "stdin" => held.n \in 0..MaxIn
      BY <1>7 DEF SendStdin, Frames, Stdin, Eof, Cancel
    <2>2. readStdin' \in BOOLEAN /\ ended' \in BOOLEAN
      BY <1>7 DEF SendStdin
    <2>3. c' \in {"select", "exited"} /\ code' \in {code, 1}
      BY <1>7 DEF SendStdin, SendFails, Ends, Fails
    <2>4. forwarded' \in 0..MaxIn
      <3>1. forwarded \in 0..MaxIn OBVIOUS
      <3> QED BY ONLY <1>7, <2>1, <3>1 DEF SendStdin
    <2>5. held' = NoFrame /\ UNCHANGED <<exit, sigint, mirrored>>
      BY <1>7 DEF SendStdin
    <2> QED BY <2>2, <2>3, <2>4, <2>5
  <1>8. CASE MessageArm
    <2>1. /\ Head(toClient) \in ServerFrames
          /\ Head(toClient).kind = "exit" => Head(toClient).code \in Codes
          /\ Head(toClient).kind \in {"output", "exit", "error", "close"}
      <3>1. Head(toClient) \in ServerFrames
        BY <1>8, HeadTailProperties DEF MessageArm, ServerType
      <3> QED BY <3>1 DEF ServerFrames, Output, Exit, Error, CloseFrame
    <2>2. sigint' \in {"default", "none", "pending", "seen", "lost"}
      BY <1>8, OtherArmKeeps DEF MessageArm
    <2>3. /\ c' \in {"select", "write", "exited"} /\ code' \in {code, 1}
          /\ held' \in {held, Head(toClient)}
          /\ exit' \in Codes \cup {exit}
      BY ONLY <1>8, <2>1 DEF MessageArm, Ends, Fails
    <2>4. UNCHANGED <<readStdin, historyVars>> BY <1>8 DEF MessageArm
    <2> QED BY <2>1, <2>2, <2>3, <2>4
  <1>9. CASE EndArm BY <1>9 DEF EndArm, OtherArm, Ends, Fails
  <1>10. CASE WriteOutput
    <2>1. held.stream \in Streams /\ held.n \in 0..MaxOut
      BY <1>10 DEF WriteOutput, ServerFrames, Output, Exit, Error, CloseFrame
    <2> QED BY <1>10, <2>1 DEF WriteOutput, Ends, Fails
  <1>11. CASE Interrupt BY <1>11 DEF Interrupt, Ends
  <1>12. CASE UNCHANGED <<mainVars, sigint, historyVars>> BY <1>12
  <1> QED BY <1>1, <1>2, <1>3, <1>4, <1>5, <1>6, <1>7, <1>8, <1>9, <1>10,
             <1>11, <1>12
          DEF Next, MainNext, ServerNext, Over, vars, TaskReads, TaskSends,
              ServerReads, ServerOutput, ServerReports, ServerCloses,
              ConnResets, ServerSends

(* The stdin task and its channel stay well typed.                         *)
LEMMA TaskTypeStep == ASSUME IInv, [Next]_vars PROVE TaskType'
  <1> USE DEF IInv, TypeOK, TaskType, taskVars
  <1>1. CASE Connect BY <1>1 DEF Connect
  <1>2. CASE StdinArm
    <2>1. chan # <<>> => /\ Tail(chan) \in Seq(Frames)
                         /\ Len(Tail(chan)) <= ChannelCapacity
      <3>1. chan # <<>> => /\ Tail(chan) \in Seq(Frames)
                           /\ Len(Tail(chan)) = Len(chan) - 1
                           /\ Len(chan) \in Nat
        BY HeadTailProperties, LenProperties
      <3> QED BY <3>1, ClientAssumption
    <2> QED BY <1>2, <2>1 DEF StdinArm
  <1>3. CASE TaskReads BY <1>3, ClientAssumption DEF TaskReads, Frames
  <1>4. CASE TaskSends
    <2>1. tHeld \in Frames /\ Len(chan) < ChannelCapacity
      BY <1>4 DEF TaskSends, HoldInv
    <2>2. /\ Append(chan, tHeld) \in Seq(Frames)
          /\ Len(Append(chan, tHeld)) <= ChannelCapacity
      BY <2>1, AppendProperties, LenProperties, ClientAssumption
    <2> QED BY <1>4, <2>2 DEF TaskSends
  <1>5. CASE UNCHANGED <<chan, taskVars>> BY <1>5
  <1> QED BY <1>1, <1>2, <1>3, <1>4, <1>5
          DEF Next, MainNext, ServerNext, Over, vars, SendExec, SignalArm,
              SendCancel, CloseSender, SendStdin, MessageArm, EndArm,
              WriteOutput, Interrupt, ServerReads, ServerOutput,
              ServerReports, ServerCloses, ConnResets, ServerSends

(* The server and the socket stay well typed.                              *)
LEMMA ServerTypeStep == ASSUME IInv, [Next]_vars PROVE ServerType'
  <1> ServerType BY DEF IInv, TypeOK
  <1> USE DEF serverVars
  <1>1. CASE SendExec BY <1>1, SentType DEF SendExec, SendFails, ServerType
  <1>2. CASE SendCancel
    BY <1>2, SentType DEF SendCancel, SendFails, ServerType, Frames
  <1>3. CASE CloseSender BY <1>3, SentType DEF CloseSender, ServerType
  <1>4. CASE SendStdin
    <2>1. held \in Frames BY <1>4 DEF SendStdin, IInv, HoldInv
    <2> QED BY <1>4, <2>1, SentType DEF SendStdin, SendFails, ServerType
  <1>5. CASE MessageArm
    <2>1. /\ Tail(toClient) \in Seq(ServerFrames)
          /\ Len(Tail(toClient)) <= NetCapacity
      <3>1. /\ toClient \in Seq(ServerFrames) /\ toClient # <<>>
            /\ Len(toClient) <= NetCapacity
        BY <1>5 DEF MessageArm, ServerType
      <3>2. /\ Tail(toClient) \in Seq(ServerFrames)
            /\ Len(Tail(toClient)) = Len(toClient) - 1
            /\ Len(toClient) \in Nat
        BY <3>1, HeadTailProperties, LenProperties
      <3> QED BY <3>1, <3>2, ClientAssumption
    <2>2. conn' \in {"up", "closing", "reset"}
      <3>1. Head(toClient) \in ServerFrames
        BY <1>5, HeadTailProperties DEF MessageArm, ServerType
      <3>2. Head(toClient).kind \in {"output", "exit", "error", "close"}
        BY <3>1 DEF ServerFrames, Output, Exit, Error, CloseFrame
      <3> QED BY <1>5, <3>2 DEF MessageArm, ServerType
    <2> QED BY <1>5, <2>1, <2>2 DEF MessageArm, ServerType
  <1>6. CASE ServerReads
    BY <1>6, HeadTailProperties DEF ServerReads, ServerType
  <1>7. ASSUME NEW s \in Streams, ServerOutput(s) PROVE ServerType'
    <2>1. produced[s] + 1 \in 1..MaxOut
      BY <1>7, ClientAssumption DEF ServerOutput, ServerType
    <2>2. Output(s, produced[s] + 1) \in ServerFrames
      BY <2>1 DEF ServerFrames
    <2>3. produced' \in [Streams -> 0..MaxOut]
      BY <1>7, <2>1 DEF ServerOutput, ServerType
    <2> QED BY <1>7, <2>2, <2>3, ServerSendsType DEF ServerOutput
  <1>8. CASE ServerReports
    <2>1. PICK r \in {Exit(x) : x \in Codes} \cup {Error} : ServerSends(r)
      BY <1>8 DEF ServerReports
    <2>2. r \in ServerFrames BY DEF ServerFrames
    <2> QED BY <1>8, <2>1, <2>2, ServerSendsType
        DEF ServerReports, ServerType
  <1>9. CASE ServerCloses
    <2>1. CloseFrame \in ServerFrames BY DEF ServerFrames
    <2> QED BY <1>9, <2>1, ServerSendsType DEF ServerCloses, ServerType
  <1>10. CASE ConnResets
    <2>1. /\ conn' = "reset" /\ srv' = "gone" /\ UNCHANGED produced
          /\ toClient' \in Prefixes(toClient)
          /\ toServer' \in Prefixes(toServer)
      BY <1>10 DEF ConnResets
    <2>2. toClient' \in Seq(ServerFrames) /\ Len(toClient') <= NetCapacity
      BY <2>1, ClientAssumption, PrefixElements DEF ServerType
    <2>3. toServer' \in Seq(Frames \cup {ExecFrame, CloseFrame})
      BY <2>1, PrefixElements DEF ServerType
    <2> QED BY <2>1, <2>2, <2>3 DEF ServerType
  <1>11. CASE UNCHANGED <<conn, toServer, toClient, serverVars>>
    BY <1>11 DEF ServerType
  <1> QED BY <1>1, <1>2, <1>3, <1>4, <1>5, <1>6, <1>7, <1>8, <1>9, <1>10,
             <1>11
          DEF Next, MainNext, ServerNext, Over, vars, Connect, SignalArm,
              StdinArm, EndArm, WriteOutput, TaskReads, TaskSends, Interrupt

(* What the session and the stdin task hold is what they took.             *)
LEMMA HoldStep == ASSUME IInv, [Next]_vars PROVE HoldInv'
  <1> USE DEF IInv, TypeOK, SessionType, TaskType, ServerType, HoldInv
  <1> USE DEF mainVars, taskVars, serverVars, historyVars
  <1>1. CASE Connect BY <1>1 DEF Connect, Ends, Fails
  <1>2. CASE SendExec
    BY <1>2 DEF SendExec, Sent, SendFails, Ends, Fails
  <1>3. CASE SignalArm BY <1>3 DEF SignalArm
  <1>4. CASE SendCancel BY <1>4 DEF SendCancel, Sent, SendFails, Ends, Fails
  <1>5. CASE CloseSender BY <1>5 DEF CloseSender, Sent, Ends
  <1>6. CASE StdinArm
    <2>1. chan # <<>> => Head(chan) \in Frames BY HeadTailProperties
    <2>2. UNCHANGED taskVars /\ (sigint' = "seen" <=> sigint = "seen")
      BY <1>6, OtherArmKeeps DEF StdinArm
    <2>3. /\ c' = "send_stdin" /\ held' \in Frames /\ readStdin'
          \/ c' = "select"
      BY ONLY <1>6, <2>1 DEF StdinArm
    <2> QED BY <2>2, <2>3
  <1>7. CASE SendStdin BY <1>7 DEF SendStdin, Sent, SendFails, Ends, Fails
  <1>8. CASE MessageArm
    <2>1. Head(toClient) \in ServerFrames
      BY <1>8, HeadTailProperties DEF MessageArm
    <2>2. UNCHANGED taskVars /\ (sigint' = "seen" <=> sigint = "seen")
      BY <1>8, OtherArmKeeps DEF MessageArm
    <2>3. \/ c' = "write" /\ held' = Head(toClient) /\ held'.kind = "output"
          \/ c' \in {"select", "exited"}
      <3>1. Head(toClient).kind \in {"output", "exit", "error", "close"}
        BY <2>1 DEF ServerFrames, Output, Exit, Error, CloseFrame
      <3> QED BY <1>8, <3>1 DEF MessageArm, Ends, Fails
    <2> QED BY <2>1, <2>2, <2>3
  <1>9. CASE EndArm BY <1>9 DEF EndArm, OtherArm, Ends, Fails
  <1>10. CASE WriteOutput BY <1>10 DEF WriteOutput, Ends, Fails
  <1>11. CASE TaskReads
    BY <1>11, ClientAssumption DEF TaskReads, Frames, Stdin, Eof, Cancel
  <1>12. CASE TaskSends BY <1>12 DEF TaskSends
  <1>13. CASE Interrupt BY <1>13 DEF Interrupt, Ends
  <1>14. CASE UNCHANGED <<mainVars, taskVars, sigint>> BY <1>14
  <1> QED BY <1>1, <1>2, <1>3, <1>4, <1>5, <1>6, <1>7, <1>8, <1>9, <1>10,
             <1>11, <1>12, <1>13, <1>14
          DEF Next, MainNext, ServerNext, Over, vars, ServerReads,
              ServerOutput, ServerReports, ServerCloses, ConnResets,
              ServerSends

-----------------------------------------------------------------------------
(* Local stdin. What was taken of it and what was queued of it are numbers *)
(* of chunks.                                                              *)
LEMMA StdinCounts ==
    ASSUME IInv
    PROVE  Taken \in Nat /\ Queued \in Nat /\ forwarded \in Nat /\ fed \in Nat
  <1>1. forwarded \in Nat /\ fed \in Nat
    BY ClientAssumption DEF IInv, TypeOK, SessionType, TaskType
  <1>2. c = "send_stdin" /\ held.kind = "stdin" => held.n \in Nat
    BY <1>1 DEF IInv, StdinInv
  <1>3. t = "send" /\ tHeld.kind = "stdin" => fed - 1 \in Nat
    <2>1. t = "send" /\ tHeld.kind = "stdin"
            => tHeld \in Frames /\ tHeld.n = fed
      BY DEF IInv, HoldInv
    <2> QED BY <1>1, <2>1, ClientAssumption DEF Frames, Stdin, Eof, Cancel
  <1> QED BY <1>1, <1>2, <1>3 DEF Taken, Queued

(* A step that moves no stdin, or ends the session, accounts for no less.  *)
LEMMA StdinStays ==
    ASSUME IInv, UNCHANGED <<chan, taskVars, readStdin, forwarded, ended>>,
           sigint = "seen" => sigint' = "seen",
           \/ c' = c /\ held' = held
           \/ /\ c # "send_stdin" /\ c' # "send_stdin"
              /\ c \in {"close", "exited"} => c' = "exited"
           \/ c' = "exited"
    PROVE  StdinInv'
  BY DEF IInv, StdinInv, EofAfterAllStdin, Taken, Queued, taskVars

(* The stdin task takes a chunk, or the end, from local stdin.             *)
LEMMA StdinTaskReads == ASSUME IInv, TaskReads PROVE StdinInv'
  <1>1. /\ t = "read" /\ t' = "send" /\ c # "exited"
        /\ UNCHANGED <<c, held, readStdin, chan, sigint, forwarded, ended>>
    BY DEF TaskReads, mainVars, historyVars
  <1>2. Queued' = Queued
    BY <1>1, StdinCounts DEF TaskReads, Queued, Stdin, Eof, Cancel
  <1> QED BY <1>1, <1>2 DEF IInv, StdinInv, EofAfterAllStdin, Taken

(* The stdin task puts what it read into the channel.                      *)
LEMMA StdinTaskSends == ASSUME IInv, TaskSends PROVE StdinInv'
  <1>1. /\ t = "send" /\ c # "exited" /\ chan' = Append(chan, tHeld)
        /\ t' = IF tHeld.kind = "stdin" THEN "read" ELSE "gone"
        /\ UNCHANGED <<c, held, readStdin, fed, sigint, forwarded, ended>>
    BY DEF TaskSends, mainVars, historyVars
  <1>2. /\ chan \in Seq(Frames) /\ tHeld \in Frames
        /\ tHeld.kind = "stdin" => tHeld.n = fed
    BY <1>1 DEF IInv, TypeOK, TaskType, HoldInv
  <1>3. /\ Len(chan) \in Nat /\ Len(chan') = Len(chan) + 1
        /\ chan'[Len(chan) + 1] = tHeld
        /\ \A i \in 1..Len(chan) : chan'[i] = chan[i]
    BY <1>1, <1>2, AppendProperties, LenProperties
  <1>4. \A i \in 1..Len(chan) : chan[i].kind = "stdin"
    BY <1>1 DEF IInv, StdinInv
  <1>5. \A i \in 1..Len(chan') : chan'[i].kind # "stdin"
                                  => i = Len(chan') /\ t' = "gone"
    <2> SUFFICES ASSUME NEW i \in 1..Len(chan'), chan'[i].kind # "stdin"
                 PROVE  i = Len(chan') /\ t' = "gone"
      OBVIOUS
    <2>1. i \notin 1..Len(chan) BY <1>3, <1>4
    <2>2. i = Len(chan) + 1 BY <1>3, <2>1
    <2> QED BY <1>1, <1>3, <2>2
  <1>6. Taken <= Queued' /\ Carries(chan', "stdin", Taken, Queued')
    <2>1. /\ Taken \in Nat /\ Queued \in Nat /\ fed \in Nat /\ Taken <= Queued
          /\ Carries(chan, "stdin", Taken, Queued)
      BY <1>1, StdinCounts DEF IInv, StdinInv
    <2>2. CASE tHeld.kind = "stdin"
      <3>1. Queued' = Queued + 1 /\ tHeld.n = Queued + 1
        BY <1>1, <1>2, <2>1, <2>2 DEF Queued
      <3>2. IsChunk(tHeld, "stdin") BY <2>2 DEF IsChunk
      <3>3. Carries(chan', "stdin", Taken, Queued + 1)
        BY <1>1, <1>2, <2>1, <3>1, <3>2, CarriesAppend
      <3> QED BY <2>1, <3>1, <3>3
    <2>3. CASE tHeld.kind # "stdin"
      <3>1. Queued' = Queued BY <1>1, <2>3 DEF Queued
      <3>2. ~IsChunk(tHeld, "stdin") BY <2>3 DEF IsChunk
      <3>3. Carries(chan', "stdin", Taken, Queued)
        BY <1>1, <1>2, <2>1, <3>2, CarriesAppend
      <3> QED BY <2>1, <3>1, <3>3
    <2> QED BY <2>2, <2>3
  <1>7. Taken' = Taken BY <1>1 DEF Taken
  <1>8. c = "send_stdin" /\ held.kind # "stdin" => FALSE
    BY <1>1 DEF IInv, StdinInv
  <1>9. ended /\ sigint # "seen" => FALSE BY <1>1 DEF IInv, StdinInv
  <1> QED BY <1>1, <1>5, <1>6, <1>7, <1>8, <1>9
          DEF IInv, StdinInv, EofAfterAllStdin

(* The session takes a frame from the channel, or learns that no more will *)
(* come.                                                                   *)
LEMMA StdinTaken == ASSUME IInv, StdinArm PROVE StdinInv'
  <1>1. /\ c = "select" /\ readStdin /\ (sigint' = "seen" <=> sigint = "seen")
        /\ UNCHANGED <<taskVars, forwarded, ended>>
    BY OtherArmKeeps DEF StdinArm, historyVars
  <1>2. ~ended BY <1>1 DEF IInv, StdinInv
  <1>3. CASE chan # <<>> /\ held' = Head(chan) /\ chan' = Tail(chan)
             /\ c' = "send_stdin" /\ UNCHANGED readStdin
    <2>1. chan \in Seq(Frames) BY DEF IInv, TypeOK, TaskType
    <2>2. /\ Len(chan) \in Nat \ {0} /\ Len(chan') = Len(chan) - 1
          /\ held' = chan[1] /\ \A i \in 1..Len(chan') : chan'[i] = chan[i + 1]
          /\ chan' \in Seq(Frames)
      BY ONLY <1>3, <2>1, LenProperties, HeadTailProperties
    <2>3. \A i \in 1..Len(chan) : chan[i].kind # "stdin"
                                   => i = Len(chan) /\ t = "gone"
      BY DEF IInv, StdinInv
    <2>4. \A i \in 1..Len(chan') : chan'[i].kind # "stdin"
                                    => i = Len(chan') /\ t = "gone"
      <3> SUFFICES ASSUME NEW i \in 1..Len(chan'), chan'[i].kind # "stdin"
                   PROVE  i = Len(chan') /\ t = "gone"
        OBVIOUS
      <3>1. i + 1 \in 1..Len(chan) /\ chan[i + 1].kind # "stdin" BY <2>2
      <3> QED BY <2>2, <2>3, <3>1
    <2>5. held'.kind # "stdin" => chan' = <<>> /\ t = "gone"
      <3> SUFFICES ASSUME held'.kind # "stdin" PROVE chan' = <<>> /\ t = "gone"
        OBVIOUS
      <3>1. 1 = Len(chan) /\ t = "gone" BY <2>2, <2>3
      <3>2. Len(chan') = 1 - 1 BY ONLY <2>2, <3>1
      <3>3. Len(chan') = 0 BY ONLY <3>2
      <3> QED BY ONLY <2>2, <3>1, <3>3, EmptySeq
    <2>6. /\ forwarded \in Nat /\ Queued \in Nat /\ Queued' = Queued
          /\ forwarded <= Queued
          /\ Carries(chan, "stdin", forwarded, Queued)
      BY <1>1, StdinCounts DEF IInv, StdinInv, Taken, Queued, taskVars
    <2>7. IF held'.kind = "stdin"
            THEN /\ held'.n = forwarded + 1 /\ forwarded + 1 <= Queued
                 /\ Carries(chan', "stdin", forwarded + 1, Queued)
            ELSE Carries(chan', "stdin", forwarded, Queued)
      BY ONLY <1>3, <2>1, <2>6, CarriesTail DEF IsChunk
    <2>8. Taken' <= Queued' /\ Carries(chan', "stdin", Taken', Queued')
      BY <1>1, <1>3, <2>6, <2>7 DEF Taken
    <2> QED BY <1>1, <1>2, <1>3, <2>4, <2>5, <2>7, <2>8
            DEF StdinInv, EofAfterAllStdin, taskVars
  <1>4. CASE UNCHANGED <<held, chan, c>>
    BY <1>1, <1>2, <1>4
    DEF IInv, StdinInv, EofAfterAllStdin, Taken, Queued, taskVars
  <1> QED BY <1>3, <1>4 DEF StdinArm

(* The session puts the frame it took on the wire.                         *)
LEMMA StdinForwarded == ASSUME IInv, SendStdin PROVE StdinInv'
  <1>1. /\ c = "send_stdin" /\ UNCHANGED <<chan, taskVars, sigint>>
    BY DEF SendStdin
  <1>2. CASE c' = "select" /\ readStdin' = (held.kind = "stdin")
             /\ forwarded' = (IF held.kind = "stdin" THEN held.n ELSE forwarded)
             /\ ended' = (held.kind # "stdin")
    <2>1. Taken' = Taken /\ Queued' = Queued
      BY <1>1, <1>2 DEF Taken, Queued, taskVars
    <2>2. Taken <= Queued /\ Carries(chan, "stdin", Taken, Queued)
      BY <1>1 DEF IInv, StdinInv
    <2>3. CASE held.kind = "stdin"
      BY <1>1, <1>2, <2>1, <2>2, <2>3
      DEF IInv, StdinInv, EofAfterAllStdin, taskVars
    <2>4. CASE held.kind # "stdin"
      <3>1. chan = <<>> /\ t = "gone" BY <1>1, <2>4 DEF IInv, StdinInv
      <3>2. Taken = forwarded /\ Queued = fed
        BY <1>1, <2>4, <3>1 DEF Taken, Queued
      <3>3. forwarded = fed
        BY <2>2, <3>1, <3>2, StdinCounts, CarriesEmpty
      <3> QED BY <1>1, <1>2, <2>1, <2>2, <2>4, <3>1, <3>3
              DEF IInv, StdinInv, EofAfterAllStdin, taskVars
    <2> QED BY <2>3, <2>4
  <1>3. CASE c' = "exited" /\ UNCHANGED <<readStdin, forwarded, ended>>
    BY <1>1, <1>3, StdinStays
  <1> QED BY <1>2, <1>3 DEF SendStdin, SendFails, Fails, Ends

(* No chunk of local stdin is lost, repeated or reordered between the      *)
(* task and the wire, and its end comes last.                              *)
LEMMA StdinStep == ASSUME IInv, [Next]_vars PROVE StdinInv'
  <1>1. CASE Connect
    <2>1. t = "none" /\ c = "connect" BY <1>1 DEF Connect, IInv, HoldInv
    <2>2. t' \in {"none", "read"} /\ c' \in {"send_exec", "exited"}
          /\ UNCHANGED <<readStdin, chan, tHeld, fed, sigint, historyVars>>
      BY <1>1, <2>1 DEF Connect, Fails, Ends
    <2> QED BY <2>1, <2>2
            DEF IInv, StdinInv, EofAfterAllStdin, Taken, Queued, historyVars
  <1>2. CASE SendCancel
    <2>1. /\ c = "send_cancel" /\ sigint = "seen"
          /\ c' \in {"close", "exited"}
          /\ UNCHANGED <<readStdin, chan, taskVars, sigint, forwarded>>
      BY <1>2 DEF SendCancel, IInv, HoldInv, SendFails, Fails, Ends
    <2> QED BY <2>1
            DEF IInv, StdinInv, EofAfterAllStdin, Taken, Queued, taskVars
  <1>3. CASE SendExec
    BY <1>3, StdinStays DEF SendExec, SendFails, Fails, Ends, historyVars
  <1>4. CASE SignalArm BY <1>4, StdinStays DEF SignalArm, historyVars
  <1>5. CASE CloseSender BY <1>5, StdinStays DEF CloseSender, Ends, historyVars
  <1>6. CASE MessageArm
    <2>1. /\ c = "select" /\ (sigint' = "seen" <=> sigint = "seen")
          /\ UNCHANGED <<readStdin, chan, taskVars, historyVars>>
      BY <1>6, OtherArmKeeps DEF MessageArm
    <2>2. c' \in {"select", "write", "exited"}
      <3>1. Head(toClient) \in ServerFrames
        BY <1>6, HeadTailProperties
        DEF MessageArm, IInv, TypeOK, ServerType
      <3>2. Head(toClient).kind \in {"output", "exit", "error", "close"}
        BY <3>1 DEF ServerFrames, Output, Exit, Error, CloseFrame
      <3> QED BY ONLY <1>6, <3>2 DEF MessageArm, Fails, Ends
    <2> QED BY <2>1, <2>2, StdinStays DEF historyVars
  <1>7. CASE EndArm
    BY <1>7, OtherArmKeeps, StdinStays DEF EndArm, Fails, Ends, historyVars
  <1>8. CASE WriteOutput BY <1>8, StdinStays DEF WriteOutput, Fails, Ends
  <1>9. CASE Interrupt BY <1>9, StdinStays DEF Interrupt, Ends, historyVars
  <1>10. CASE UNCHANGED <<mainVars, chan, taskVars, sigint, historyVars>>
    BY <1>10, StdinStays DEF mainVars, historyVars
  <1> QED BY <1>1, <1>2, <1>3, <1>4, <1>5, <1>6, <1>7, <1>8, <1>9, <1>10,
             StdinTaskReads, StdinTaskSends, StdinTaken, StdinForwarded
          DEF Next, MainNext, ServerNext, Over, vars, ServerReads,
              ServerOutput, ServerReports, ServerCloses, ConnResets,
              ServerSends

-----------------------------------------------------------------------------
(* Output. What was seen of a stream and what was produced of it are       *)
(* numbers of chunks.                                                      *)
LEMMA OutputCounts ==
    ASSUME IInv, NEW s \in Streams
    PROVE  Seen(s) \in Nat /\ produced[s] \in Nat /\ mirrored[s] \in Nat
  <1>1. produced[s] \in Nat /\ mirrored[s] \in Nat
    BY ClientAssumption DEF IInv, TypeOK, SessionType, ServerType
  <1>2. c = "write" /\ held.stream = s => held.n \in Nat
    BY <1>1 DEF IInv, OutputInv, MirroredInOrder
  <1> QED BY <1>1, <1>2 DEF Seen

(* A step that neither mirrors nor produces, and at most loses some of     *)
(* what is in the socket with the connection, accounts for the rest.       *)
LEMMA OutputStays ==
    ASSUME IInv, UNCHANGED <<exit, produced, mirrored>>,
           \/ UNCHANGED <<conn, toClient>>
           \/ conn = "up" /\ conn' = "reset" /\ toClient' \in Prefixes(toClient),
           \/ UNCHANGED <<c, held, code>>
           \/ c \notin {"write", "exited"} /\ c' \notin {"write", "exited"}
           \/ c # "exited" /\ c' = "exited" /\ code' # 0
    PROVE  OutputInv'
  <1>1. ASSUME NEW s \in Streams, c' # "exited"
        PROVE  /\ c # "exited" /\ Seen(s)' = Seen(s)
               /\ Seen(s) <= produced[s]
               /\ Begins(toClient, s, Seen(s), produced[s])
               /\ conn # "reset" => Carries(toClient, s, Seen(s), produced[s])
    BY <1>1 DEF IInv, OutputInv, Seen
  <1>2. ASSUME NEW s \in Streams, c' # "exited"
        PROVE  /\ Begins(toClient', s, Seen(s), produced[s])
               /\ conn' # "reset"
                    => Carries(toClient', s, Seen(s), produced[s])
    <2>1. CASE UNCHANGED <<conn, toClient>> BY <1>1, <1>2, <2>1
    <2>2. CASE conn' = "reset" /\ toClient' \in Prefixes(toClient)
      <3>1. toClient \in Seq(ServerFrames) BY DEF IInv, TypeOK, ServerType
      <3> QED BY <1>1, <1>2, <2>2, <3>1, OutputCounts, BeginsPrefix
    <2> QED BY <2>1, <2>2
  <1>3. /\ c' # "exited" => \A s \in Streams :
             /\ Seen(s)' <= produced'[s]
             /\ Begins(toClient', s, Seen(s)', produced'[s])
             /\ conn' # "reset"
                  => Carries(toClient', s, Seen(s)', produced'[s])
    BY <1>1, <1>2
  <1>4. /\ MirroredInOrder' /\ SuccessIsReported'
        /\ c' = "exited" /\ code' = 0 => conn' = "closing"
    BY DEF IInv, OutputInv, MirroredInOrder, SuccessIsReported
  <1> QED BY <1>3, <1>4 DEF OutputInv

(* Sending leaves what was read alone, and what was not read too unless    *)
(* the connection is reset.                                                *)
LEMMA SentKeeps ==
    ASSUME NEW f, Sent(f) \/ SendFails
    PROVE  \/ UNCHANGED <<conn, toClient>>
           \/ conn = "up" /\ conn' = "reset" /\ toClient' \in Prefixes(toClient)
  BY DEF Sent, SendFails

(* The session takes a message of the server.                              *)
LEMMA OutputTaken == ASSUME IInv, MessageArm PROVE OutputInv'
  <1> DEFINE m == Head(toClient)
  <1>1. /\ c = "select" /\ toClient \in Seq(ServerFrames) /\ toClient # <<>>
        /\ toClient' = Tail(toClient)
        /\ UNCHANGED <<produced, mirrored>>
    BY DEF MessageArm, IInv, TypeOK, ServerType, serverVars, historyVars
  <1>2. m \in ServerFrames BY <1>1, HeadTailProperties
  <1>3. m.kind = "output" => m.stream \in Streams
    BY <1>2 DEF ServerFrames, Output, Exit, Error, CloseFrame
  <1>4. m.kind \in {"output", "exit", "error", "close"}
    BY <1>2 DEF ServerFrames, Output, Exit, Error, CloseFrame
  <1>5. /\ c' = IF m.kind = "output" THEN "write"
                ELSE IF m.kind = "error" THEN "exited" ELSE "select"
        /\ m.kind = "output" => held' = m
        /\ m.kind = "error" => code' = 1
        /\ conn' = "reset" <=> conn = "reset"
    BY ONLY MessageArm, <1>4 DEF MessageArm, Fails, Ends
  <1> HIDE DEF m
  <1>6. ASSUME NEW s \in Streams
        PROVE  /\ Seen(s)' = IF IsChunk(m, s) THEN mirrored[s] + 1
                             ELSE mirrored[s]
               /\ IsChunk(m, s) => m.n = mirrored[s] + 1
               /\ Seen(s)' <= produced[s]
               /\ Begins(toClient', s, Seen(s)', produced[s])
               /\ conn # "reset"
                    => Carries(toClient', s, Seen(s)', produced[s])
    <2>1. /\ Seen(s) = mirrored[s] /\ Seen(s) <= produced[s]
          /\ Begins(toClient, s, mirrored[s], produced[s])
          /\ conn # "reset" => Carries(toClient, s, mirrored[s], produced[s])
      BY <1>1 DEF IInv, OutputInv, Seen
    <2>2. /\ mirrored[s] \in Nat /\ produced[s] \in Nat BY OutputCounts
    <2>3. IF IsChunk(m, s)
            THEN /\ m.n = mirrored[s] + 1 /\ mirrored[s] + 1 <= produced[s]
                 /\ Begins(toClient', s, mirrored[s] + 1, produced[s])
            ELSE Begins(toClient', s, mirrored[s], produced[s])
      BY ONLY <1>1, <2>1, <2>2, BeginsTail DEF m
    <2>4. conn # "reset" =>
            IF IsChunk(m, s)
              THEN Carries(toClient', s, mirrored[s] + 1, produced[s])
              ELSE Carries(toClient', s, mirrored[s], produced[s])
      BY ONLY <1>1, <2>1, <2>2, CarriesTail DEF m
    <2>5. IsChunk(m, s) <=> m.kind = "output" /\ m.stream = s
      BY DEF IsChunk, Streams
    <2>6. Seen(s)' = IF IsChunk(m, s) THEN mirrored[s] + 1 ELSE mirrored[s]
      BY <1>1, <1>5, <2>3, <2>5 DEF Seen
    <2> QED BY <2>1, <2>3, <2>4, <2>6
  <1>7. MirroredInOrder'
    <2> SUFFICES ASSUME c' = "write" PROVE held'.n = mirrored'[held'.stream] + 1
      BY DEF MirroredInOrder
    <2>1. m.kind = "output" /\ held' = m BY <1>4, <1>5
    <2>2. m.stream \in Streams /\ IsChunk(m, m.stream)
      BY <1>3, <2>1 DEF IsChunk, Streams
    <2> QED BY <1>1, <1>6, <2>1, <2>2
  <1>8. c' = "exited" => code' # 0 BY <1>4, <1>5
  <1>9. \A s \in Streams :
          /\ Seen(s)' <= produced'[s]
          /\ Begins(toClient', s, Seen(s)', produced'[s])
          /\ conn' # "reset" => Carries(toClient', s, Seen(s)', produced'[s])
    BY <1>1, <1>5, <1>6
  <1> QED BY <1>7, <1>8, <1>9 DEF OutputInv, SuccessIsReported

(* The session mirrors the chunk it holds.                                 *)
LEMMA OutputWritten == ASSUME IInv, WriteOutput PROVE OutputInv'
  <1>1. /\ c = "write" /\ UNCHANGED <<exit, conn, toClient, produced>>
    BY DEF WriteOutput, serverVars
  <1>2. CASE /\ mirrored' = [mirrored EXCEPT ![held.stream] = held.n]
             /\ c' = "select"
    <2>1. held.stream \in Streams
      BY <1>1 DEF IInv, HoldInv, ServerFrames, Output, Exit, Error, CloseFrame
    <2>2. \A s \in Streams : Seen(s)' = Seen(s)
      BY <1>1, <1>2, <2>1 DEF Seen, IInv, TypeOK, SessionType
    <2> QED BY <1>1, <1>2, <2>2
            DEF IInv, OutputInv, MirroredInOrder, SuccessIsReported
  <1>3. CASE c' = "exited" /\ code' = 1 /\ UNCHANGED mirrored
    BY <1>1, <1>3, OutputStays
  <1> QED BY <1>2, <1>3 DEF WriteOutput, Fails, Ends

(* The loop ends well only when all that was produced was mirrored.        *)
LEMMA OutputEnds == ASSUME IInv, EndArm PROVE OutputInv'
  <1>1. /\ c = "select" /\ c' = "exited" /\ toClient = <<>>
        /\ UNCHANGED <<held, exit, conn, toClient, produced, mirrored>>
        /\ \/ conn = "closing" /\ code' = IF exit = NoCode THEN 1 ELSE exit
           \/ code' = 1
    BY DEF EndArm, Fails, Ends, serverVars, historyVars
  <1>2. ASSUME code' = 0 PROVE mirrored = produced /\ exit = 0 /\ conn = "closing"
    <2>1. conn = "closing" /\ exit = 0 BY <1>1, <1>2
    <2>2. ASSUME NEW s \in Streams PROVE mirrored[s] = produced[s]
      <3>1. /\ Seen(s) <= produced[s] /\ Seen(s) = mirrored[s]
            /\ Carries(<<>>, s, Seen(s), produced[s])
        BY <1>1, <2>1 DEF IInv, OutputInv, Seen
      <3> QED BY <3>1, OutputCounts, CarriesEmpty
    <2>3. /\ mirrored \in [Streams -> 0..MaxOut]
          /\ produced \in [Streams -> 0..MaxOut]
      BY DEF IInv, TypeOK, SessionType, ServerType
    <2> QED BY <2>1, <2>2, <2>3
  <1> QED BY <1>1, <1>2 DEF OutputInv, MirroredInOrder, SuccessIsReported

(* The server sends a chunk.                                               *)
LEMMA OutputProduced ==
    ASSUME IInv, NEW s \in Streams, ServerOutput(s) PROVE OutputInv'
  <1> DEFINE m == Output(s, produced[s] + 1)
  <1>1. /\ conn = "up" /\ toClient' = Append(toClient, m)
        /\ produced' = [produced EXCEPT ![s] = produced[s] + 1]
        /\ UNCHANGED <<c, held, exit, code, mirrored, conn>>
        /\ produced[s] + 1 \in 1..MaxOut
    BY ClientAssumption
    DEF ServerOutput, ServerSends, mainVars, historyVars, IInv, TypeOK,
        ServerType
  <1>2. m \in ServerFrames /\ m.n = produced[s] + 1
        /\ m.kind = "output" /\ m.stream = s
    BY <1>1 DEF ServerFrames, Output
  <1> HIDE DEF m
  <1>3. /\ toClient \in Seq(ServerFrames) /\ produced'[s] = produced[s] + 1
        /\ \A r \in Streams \ {s} : produced'[r] = produced[r]
    BY <1>1 DEF IInv, TypeOK, ServerType
  <1>4. ASSUME NEW r \in Streams, c # "exited"
        PROVE  /\ Seen(r) <= produced'[r]
               /\ Begins(toClient', r, Seen(r), produced'[r])
               /\ Carries(toClient', r, Seen(r), produced'[r])
    <2>1. /\ Seen(r) <= produced[r] /\ Carries(toClient, r, Seen(r), produced[r])
          /\ Seen(r) \in Nat /\ produced[r] \in Nat
      BY <1>1, <1>4, OutputCounts DEF IInv, OutputInv
    <2>2. IsChunk(m, r) <=> r = s BY <1>2 DEF IsChunk, Streams
    <2>3. /\ ~IsChunk(m, r) => Carries(toClient', r, Seen(r), produced[r])
          /\ IsChunk(m, r) /\ m.n = produced[r] + 1
               => Carries(toClient', r, Seen(r), produced[r] + 1)
      BY ONLY <1>1, <1>2, <1>3, <2>1, CarriesAppend
    <2>4. /\ Seen(r) <= produced'[r] /\ produced'[r] \in Nat
          /\ Carries(toClient', r, Seen(r), produced'[r])
      BY <1>2, <1>3, <2>1, <2>2, <2>3
    <2> QED BY <2>1, <2>4, CarriesBegins
  <1>5. c = "exited" => code # 0 BY <1>1 DEF IInv, OutputInv
  <1>6. \A r \in Streams : Seen(r)' = Seen(r) BY <1>1 DEF Seen
  <1> QED BY <1>1, <1>4, <1>5, <1>6
          DEF IInv, OutputInv, MirroredInOrder, SuccessIsReported

(* The server sends its report, or its Close.                              *)
LEMMA OutputReported ==
    ASSUME IInv, NEW m \in ServerFrames, m.kind # "output", ServerSends(m),
           UNCHANGED produced
    PROVE  OutputInv'
  <1>1. /\ conn = "up" /\ toClient' = Append(toClient, m)
        /\ toClient \in Seq(ServerFrames)
        /\ UNCHANGED <<c, held, exit, code, mirrored, conn>>
    BY DEF ServerSends, mainVars, historyVars, IInv, TypeOK, ServerType
  <1>2. ASSUME NEW r \in Streams, c # "exited"
        PROVE  /\ Seen(r) <= produced[r]
               /\ Begins(toClient', r, Seen(r), produced[r])
               /\ Carries(toClient', r, Seen(r), produced[r])
    <2>1. /\ Seen(r) <= produced[r] /\ Carries(toClient, r, Seen(r), produced[r])
          /\ Seen(r) \in Nat /\ produced[r] \in Nat
      BY <1>1, <1>2, OutputCounts DEF IInv, OutputInv
    <2>2. ~IsChunk(m, r) BY DEF IsChunk, Streams
    <2>3. Carries(toClient', r, Seen(r), produced[r])
      BY ONLY <1>1, <2>1, <2>2, CarriesAppend
    <2> QED BY <2>1, <2>3, CarriesBegins
  <1>3. c = "exited" => code # 0 BY <1>1 DEF IInv, OutputInv
  <1>4. \A r \in Streams : Seen(r)' = Seen(r) BY <1>1 DEF Seen
  <1> QED BY <1>1, <1>2, <1>3, <1>4
          DEF IInv, OutputInv, MirroredInOrder, SuccessIsReported

(* No chunk of output is lost, repeated or reordered between the server    *)
(* and local output, and a success accounts for all of them.               *)
LEMMA OutputStep == ASSUME IInv, [Next]_vars PROVE OutputInv'
  <1>1. CASE Connect
    BY <1>1, OutputStays DEF Connect, Fails, Ends, serverVars, historyVars
  <1>2. CASE SendExec
    BY <1>2, OutputStays, SentKeeps
    DEF SendExec, SendFails, Fails, Ends, serverVars, historyVars
  <1>3. CASE SignalArm
    BY <1>3, OutputStays DEF SignalArm, serverVars, historyVars
  <1>4. CASE SendCancel
    BY <1>4, OutputStays, SentKeeps
    DEF SendCancel, SendFails, Fails, Ends, serverVars
  <1>5. CASE CloseSender
    BY <1>5, OutputStays, SentKeeps
    DEF CloseSender, Ends, serverVars, historyVars
  <1>6. CASE StdinArm
    <2>1. /\ c = "select" /\ c' \in {"select", "send_stdin"}
          /\ UNCHANGED <<exit, conn, toClient, produced, mirrored>>
      BY <1>6 DEF StdinArm, serverVars, historyVars
    <2> QED BY <2>1, OutputStays
  <1>7. CASE SendStdin
    BY <1>7, OutputStays, SentKeeps
    DEF SendStdin, SendFails, Fails, Ends, serverVars
  <1>8. CASE Interrupt
    <2>1. /\ UNCHANGED <<held, exit, conn, toClient, produced, mirrored>>
          /\ \/ c # "exited" /\ c' = "exited" /\ code' = 130
             \/ UNCHANGED <<c, code>>
      BY <1>8 DEF Interrupt, Ends, serverVars, historyVars
    <2> QED BY <2>1, OutputStays
  <1>9. CASE ServerReports
    <2>1. PICK r \in {Exit(x) : x \in Codes} \cup {Error} : ServerSends(r)
      BY <1>9 DEF ServerReports
    <2>2. r \in ServerFrames /\ r.kind # "output"
      BY DEF ServerFrames, Exit, Error
    <2> QED BY <1>9, <2>1, <2>2, OutputReported DEF ServerReports
  <1>10. CASE ServerCloses
    <2>1. CloseFrame \in ServerFrames /\ CloseFrame.kind # "output"
      BY DEF ServerFrames, CloseFrame
    <2> QED BY <1>10, <2>1, OutputReported DEF ServerCloses
  <1>11. CASE ConnResets
    BY <1>11, OutputStays DEF ConnResets, mainVars, historyVars
  <1>12. CASE UNCHANGED <<mainVars, conn, toClient, produced, historyVars>>
    BY <1>12, OutputStays DEF mainVars, historyVars
  <1> QED BY <1>1, <1>2, <1>3, <1>4, <1>5, <1>6, <1>7, <1>8, <1>9, <1>10,
             <1>11, <1>12, OutputTaken, OutputWritten, OutputEnds,
             OutputProduced
          DEF Next, MainNext, ServerNext, Over, vars, TaskReads, TaskSends,
              ServerReads, serverVars

-----------------------------------------------------------------------------
(* The invariant holds of a client that has done nothing.                  *)
LEMMA InitIInv == Init => IInv
  <1> SUFFICES ASSUME Init PROVE IInv OBVIOUS
  <1> USE ClientAssumption DEF Init
  <1>1. TypeOK
    <2>1. SessionType
      <3>1. 0 \in 0..MaxIn /\ mirrored \in [Streams -> 0..MaxOut] OBVIOUS
      <3> QED BY ONLY Init, <3>1 DEF Init, SessionType
    <2>2. TaskType BY EmptySeq DEF TaskType
    <2>3. ServerType BY EmptySeq DEF ServerType
    <2> QED BY <2>1, <2>2, <2>3 DEF TypeOK
  <1>2. HoldInv BY DEF HoldInv
  <1>3. StdinInv
    <2>1. Taken = 0 /\ Queued = 0 BY DEF Taken, Queued
    <2>2. Carries(<<>>, "stdin", 0, 0) BY CarriesNothing
    <2> QED BY <2>1, <2>2 DEF StdinInv, EofAfterAllStdin
  <1>4. OutputInv
    <2>1. \A s \in Streams : Seen(s) = 0 /\ produced[s] = 0 BY DEF Seen
    <2>2. \A s \in Streams : Carries(<<>>, s, 0, 0) BY CarriesNothing
    <2>3. \A s \in Streams : Begins(<<>>, s, 0, 0) BY <2>2, CarriesBegins
    <2> QED BY <2>1, <2>2, <2>3 DEF OutputInv, MirroredInOrder, SuccessIsReported
  <1> QED BY <1>1, <1>2, <1>3, <1>4 DEF IInv

(* The invariant holds of every client: each chunk of stdin and of output  *)
(* is accounted for at every await.                                        *)
THEOREM Invariance == Spec => []IInv
  <1>1. IInv /\ [Next]_vars => IInv'
    BY SessionTypeStep, TaskTypeStep, ServerTypeStep, HoldStep, StdinStep,
       OutputStep DEF IInv, TypeOK
  <1> QED BY <1>1, InitIInv, PTL DEF Spec

(* Local stdin has ended for the server only after all of it was sent.     *)
THEOREM EofComesLast == Spec => []EofAfterAllStdin
  <1>1. IInv => EofAfterAllStdin BY DEF IInv, StdinInv
  <1> QED BY <1>1, Invariance, PTL

(* Output goes to the local stream it came from, chunk by chunk.           *)
THEOREM OutputIsMirrored == Spec => []MirroredInOrder
  <1>1. IInv => MirroredInOrder BY DEF IInv, OutputInv
  <1> QED BY <1>1, Invariance, PTL

(* `hostcmd exec` returns 0 only for a command that returned 0, with all   *)
(* of its output.                                                          *)
THEOREM SuccessIsTrue == Spec => []SuccessIsReported
  <1>1. IInv => SuccessIsReported BY DEF IInv, OutputInv
  <1> QED BY <1>1, Invariance, PTL

(* A Stdin frame put on the wire carries the chunk that follows the last   *)
(* one sent, and no end was sent before it.                                *)
LEMMA NextStdinStep ==
    ASSUME IInv, [Next]_vars, NEW n \in 1..MaxIn,
           toServer' = Append(toServer, Stdin(n))
    PROVE  n = forwarded + 1 /\ ~ended
  <1> DEFINE F == Frames \cup {ExecFrame, CloseFrame}
  <1> DEFINE m == Stdin(n)
  <1>1. toServer \in Seq(F) BY DEF IInv, TypeOK, ServerType
  <1>2. m \in F BY DEF Frames
  <1>3. m.kind = "stdin" /\ m.n = n BY DEF Stdin
  <1>4. ExecFrame.kind # "stdin" /\ CloseFrame.kind # "stdin"
        /\ Cancel.kind # "stdin" /\ Cancel \in F
    BY DEF ExecFrame, CloseFrame, Cancel, Frames
  <1>5. ExecFrame \in F /\ CloseFrame \in F OBVIOUS
  <1> HIDE DEF m, F
  <1>6. /\ Len(toServer') = Len(toServer) + 1 /\ Len(toServer) \in Nat
        /\ toServer' # <<>>
    BY <1>1, <1>2, AppendProperties, LenProperties DEF m
  <1>7. toServer' # toServer BY <1>6
  <1>8. ASSUME NEW f \in F, Sent(f) PROVE f = m
    <2>1. toServer' = Append(toServer, f) BY <1>7, <1>8 DEF Sent
    <2>2. Append(toServer, f) = Append(toServer, m) BY <2>1 DEF m
    <2> QED BY ONLY <1>1, <1>2, <1>8, <2>2, AppendSame
  <1>9. ~SendFails BY <1>7 DEF SendFails
  <1>10. CASE SendStdin
    <2>1. c = "send_stdin" /\ Sent(held) BY <1>9, <1>10 DEF SendStdin
    <2>2. held \in F /\ readStdin BY <2>1 DEF F, IInv, HoldInv
    <2>3. held = m BY <1>8, <2>1, <2>2
    <2> QED BY <1>3, <2>1, <2>2, <2>3 DEF IInv, StdinInv
  <1>11. CASE SendExec
    <2>1. Sent(ExecFrame) BY <1>9, <1>11 DEF SendExec
    <2> QED BY <1>3, <1>4, <1>5, <1>8, <2>1
  <1>12. CASE SendCancel
    <2>1. Sent(Cancel) BY <1>9, <1>12 DEF SendCancel
    <2> QED BY <1>3, <1>4, <1>8, <2>1
  <1>13. CASE CloseSender
    <2>1. Sent(CloseFrame) BY <1>7, <1>13 DEF CloseSender
    <2> QED BY <1>3, <1>4, <1>5, <1>8, <2>1
  <1>14. CASE ServerReads
    <2>1. Len(toServer') = Len(toServer) - 1
      BY <1>1, <1>14, HeadTailProperties DEF ServerReads
    <2> QED BY <1>6, <2>1
  <1>15. CASE ConnResets
    <2>1. Len(toServer') <= Len(toServer)
      BY <1>1, <1>15, PrefixElements DEF ConnResets
    <2> QED BY <1>6, <2>1
  <1> QED BY <1>7, <1>10, <1>11, <1>12, <1>13, <1>14, <1>15
          DEF Next, MainNext, ServerNext, Over, vars, Connect, SignalArm,
              StdinArm, MessageArm, EndArm, WriteOutput, TaskReads,
              TaskSends, Interrupt, ServerOutput, ServerReports,
              ServerCloses, ServerSends

(* Stdin goes on the wire chunk by chunk, and its end after the last.      *)
THEOREM StdinIsForwarded == Spec => StdinForwardedInOrder
  <1>1. IInv /\ [Next]_vars
          => [\A n \in 1..MaxIn : toServer' = Append(toServer, Stdin(n))
                                   => n = forwarded + 1 /\ ~ended]_vars
    BY NextStdinStep
  <1> QED BY <1>1, Invariance, PTL DEF Spec, StdinForwardedInOrder
=============================================================================
