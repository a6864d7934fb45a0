-------------------------- MODULE ExecSystemProofs --------------------------
(***************************************************************************)
(* Theorems about ExecSystem, for every value of its constants and every   *)
(* command. The invariant of the server holds of the system, as the system *)
(* implements ServerSession; what is added to it relates the two ends of   *)
(* the connection, and accounts for what the client holds.                 *)
(***************************************************************************)
EXTENDS ExecSystem, ServerSessionInputProofs

(* The ends of the connection. Only one of them may know that it is gone,  *)
(* or have got past the first message.                                     *)
LinkInv ==
    /\ link \in {"up", "closing", "reset"} /\ conn \in {"up", "broken"}
    /\ link = "up" => conn = "up"
    /\ h # "done" /\ conn = "up" => link = "up"
    /\ \A i \in 1..Len(outbox) : outbox[i].kind = "close" => h = "done"
    /\ h = "upgrade" => c \in {"connect", "exited"}
    /\ c = "connect" => h = "upgrade" /\ t = "none"
    /\ c = "send_exec" => h \in {"await_exec", "done"}

(* The client's first message is Exec, and it closes after a Cancel only,  *)
(* so the server has stopped reading before it could read a Close.         *)
StopsReading(i) ==
    \/ ~reading \/ h = "done"
    \/ \E j \in 1..i - 1 : inbox[j].kind = "cancel"

FirstInv ==
    /\ h = "await_exec" /\ inbox # <<>> => inbox[1] = Exec(Command)
    /\ h = "await_exec" /\ link = "up" =>
         inbox # <<>> \/ c \in {"connect", "send_exec", "exited"}
    /\ c = "close" /\ link = "up" => StopsReading(Len(inbox) + 1)
    /\ \A i \in 1..Len(inbox) : inbox[i].kind = "close" => StopsReading(i)

(* What the client has put on the wire, and what it may still put there.   *)
SaidInv ==
    /\ c \in {"connect", "send_exec"} =>
         inbox = <<>> /\ said = {} /\ readStdin /\ ~ended
    /\ link = "up" => fed = forwarded
    /\ Control("close") \in said => c = "exited"
    /\ Control("cancel") \in said => ended
    /\ Control("eof") \in said => ended /\ t = "gone" /\ fed = cFed
    /\ ended => ~readStdin \/ c \in {"close", "exited"}

(* The stdin task of the client: the chunks in its channel follow the last *)
(* one taken from it, and the frame that ends stdin is the last of all.    *)
Pending == IF t = "gone" /\ chan # <<>> THEN Len(chan) - 1 ELSE Len(chan)

TaskInv ==
    /\ chan \in Seq(Client!Frames) /\ t \in {"none", "read", "send", "gone"}
    /\ cFed \in Nat /\ forwarded \in Nat /\ readStdin \in BOOLEAN
    /\ t = "none" => chan = <<>>
    /\ t = "send" => /\ tHeld \in Client!Frames
                     /\ tHeld.kind = "stdin" => tHeld.n = cFed
    /\ \A i \in 1..Len(chan) :
         chan[i].kind # "stdin" <=> i = Len(chan) /\ t = "gone"

ChanInv ==
    c # "exited" =>
        /\ Client!Queued = Client!Taken + Pending
        /\ \A i \in 1..Len(chan) :
             chan[i].kind = "stdin" => chan[i].n = Client!Taken + i

SendInv ==
    c = "send_stdin" =>
        /\ cHeld \in Client!Frames /\ readStdin
        /\ IF cHeld.kind = "stdin" THEN cHeld.n = forwarded + 1
                                   ELSE chan = <<>> /\ t = "gone"

(* Output between the server's end of the connection and local output. A   *)
(* reset may have lost the last of it.                                     *)
OutputInv ==
    /\ mirrored \in [Streams -> Nat]
    /\ c = "write" => cHeld \in OutputFrames
    /\ c # "exited" => \A s \in Streams :
         /\ Client!Seen(s) <= sent[s]
         /\ Begins(outbox, s, Client!Seen(s), sent[s])
         /\ link # "reset" => Carries(outbox, s, Client!Seen(s), sent[s])

(* The exit code the client has, or will read, is the one that was sent.   *)
CodeInv ==
    /\ exit # -1 => final = Exit(exit)
    /\ \A i \in 1..Len(outbox) : outbox[i].kind = "exit" => final = outbox[i]
    /\ c = "exited" /\ code \notin {1, 130} =>
         final = Exit(code) /\ mirrored = sent

ClientInv ==
    /\ LinkInv /\ FirstInv /\ SaidInv /\ TaskInv /\ ChanInv /\ SendInv
    /\ OutputInv /\ CodeInv

SysInv == IInv /\ ClientInv

-----------------------------------------------------------------------------
(* What a step of the server does to the connection: it leaves it alone,   *)
(* reads from it, writes to it, or returns without a Close.                *)

SrvMoves ==
    /\ UNCHANGED <<connVars, wireVars>> /\ (reading' => reading)
    /\ h' = h \/ {h, h'} \cap {"upgrade", "await_exec", "done"} = {}

SrvReads ==
    /\ inbox # <<>> /\ inbox' = Tail(inbox)
    /\ h \notin {"upgrade", "done"} /\ (h = "await_exec" \/ reading)
    /\ h' \notin {"upgrade", "await_exec", "done"}
    /\ conn' = IF Head(inbox).kind = "close" THEN "closing" ELSE conn
    /\ reading' => reading
    /\ Head(inbox).kind = "cancel" /\ h # "await_exec" => ~reading'
    /\ UNCHANGED <<outbox, said, fed, wireVars>>

Puts(m) ==
    /\ conn = "up" /\ h \notin {"upgrade", "await_exec", "done"}
    /\ Len(outbox) < NetCapacity /\ outbox' = Append(outbox, m)
    /\ h' \notin {"upgrade", "await_exec"} /\ (reading' => reading)
    /\ UNCHANGED <<conn, inbox, said, fed>>

PutsOutput(s) ==
    /\ Puts(Output(s, sent[s] + 1)) /\ h' # "done"
    /\ final = NoFrame /\ sent[s] + 1 \in 1..MaxOut
    /\ sent' = [sent EXCEPT ![s] = sent[s] + 1] /\ UNCHANGED final

PutsReport(m) ==
    /\ Puts(m) /\ h' # "done"
    /\ final = NoFrame /\ final' = m /\ UNCHANGED sent

PutsClose ==
    /\ Puts(Control("close")) /\ h' = "done"
    /\ final # NoFrame /\ UNCHANGED wireVars

SrvLeaves ==
    /\ h \notin {"upgrade", "done"} /\ h' = "done" /\ conn # "up"
    /\ UNCHANGED <<connVars, wireVars, reading>>

SrvStep ==
    \/ SrvMoves \/ SrvReads \/ PutsClose \/ SrvLeaves
    \/ \E s \in Streams : PutsOutput(s)
    \/ \E m \in ExitFrames \cup {Error} : PutsReport(m)

(* Output that the handler has taken is the next of its stream.            *)
LEMMA PutsHeld == ASSUME IInv, SendOutput PROVE SrvStep
  <1>1. /\ h = "send_output" /\ conn = "up" /\ h' = "loop"
        /\ Len(outbox) < NetCapacity /\ outbox' = Append(outbox, held)
        /\ IF held.kind = "output"
             THEN sent' = [sent EXCEPT ![held.stream] = held.n] /\ UNCHANGED final
             ELSE final' = held /\ UNCHANGED sent
        /\ UNCHANGED <<conn, inbox, said, fed, reading>>
    BY DEF SendOutput
  <1>2. final = NoFrame /\ held \in ExecEvents
    BY <1>1, NoFinalYet DEF IInv, HoldInv
  <1>3. Puts(held)
    BY <1>1 DEF Puts
  <1>4. CASE held \in OutputFrames
    <2>1. PICK s \in Streams, n \in 1..MaxOut : held = Output(s, n)
      BY <1>4 DEF OutputFrames
    <2>2. held.kind = "output" /\ held.stream = s /\ held.n = n
      BY <2>1 DEF Output
    <2>3. IsChunk(held, s)
      BY <2>2 DEF IsChunk, Streams
    <2>4. StreamInv(s)
      BY <1>1 DEF IInv, ChannelInv
    <2>5. n = sent[s] + 1
      BY <1>1, <2>2, <2>3, <2>4 DEF StreamInv
    <2>6. PutsOutput(s)
      BY <1>1, <1>2, <1>3, <2>1, <2>2, <2>5 DEF PutsOutput
    <2> QED
      BY <2>6 DEF SrvStep
  <1>5. CASE held \in ExitFrames
    <2>1. held.kind # "output"
      BY <1>5 DEF ExitFrames, Exit
    <2>2. PutsReport(held)
      BY <1>1, <1>2, <1>3, <2>1 DEF PutsReport
    <2> QED
      BY <1>5, <2>2 DEF SrvStep
  <1> QED
    BY <1>2, <1>4, <1>5 DEF ExecEvents

(* The handler ends the session with an Error, or a Close.                 *)
LEMMA PutsError == ASSUME IInv, SendError PROVE SrvStep
  <1>1. /\ h = "send_error" /\ h' = "close" /\ UNCHANGED <<conn, inbox, said, fed, reading, sent>>
        /\ IF conn = "up"
             THEN /\ Len(outbox) < NetCapacity
                  /\ outbox' = Append(outbox, Error) /\ final' = Error
             ELSE UNCHANGED <<outbox, final>>
    BY DEF SendError
  <1>2. final = NoFrame
    BY <1>1 DEF IInv, HandlerInv
  <1>3. CASE conn = "up"
    BY <1>1, <1>2, <1>3 DEF SrvStep, PutsReport, Puts
  <1>4. CASE conn # "up"
    BY <1>1, <1>4 DEF SrvStep, SrvMoves, connVars, wireVars
  <1> QED
    BY <1>3, <1>4

LEMMA PutsEnd == ASSUME IInv, Close PROVE SrvStep
  <1>1. /\ h = "close" /\ h' = "done" /\ UNCHANGED <<conn, inbox, said, fed, reading, wireVars>>
        /\ IF conn = "up"
             THEN /\ Len(outbox) < NetCapacity
                  /\ outbox' = Append(outbox, Control("close"))
             ELSE UNCHANGED outbox
    BY DEF Close
  <1>2. CASE conn = "up"
    <2>1. final # NoFrame
      BY <1>1, <1>2 DEF IInv, AnswerBeforeClose
    <2> QED
      BY <1>1, <1>2, <2>1 DEF SrvStep, PutsClose, Puts
  <1>3. CASE conn # "up"
    BY <1>1, <1>3 DEF SrvStep, SrvLeaves, connVars
  <1> QED
    BY <1>2, <1>3

(* Every step of the server but for the upgrade is of one of these kinds.  *)
LEMMA HandlesKind == ASSUME IInv, Handles PROVE SrvStep
  <1>1. h # "upgrade" /\ HandlerNext
    BY DEF Handles
  <1>2. CASE AwaitExec
    <2>1. SrvReads
      BY <1>2 DEF AwaitExec, SrvReads, wireVars
    <2> QED
      BY <2>1 DEF SrvStep
  <1>3. CASE RecvFrame
    <2>1. SrvReads
      BY <1>3 DEF RecvFrame, SrvReads, wireVars
    <2> QED
      BY <2>1 DEF SrvStep
  <1>4. CASE AwaitExecFails \/ SendOutputFails
    <2>1. SrvLeaves
      BY <1>4 DEF AwaitExecFails, SendOutputFails, SrvLeaves, connVars, wireVars
    <2> QED
      BY <2>1 DEF SrvStep
  <1>5. CASE RecvEvent \/ EventsClosed \/ SendOutputLost \/ RecvFails
             \/ SendStdin \/ SendStdinFails \/ AwaitDone
    <2>1. SrvMoves
      BY <1>5 DEF RecvEvent, EventsClosed, SendOutputLost, RecvFails,
                  SendStdin, SendStdinFails, AwaitDone, SrvMoves, connVars,
                  wireVars
    <2> QED
      BY <2>1 DEF SrvStep
  <1>6. ~WsHandler
    BY <1>1 DEF WsHandler
  <1> QED
    BY ONLY <1>1, <1>2, <1>3, <1>4, <1>5, <1>6, IInv, PutsHeld, PutsError, PutsEnd
    DEF HandlerNext

LEMMA TasksKind ==
    ASSUME \/ ExecNext \/ StdinNext \/ CommandNext
           \/ \E s \in Streams : ReaderNext(s)
    PROVE  SrvMoves
  <1>1. UNCHANGED <<connVars, handlerVars, wireVars>>
    BY ExecFrame, StdinFrame, CommandFrame, ReaderFrame
  <1> QED
    BY <1>1 DEF SrvMoves, handlerVars

-----------------------------------------------------------------------------
(* What a send of the client does: the frame goes on the wire, or into the *)
(* void, which resets the connection, or the session fails.                *)

ServerStays == UNCHANGED <<handlerVars, channelVars, taskVars, procVars, wireVars>>

OnWire(m) ==
    /\ link = "up" /\ conn = "up" /\ h \notin {"upgrade", "done"}
    /\ Len(inbox) < NetCapacity /\ inbox' = Append(inbox, m)
    /\ said' = IF m \in StdinFrames THEN said ELSE said \cup {m}
    /\ fed' = IF m \in StdinFrames THEN forwarded' ELSE fed
    /\ UNCHANGED <<link, conn, outbox>>

IntoVoid ==
    /\ link = "up" /\ link' = "reset" /\ h = "done"
    /\ conn = "up" /\ conn' = "broken"
    /\ outbox' \in Prefixes(outbox) /\ UNCHANGED <<inbox, said, fed>>

NotSent == link # "up" /\ UNCHANGED <<link, connVars>>

NewFrames == {inbox'[i] : i \in (Len(inbox) + 1)..Len(inbox')}

(* ClientSession loses of a queue what ServerSession may lose of it.       *)
LEMMA SamePrefixes == ASSUME NEW q PROVE Client!Prefixes(q) = Prefixes(q)
  BY DEF Client!Prefixes, Prefixes

(* What the client knows of a server that is gone. *)
LEMMA SrvGone == Srv = "gone" <=> h = "done" \/ conn = "broken"
  BY DEF Srv

(* Sent and SendFails are of these kinds. *)
LEMMA SentKind ==
    ASSUME SysInv, c \notin {"connect", "exited"},
           conn' = IF link' # link THEN "broken" ELSE conn,
           said' = said \cup (NewFrames \ StdinFrames),
           fed' = IF NewFrames \cap StdinFrames = {} THEN fed ELSE forwarded',
           NEW m \in ClientMessages,
           Client!Sent(m) \/ (link # "up" /\ UNCHANGED <<link, inbox, outbox>>)
    PROVE  OnWire(m) \/ IntoVoid \/ NotSent
  <1>1. /\ conn \in {"up", "broken"} /\ (link = "up" => conn = "up")
        /\ h # "upgrade"
    BY DEF SysInv, ClientInv, LinkInv
  <1>2. inbox \in Seq(ClientMessages) /\ Len(inbox) \in Nat
    BY LenProperties DEF SysInv, IInv, TypeOK, ConnType
  <1>3. ASSUME inbox' = inbox PROVE UNCHANGED <<said, fed>>
    <2>1. (Len(inbox) + 1)..Len(inbox') = {}
      BY <1>2, <1>3
    <2>2. NewFrames = {}
      BY <2>1 DEF NewFrames
    <2> QED
      BY <2>2
  <1>4. ASSUME inbox' = Append(inbox, m)
        PROVE  /\ said' = IF m \in StdinFrames THEN said ELSE said \cup {m}
               /\ fed' = IF m \in StdinFrames THEN forwarded' ELSE fed
    <2>1. Len(inbox') = Len(inbox) + 1 /\ inbox'[Len(inbox) + 1] = m
      BY <1>2, <1>4, AppendProperties
    <2>2. (Len(inbox) + 1)..Len(inbox') = {Len(inbox) + 1}
      BY <1>2, <2>1
    <2>3. NewFrames = {m}
      BY <2>1, <2>2 DEF NewFrames
    <2> QED
      BY <2>3
  <1>5. CASE Client!Sent(m) /\ Srv = "gone"
    <2>1. /\ link = "up" /\ link' = "reset" /\ outbox' \in Prefixes(outbox)
          /\ inbox' = inbox
      BY <1>5, SamePrefixes DEF Client!Sent
    <2>2. h = "done" /\ conn = "up" /\ conn' = "broken"
      BY <1>1, <1>5, <2>1, SrvGone
    <2> QED
      BY <1>3, <2>1, <2>2 DEF IntoVoid
  <1>6. CASE Client!Sent(m) /\ Srv # "gone"
    <2>1. /\ link = "up" /\ Len(inbox) < NetCapacity
          /\ inbox' = Append(inbox, m) /\ UNCHANGED <<link, outbox>>
      BY <1>6 DEF Client!Sent
    <2>2. h # "done"
      BY <1>6, SrvGone
    <2> QED
      BY <1>1, <1>4, <2>1, <2>2 DEF OnWire
  <1>7. CASE link # "up" /\ UNCHANGED <<link, inbox, outbox>>
    BY <1>3, <1>7 DEF NotSent, connVars
  <1> QED
    BY <1>5, <1>6, <1>7

(* The four sends of the client, with what they do besides. A send either  *)
(* comes to its end or the session fails.                                  *)
SendsExec ==
    /\ c = "send_exec" /\ UNCHANGED <<cHeld, readStdin, forwarded, ended>>
    /\ \/ OnWire(Exec(Command)) /\ c' = "select" /\ UNCHANGED code
       \/ IntoVoid /\ c' = "select" /\ UNCHANGED code
       \/ NotSent /\ c' = "exited" /\ code' = 1

SendsStdin ==
    /\ c = "send_stdin" /\ cHeld' = NoFrame
    /\ \/ /\ OnWire(cHeld) \/ IntoVoid
          /\ c' = "select" /\ UNCHANGED code
          /\ readStdin' = (cHeld.kind = "stdin")
          /\ forwarded' = IF cHeld.kind = "stdin" THEN cHeld.n ELSE forwarded
          /\ ended' = (cHeld.kind # "stdin")
       \/ /\ NotSent /\ c' = "exited" /\ code' = 1
          /\ UNCHANGED <<readStdin, forwarded, ended>>

SendsCancel ==
    /\ c = "send_cancel" /\ UNCHANGED <<cHeld, readStdin, forwarded>>
    /\ \/ /\ OnWire(Control("cancel")) \/ IntoVoid
          /\ c' = "close" /\ ended' = TRUE /\ UNCHANGED code
       \/ NotSent /\ c' = "exited" /\ code' = 1 /\ UNCHANGED ended

SendsClose ==
    /\ c = "close" /\ c' = "exited" /\ code' = 130
    /\ UNCHANGED <<cHeld, readStdin, forwarded, ended>>
    /\ OnWire(Control("close")) \/ IntoVoid \/ NotSent

SendStep ==
    /\ ServerStays
    /\ UNCHANGED <<exit, chan, t, tHeld, cFed, mirrored>>
    /\ SendsExec \/ SendsStdin \/ SendsCancel \/ SendsClose
LEMMA FrameMessages ==
    /\ Client!Frames \subseteq ClientMessages
    /\ Client!ExecFrame = Exec(Command) /\ Client!Cancel = Control("cancel")
    /\ Client!Eof = Control("eof") /\ Client!CloseFrame = Control("close")
    /\ {Exec(Command), Control("cancel"), Control("close")}
         \subseteq ClientMessages \ StdinFrames
    /\ \A m \in Client!Frames :
         \/ m.kind = "stdin" /\ m \in StdinFrames
         \/ m.kind \in {"eof", "cancel"} /\ m = Control(m.kind)
            /\ m \notin StdinFrames
  <1>1. /\ Client!ExecFrame = Exec(Command) /\ Client!Cancel = Control("cancel")
        /\ Client!Eof = Control("eof") /\ Client!CloseFrame = Control("close")
    BY DEF Client!Eof, Client!Cancel, Client!ExecFrame, Client!CloseFrame,
           Control, Exec
  <1>2. {Exec(Command), Control("cancel"), Control("close"), Control("eof")}
          \subseteq ClientMessages
    BY SystemAssumption DEF ClientMessages, FrameKinds
  <1>3. \A m \in StdinFrames : m.kind = "stdin" /\ m \in ClientMessages
    BY DEF StdinFrames, Stdin, ClientMessages
  <1>4. /\ Exec(Command).kind = "exec" /\ Control("cancel").kind = "cancel"
        /\ Control("close").kind = "close" /\ Control("eof").kind = "eof"
    BY DEF Exec, Control
  <1>5. Client!Frames = StdinFrames \cup {Control("eof"), Control("cancel")}
    BY <1>1 DEF Client!Frames, StdinFrames, Client!Stdin, Stdin
  <1> QED
    BY <1>1, <1>2, <1>3, <1>4, <1>5

LEMMA SendKind == ASSUME SysInv, ClientSends PROVE SendStep
  <1>1. /\ conn' = IF link' # link THEN "broken" ELSE conn
        /\ said' = said \cup (NewFrames \ StdinFrames)
        /\ fed' = IF NewFrames \cap StdinFrames = {} THEN fed ELSE forwarded'
    BY DEF ClientSends, NewFrames
  <1> DEFINE Fate(m) == OnWire(m) \/ IntoVoid \/ NotSent
  <1>2. ASSUME NEW m \in ClientMessages, c \notin {"connect", "exited"},
               Client!Sent(m) \/ (link # "up" /\ UNCHANGED <<link, inbox, outbox>>)
        PROVE  Fate(m)
    BY <1>1, <1>2, SentKind
  <1>3. ServerStays
    BY DEF ClientSends, ServerStays
  <1>4. ASSUME NEW m \in ClientMessages, Client!Sent(m), c \notin {"connect", "exited"}
        PROVE  OnWire(m) \/ IntoVoid
    <2>1. link = "up"
      BY <1>4 DEF Client!Sent
    <2> QED
      BY <1>2, <1>4, <2>1 DEF NotSent
  <1>5. ASSUME link # "up" /\ UNCHANGED <<link, inbox, outbox>>,
               c \notin {"connect", "exited"}
        PROVE  NotSent
    BY <1>2, <1>5, FrameMessages DEF OnWire, IntoVoid
  <1> HIDE DEF Fate
  <1>6. CASE Client!SendExec
    <2>1. /\ c = "send_exec"
          /\ \/ Client!Sent(Exec(Command)) /\ c' = "select" /\ UNCHANGED code
             \/ /\ link # "up" /\ UNCHANGED <<link, inbox, outbox>>
                /\ c' = "exited" /\ code' = 1
          /\ UNCHANGED <<cHeld, readStdin, forwarded, ended, exit, chan, t,
                         tHeld, cFed, mirrored>>
      BY <1>6, FrameMessages
      DEF Client!SendExec, Client!SendFails, Client!Fails, Client!Ends,
          Client!taskVars, Client!historyVars
    <2>2. SendsExec
      BY ONLY <1>4, <1>5, <2>1, FrameMessages DEF SendsExec
    <2> QED
      BY <1>3, <2>1, <2>2 DEF SendStep
  <1>7. CASE Client!SendStdin
    <2>1. /\ c = "send_stdin" /\ cHeld' = NoFrame
          /\ \/ /\ Client!Sent(cHeld) /\ c' = "select"
                /\ readStdin' = (cHeld.kind = "stdin")
                /\ forwarded' = IF cHeld.kind = "stdin" THEN cHeld.n ELSE forwarded
                /\ ended' = (cHeld.kind # "stdin")
                /\ UNCHANGED code
             \/ /\ link # "up" /\ UNCHANGED <<link, inbox, outbox>>
                /\ c' = "exited" /\ code' = 1
                /\ UNCHANGED <<readStdin, forwarded, ended>>
          /\ UNCHANGED <<exit, chan, t, tHeld, cFed, mirrored>>
      BY <1>7
      DEF Client!SendStdin, Client!SendFails, Client!Fails, Client!Ends,
          Client!taskVars, Client!NoFrame, NoFrame
    <2>2. cHeld \in ClientMessages
      BY <2>1, FrameMessages DEF SysInv, ClientInv, SendInv
    <2>3. SendsStdin
      BY ONLY <1>4, <1>5, <2>1, <2>2 DEF SendsStdin
    <2> QED
      BY <1>3, <2>1, <2>3 DEF SendStep
  <1>8. CASE Client!SendCancel
    <2>1. /\ c = "send_cancel"
          /\ \/ /\ Client!Sent(Control("cancel")) /\ c' = "close"
                /\ ended' = TRUE /\ UNCHANGED code
             \/ /\ link # "up" /\ UNCHANGED <<link, inbox, outbox>>
                /\ c' = "exited" /\ code' = 1 /\ UNCHANGED ended
          /\ UNCHANGED <<cHeld, readStdin, forwarded, exit, chan, t, tHeld,
                         cFed, mirrored>>
      BY <1>8, FrameMessages
      DEF Client!SendCancel, Client!SendFails, Client!Fails, Client!Ends,
          Client!taskVars
    <2>2. SendsCancel
      BY ONLY <1>4, <1>5, <2>1, FrameMessages DEF SendsCancel
    <2> QED
      BY <1>3, <2>1, <2>2 DEF SendStep
  <1>9. CASE Client!CloseSender
    <2>1. /\ c = "close" /\ c' = "exited" /\ code' = 130
          /\ \/ Client!Sent(Control("close"))
             \/ link # "up" /\ UNCHANGED <<link, inbox, outbox>>
          /\ UNCHANGED <<cHeld, readStdin, forwarded, ended, exit, chan, t,
                         tHeld, cFed, mirrored>>
      BY <1>9, FrameMessages
      DEF Client!CloseSender, Client!Ends, Client!taskVars, Client!historyVars
    <2>2. SendsClose
      BY ONLY <1>4, <1>5, <2>1, FrameMessages DEF SendsClose
    <2> QED
      BY <1>3, <2>1, <2>2 DEF SendStep
  <1> QED
    BY <1>6, <1>7, <1>8, <1>9 DEF ClientSends
-----------------------------------------------------------------------------
(* The system implements ServerSession: what this client sends is what a   *)
(* client may send there.                                                  *)

LEMMA AllowedOnWire ==
    ASSUME ServerStays, NEW m \in ClientMessages, OnWire(m),
           m.kind \in ClientFrames, Control("close") \notin said,
           IF m \in StdinFrames
             THEN /\ m.kind = "stdin" /\ m.n = fed + 1 /\ forwarded' = m.n
                  /\ Control("eof") \notin said /\ Control("cancel") \notin said
             ELSE m.kind # "stdin" /\ (m \notin said \/ m.kind = "cancel")
    PROVE  Next
  <1>1. ClientSend(m)
    BY DEF ClientSend, OnWire, ServerStays
  <1> QED
    BY <1>1 DEF Next, ClientNext

LEMMA VoidIsBreak ==
    ASSUME SysInv, ServerStays, IntoVoid \/ NotSent
    PROVE  [Next]_vars
  <1>1. CASE IntoVoid
    <2>1. inbox \in Prefixes(inbox)
      BY AllIsPrefix DEF SysInv, IInv, TypeOK, ConnType
    <2>2. ConnBreaks
      BY <1>1, <2>1 DEF IntoVoid, ServerStays, ConnBreaks
    <2> QED
      BY <2>2 DEF Next, ClientNext
  <1>2. CASE NotSent
    BY <1>2 DEF NotSent, ServerStays, vars
  <1> QED
    BY <1>1, <1>2

LEMMA SendsAllowed == ASSUME SysInv, SendStep PROVE [Next]_vars
  <1>1. ServerStays
    BY DEF SendStep
  <1>2. /\ Control("close") \in said => c = "exited"
        /\ Control("eof") \in said \/ Control("cancel") \in said => ended
        /\ c \in {"connect", "send_exec"} => said = {}
        /\ c = "send_stdin" => ~ended
        /\ link = "up" => fed = forwarded
    BY DEF SysInv, ClientInv, SaidInv, SendInv
  <1>3. {"exec", "stdin", "eof", "cancel", "close"} \subseteq ClientFrames
    BY SystemAssumption
  <1>4. CASE SendsExec
    <2>1. CASE OnWire(Exec(Command))
      <3>1. Exec(Command).kind = "exec"
        BY DEF Exec
      <3> QED
        BY <1>1, <1>2, <1>3, <1>4, <2>1, <3>1, FrameMessages, AllowedOnWire
        DEF SendsExec
    <2>2. CASE IntoVoid \/ NotSent
      BY <1>1, <2>2, VoidIsBreak
    <2> QED
      BY <1>4, <2>1, <2>2 DEF SendsExec
  <1>5. CASE SendsStdin
    <2>1. CASE OnWire(cHeld) /\ ~NotSent
      <3>1. /\ c = "send_stdin" /\ link = "up"
            /\ forwarded' = IF cHeld.kind = "stdin" THEN cHeld.n ELSE forwarded
        BY <1>5, <2>1 DEF SendsStdin, OnWire
      <3>2. /\ cHeld \in Client!Frames
            /\ cHeld.kind = "stdin" => cHeld.n = forwarded + 1
        BY <3>1 DEF SysInv, ClientInv, SendInv
      <3>3. /\ cHeld \in ClientMessages
            /\ \/ cHeld.kind = "stdin" /\ cHeld \in StdinFrames
               \/ cHeld.kind \in {"eof", "cancel"} /\ cHeld = Control(cHeld.kind)
                  /\ cHeld \notin StdinFrames
        BY <3>2, FrameMessages
      <3>4. cHeld \notin StdinFrames => cHeld \notin said
        BY <1>2, <3>1, <3>3
      <3> QED
        BY <1>1, <1>2, <1>3, <2>1, <3>1, <3>2, <3>3, <3>4, AllowedOnWire
    <2>2. CASE IntoVoid \/ NotSent
      BY <1>1, <2>2, VoidIsBreak
    <2> QED
      BY <1>5, <2>1, <2>2 DEF SendsStdin
  <1>6. CASE SendsCancel
    <2>1. CASE OnWire(Control("cancel"))
      <3>1. Control("cancel").kind = "cancel"
        BY DEF Control
      <3> QED
        BY <1>1, <1>2, <1>3, <1>6, <2>1, <3>1, FrameMessages, AllowedOnWire
        DEF SendsCancel
    <2>2. CASE IntoVoid \/ NotSent
      BY <1>1, <2>2, VoidIsBreak
    <2> QED
      BY <1>6, <2>1, <2>2 DEF SendsCancel
  <1>7. CASE SendsClose
    <2>1. CASE OnWire(Control("close"))
      <3>1. Control("close").kind = "close"
        BY DEF Control
      <3> QED
        BY <1>1, <1>2, <1>3, <1>7, <2>1, <3>1, FrameMessages, AllowedOnWire
        DEF SendsClose
    <2>2. CASE IntoVoid \/ NotSent
      BY <1>1, <2>2, VoidIsBreak
    <2> QED
      BY <1>7, <2>1, <2>2 DEF SendsClose
  <1> QED
    BY <1>4, <1>5, <1>6, <1>7 DEF SendStep

LEMMA ServerStepOf == ASSUME SysInv, [SystemNext]_systemVars PROVE [Next]_vars
  <1>1. CASE Connects
    BY <1>1 DEF Connects, Next, HandlerNext
  <1>2. CASE ClientSends
    BY <1>2, SendKind, SendsAllowed
  <1>3. CASE ClientReceives
    BY <1>3 DEF ClientReceives, Next, ClientNext
  <1>4. CASE NetBreaks
    BY <1>4 DEF NetBreaks, Next, ClientNext
  <1>5. CASE ClientSteps \/ StdinTask \/ UserInterrupts \/ SystemOver
             \/ UNCHANGED systemVars
    BY <1>5 DEF ClientSteps, StdinTask, UserInterrupts, SystemOver, systemVars
  <1>6. CASE \/ ServerStep(Handles) \/ ServerStep(ExecNext) \/ ServerStep(StdinNext)
             \/ \E s \in Streams : ServerStep(ReaderNext(s))
             \/ ServerStep(CommandNext)
    BY <1>6 DEF ServerStep, Handles, Next
  <1> QED
    BY <1>1, <1>2, <1>3, <1>4, <1>5, <1>6 DEF SystemNext, StepsWith, ClientMain
-----------------------------------------------------------------------------
(* The system implements ClientSession: what this server does is what a    *)
(* server may do there.                                                    *)

(* A step of the server, as the client sees it. The server reads no Close. *)
ServerKeeps == UNCHANGED <<clientVars, link, conn, said, fed>>

AnyServerStep ==
    \/ ServerStep(Handles) \/ ServerStep(ExecNext) \/ ServerStep(StdinNext)
    \/ \E s \in Streams : ServerStep(ReaderNext(s))
    \/ ServerStep(CommandNext)

LEMMA ReadsNoClose ==
    ASSUME SysInv, SrvReads
    PROVE  Head(inbox) = inbox[1] /\ inbox[1].kind # "close"
  <1>1. inbox \in Seq(ClientMessages) /\ inbox # <<>>
    BY DEF SrvReads, SysInv, IInv, TypeOK, ConnType
  <1>2. Head(inbox) = inbox[1] /\ 1 \in 1..Len(inbox)
    BY <1>1, HeadTailProperties, LenProperties, EmptySeq
  <1>3. CASE h = "await_exec"
    BY <1>1, <1>2, <1>3 DEF SysInv, ClientInv, FirstInv, Exec
  <1>4. CASE h # "done" /\ reading
    <2>1. ~StopsReading(1)
      BY <1>4 DEF StopsReading
    <2> QED
      BY <1>2, <2>1 DEF SysInv, ClientInv, FirstInv
  <1> QED
    BY <1>2, <1>3, <1>4 DEF SrvReads

LEMMA ServerKind == ASSUME SysInv, AnyServerStep PROVE SrvStep /\ ServerKeeps
  <1>1. /\ IInv /\ (link = "up" => conn = "up")
    BY DEF SysInv, ClientInv, LinkInv
  <1>2. SrvStep
    <2>1. CASE ServerStep(Handles)
      BY <1>1, <2>1, HandlesKind DEF ServerStep
    <2>2. CASE \/ ServerStep(ExecNext) \/ ServerStep(StdinNext)
               \/ \E s \in Streams : ServerStep(ReaderNext(s))
               \/ ServerStep(CommandNext)
      BY <2>2, TasksKind DEF ServerStep, SrvStep
    <2> QED
      BY <2>1, <2>2 DEF AnyServerStep
  <1>3. UNCHANGED <<clientVars, link>>
    BY <1>1 DEF AnyServerStep, ServerStep
  <1>4. UNCHANGED <<said, fed>>
    BY <1>2 DEF SrvStep, SrvMoves, SrvReads, PutsClose, SrvLeaves, PutsOutput,
                PutsReport, Puts, connVars
  <1>5. UNCHANGED conn
    <2>1. CASE SrvReads
      BY <2>1, ReadsNoClose DEF SrvReads
    <2>2. CASE ~SrvReads
      BY <1>2, <2>2 DEF SrvStep, SrvMoves, PutsClose, SrvLeaves, PutsOutput,
                        PutsReport, Puts, connVars
    <2> QED
      BY <2>1, <2>2
  <1> QED
    BY <1>2, <1>3, <1>4, <1>5 DEF ServerKeeps

(* Writing is sending, in ClientSession, which its server does only when   *)
(* the client has asked for a command.                                     *)
LEMMA PutsIsSends ==
    ASSUME SysInv, ServerKeeps, NEW m, Puts(m)
    PROVE  /\ Client!ServerSends(m)
           /\ Srv = IF final = NoFrame THEN "serving" ELSE "reported"
  <1>1. link = "up" /\ c \notin {"connect", "send_exec"}
    BY DEF SysInv, ClientInv, LinkInv, Puts
  <1>2. Client!ServerSends(m)
    BY <1>1 DEF Client!ServerSends, Puts, ServerKeeps, clientVars,
                Client!mainVars, Client!taskVars, Client!historyVars
  <1> QED
    BY <1>2 DEF Puts, Srv

LEMMA ServerOfClient ==
    ASSUME SysInv, SrvStep, ServerKeeps
    PROVE  [Client!Next]_(Client!vars)
  <1>1. UNCHANGED <<clientVars, link, conn>>
    BY DEF ServerKeeps
  <1>2. UNCHANGED <<Client!mainVars, Client!taskVars, Client!historyVars, chan,
                    sigint>>
    BY <1>1 DEF clientVars, Client!mainVars, Client!taskVars, Client!historyVars
  <1>3. CASE SrvMoves \/ SrvLeaves
    <2>1. UNCHANGED <<inbox, outbox, sent, final>>
      BY <1>3 DEF SrvMoves, SrvLeaves, connVars, wireVars
    <2>2. Srv' = Srv
      <3>1. CASE SrvMoves
        BY <1>1, <2>1, <3>1 DEF SrvMoves, Srv
      <3>2. CASE SrvLeaves
        BY <1>1, <2>1, <3>2 DEF SrvLeaves, Srv, SysInv, ClientInv, LinkInv
      <3> QED
        BY <1>3, <3>1, <3>2
    <2> QED
      BY <1>1, <1>2, <2>1, <2>2 DEF Client!vars, Client!serverVars
  <1>4. CASE SrvReads
    <2>1. /\ inbox # <<>> /\ inbox' = Tail(inbox)
          /\ UNCHANGED <<outbox, sent, final>> /\ (h' = "done" <=> h = "done")
      BY <1>4 DEF SrvReads, wireVars
    <2>2. Srv' = Srv
      BY <1>1, <2>1 DEF Srv
    <2>3. Client!ServerReads
      BY <1>1, <1>2, <2>1, <2>2 DEF Client!ServerReads, Client!serverVars
    <2> QED
      BY <2>3 DEF Client!Next, Client!ServerNext
  <1>5. ASSUME NEW s \in Streams, PutsOutput(s)
        PROVE  Client!Next
    <2>1. /\ Puts(Output(s, sent[s] + 1)) /\ h' # "done"
          /\ final = NoFrame /\ final' = final /\ sent[s] + 1 \in 1..MaxOut
          /\ sent' = [sent EXCEPT ![s] = sent[s] + 1]
      BY <1>5 DEF PutsOutput
    <2>2. Client!ServerSends(Output(s, sent[s] + 1)) /\ Srv = "serving"
      BY <2>1, PutsIsSends
    <2>3. Srv' = Srv
      BY <1>1, <2>1, <2>2, SrvGone DEF Srv
    <2>4. sent[s] < MaxOut
      BY <2>1, BoundAssumption DEF SysInv, IInv, TypeOK, WireType
    <2>5. Client!ServerOutput(s)
      BY <2>1, <2>2, <2>3, <2>4 DEF Client!ServerOutput, Client!Output, Output
    <2> QED
      BY <2>5 DEF Client!Next, Client!ServerNext, Client!Streams, Streams
  <1>6. ASSUME NEW m \in ExitFrames \cup {Error}, PutsReport(m)
        PROVE  Client!Next
    <2>1. /\ Puts(m) /\ h' # "done" /\ UNCHANGED sent
          /\ final = NoFrame /\ final' = m
      BY <1>6 DEF PutsReport
    <2>2. Client!ServerSends(m) /\ Srv = "serving" /\ conn = "up"
      BY <2>1, PutsIsSends DEF Puts
    <2>3. m # NoFrame
      BY DEF ExitFrames, Exit, Error, NoFrame
    <2>4. Srv' = "reported"
      BY <1>1, <2>1, <2>2, <2>3 DEF Srv
    <2>5. m \in {Client!Exit(x) : x \in {ExitCode(s) : s \in Statuses}}
                 \cup {Client!Error}
      BY DEF ExitFrames, Client!Exit, Exit, Client!Error, Error
    <2>6. Client!ServerReports
      BY <2>1, <2>2, <2>4, <2>5 DEF Client!ServerReports
    <2> QED
      BY <2>6 DEF Client!Next, Client!ServerNext
  <1>7. CASE PutsClose
    <2>1. /\ Puts(Control("close")) /\ h' = "done" /\ final # NoFrame
          /\ UNCHANGED sent
      BY <1>7 DEF PutsClose, wireVars
    <2>2. Client!ServerSends(Client!CloseFrame) /\ Srv = "reported"
      BY <2>1, PutsIsSends, FrameMessages
    <2>3. Srv' = "gone"
      BY <2>1 DEF Srv
    <2>4. Client!ServerCloses
      BY <2>1, <2>2, <2>3 DEF Client!ServerCloses
    <2> QED
      BY <2>4 DEF Client!Next, Client!ServerNext
  <1> QED
    BY <1>3, <1>4, <1>5, <1>6, <1>7 DEF SrvStep

LEMMA ClientStepOf ==
    ASSUME SysInv, [SystemNext]_systemVars
    PROVE  [Client!Next]_(Client!vars)
  <1>1. CASE Connects
    BY <1>1 DEF Connects, Client!Next, Client!MainNext
  <1>2. CASE ClientSends
    BY <1>2 DEF ClientSends, Client!Next, Client!MainNext
  <1>3. CASE ClientReceives
    BY <1>3 DEF ClientReceives, Client!Next, Client!MainNext
  <1>4. CASE ClientSteps
    BY <1>4 DEF ClientSteps, Client!Next, Client!MainNext
  <1>5. CASE StdinTask
    BY <1>5 DEF StdinTask, Client!Next
  <1>6. CASE UserInterrupts
    BY <1>6 DEF UserInterrupts, Client!Next
  <1>7. CASE NetBreaks
    BY <1>7 DEF NetBreaks, Client!Next, Client!ServerNext
  <1>8. CASE AnyServerStep
    BY <1>8, ServerKind, ServerOfClient
  <1>9. CASE SystemOver \/ UNCHANGED systemVars
    BY <1>9
    DEF SystemOver, systemVars, vars, connVars, handlerVars, wireVars,
        clientVars, Srv, Client!vars, Client!mainVars, Client!taskVars,
        Client!serverVars, Client!historyVars
  <1> QED
    BY ONLY [SystemNext]_systemVars, <1>1, <1>2, <1>3, <1>4, <1>5, <1>6, <1>7,
            <1>8, <1>9
    DEF SystemNext, StepsWith, ClientMain, AnyServerStep
-----------------------------------------------------------------------------
(* The invariant.                                                          *)

LEMMA TailElements ==
    ASSUME NEW S, NEW q \in Seq(S), q # <<>>
    PROVE  /\ Len(q) \in Nat \ {0} /\ Len(Tail(q)) = Len(q) - 1
           /\ Head(q) = q[1] /\ Head(q) \in S /\ Tail(q) \in Seq(S)
           /\ \A i \in 1..Len(Tail(q)) :
                i + 1 \in 1..Len(q) /\ Tail(q)[i] = q[i + 1]
  <1>1. Len(q) \in Nat \ {0}
    BY LenProperties, EmptySeq
  <1>2. /\ Len(Tail(q)) = Len(q) - 1 /\ Head(q) = q[1] /\ Head(q) \in S
        /\ Tail(q) \in Seq(S)
        /\ \A i \in 1..Len(Tail(q)) : Tail(q)[i] = q[i + 1]
    BY <1>1, HeadTailProperties
  <1> QED
    BY <1>1, <1>2

LEMMA AppendElements ==
    ASSUME NEW S, NEW q \in Seq(S), NEW m \in S
    PROVE  /\ Len(q) \in Nat /\ Len(Append(q, m)) = Len(q) + 1
           /\ Append(q, m) \in Seq(S)
           /\ \A i \in 1..Len(Append(q, m)) :
                Append(q, m)[i] = IF i = Len(q) + 1 THEN m ELSE q[i]
  <1>1. Len(q) \in Nat
    BY LenProperties
  <1>2. /\ Len(Append(q, m)) = Len(q) + 1 /\ Append(q, m) \in Seq(S)
        /\ \A i \in 1..Len(q) : Append(q, m)[i] = q[i]
        /\ Append(q, m)[Len(q) + 1] = m
    BY AppendProperties
  <1> QED
    BY <1>1, <1>2

LEMMA QueueTypes ==
    ASSUME SysInv
    PROVE  /\ inbox \in Seq(ClientMessages) /\ Len(inbox) \in Nat
           /\ outbox \in Seq(ServerFrames) /\ Len(outbox) \in Nat
  BY LenProperties DEF SysInv, IInv, TypeOK, ConnType

(* What the client reads, and what the steps that leave the wires alone do *)
(* to the place the session is at.                                         *)
Receives ==
    LET m == Head(outbox) IN
      /\ c = "select" /\ outbox # <<>> /\ outbox' = Tail(outbox)
      /\ c' = CASE m.kind = "output" -> "write"
                [] m.kind = "error" -> "exited"
                [] OTHER -> "select"
      /\ cHeld' = IF m.kind = "output" THEN m ELSE cHeld
      /\ exit' = IF m.kind = "exit" THEN m.code ELSE exit
      /\ code' = IF m.kind = "error" THEN 1 ELSE code
      /\ link' = IF m.kind = "close" /\ link = "up" THEN "closing" ELSE link
      /\ UNCHANGED <<conn, inbox, said, fed, handlerVars, wireVars, readStdin,
                     chan, t, tHeld, cFed, forwarded, ended, mirrored>>

LEMMA ReceivesKind == ASSUME SysInv, ClientReceives PROVE Receives
  <1> DEFINE m == Head(outbox)
  <1>1. Client!MessageArm /\ ClientRead
    BY DEF ClientReceives
  <1>2. outbox # <<>> /\ outbox' = Tail(outbox) /\ c = "select"
        /\ UNCHANGED <<conn, inbox, said, fed, handlerVars, wireVars, readStdin,
                       chan, t, tHeld, cFed, forwarded, ended, mirrored>>
    BY <1>1 DEF Client!MessageArm, ClientRead, Client!taskVars, Client!historyVars
  <1>3. m \in ServerFrames
    BY <1>2, QueueTypes, HeadTailProperties
  <1>4. m.kind \in {"output", "exit", "error", "close"}
    BY <1>3 DEF ServerFrames, ExecEvents, OutputFrames, ExitFrames, Output,
                Exit, Error, Control
  <1>5. CASE m.kind = "output" /\ c' = "write" /\ cHeld' = m
             /\ UNCHANGED <<exit, code, link>>
    BY <1>2, <1>5 DEF Receives
  <1>6. CASE m.kind = "exit" /\ exit' = m.code /\ UNCHANGED <<c, cHeld, code, link>>
    BY <1>2, <1>6 DEF Receives
  <1>7. CASE m.kind = "error" /\ c' = "exited" /\ code' = 1
             /\ UNCHANGED <<cHeld, exit, link>>
    BY <1>2, <1>7 DEF Receives
  <1>8. CASE m.kind = "close" /\ link' = (IF link = "up" THEN "closing" ELSE link)
             /\ UNCHANGED <<c, cHeld, exit, code>>
    BY <1>2, <1>8 DEF Receives
  <1>9. \/ m.kind = "output" /\ c' = "write" /\ cHeld' = m
            /\ UNCHANGED <<exit, code, link>>
        \/ m.kind = "exit" /\ exit' = m.code /\ UNCHANGED <<c, cHeld, code, link>>
        \/ m.kind = "error" /\ c' = "exited" /\ code' = 1
            /\ UNCHANGED <<cHeld, exit, link>>
        \/ m.kind = "close" /\ link' = (IF link = "up" THEN "closing" ELSE link)
            /\ UNCHANGED <<c, cHeld, exit, code>>
    BY ONLY <1>1, <1>4 DEF Client!MessageArm, Client!Fails, Client!Ends
  <1> QED
    BY <1>5, <1>6, <1>7, <1>8, <1>9

(* Steps of the client that leave the connection alone.                    *)
LocalStep ==
    /\ UNCHANGED vars /\ UNCHANGED link
    /\ \/ Client!SignalArm \/ Client!StdinArm \/ Client!EndArm
       \/ Client!WriteOutput \/ Client!TaskReads \/ Client!TaskSends
       \/ Client!Interrupt

LEMMA LocalKind ==
    ASSUME ClientSteps \/ StdinTask \/ UserInterrupts
    PROVE  LocalStep
  BY DEF ClientSteps, StdinTask, UserInterrupts, LocalStep, Client!SignalArm,
         Client!StdinArm, Client!EndArm, Client!WriteOutput, Client!TaskReads,
         Client!TaskSends, Client!Interrupt

(* The steps, by what they do.                                             *)
Idle == UNCHANGED systemVars

LEMMA StepKinds ==
    ASSUME SysInv, [SystemNext]_systemVars
    PROVE  \/ Connects \/ SendStep \/ Receives \/ LocalStep \/ NetBreaks
           \/ (SrvStep /\ ServerKeeps) \/ Idle
  <1>1. CASE SystemOver \/ UNCHANGED systemVars
    BY <1>1 DEF SystemOver, Idle
  <1>2. CASE ClientSends
    BY <1>2, SendKind
  <1>3. CASE ClientReceives
    BY <1>3, ReceivesKind
  <1>4. CASE ClientSteps \/ StdinTask \/ UserInterrupts
    BY <1>4, LocalKind
  <1>5. CASE AnyServerStep
    BY <1>5, ServerKind
  <1> QED
    BY ONLY [SystemNext]_systemVars, <1>1, <1>2, <1>3, <1>4, <1>5
    DEF SystemNext, StepsWith, ClientMain, AnyServerStep
-----------------------------------------------------------------------------
(* The other steps of the client, by what they do: the upgrade, the loss   *)
(* of the connection, and those that leave the connection alone.           *)

inVars == <<readStdin, chan, t, tHeld, cFed, forwarded, ended>>

ConnectStep ==
    /\ c = "connect" /\ h = "upgrade" /\ h' \in {"upgrade", "await_exec", "done"}
    /\ \/ c' = "send_exec" /\ h' = "await_exec" /\ t' = "read" /\ UNCHANGED code
       \/ c' = "exited" /\ code' = 1 /\ UNCHANGED t
    /\ UNCHANGED <<connVars, reading, wireVars, link, cHeld, exit, readStdin,
                   chan, tHeld, cFed, forwarded, ended, mirrored>>

BreakStep ==
    /\ conn = "up" /\ conn' = "broken" /\ link = "up" /\ link' = "reset"
    /\ h # "upgrade"
    /\ inbox' \in Prefixes(inbox) /\ outbox' \in Prefixes(outbox)
    /\ UNCHANGED <<said, fed, h, reading, wireVars, c, cHeld, exit, code,
                   inVars, mirrored>>

Quiet == UNCHANGED <<connVars, h, reading, wireVars, link, exit>>

Signals ==
    /\ \/ c = "select" /\ c' = "send_cancel" /\ UNCHANGED code
       \/ c # "exited" /\ c' = "exited" /\ code' = 130
       \/ UNCHANGED <<c, code>>
    /\ UNCHANGED <<cHeld, inVars, mirrored>>

FetchesStdin ==
    /\ c = "select" /\ c' = "send_stdin" /\ readStdin
    /\ chan # <<>> /\ cHeld' = Head(chan) /\ chan' = Tail(chan)
    /\ UNCHANGED <<code, readStdin, t, tHeld, cFed, forwarded, ended, mirrored>>

LeavesStdin ==
    /\ c = "select" /\ chan = <<>> /\ t = "gone" /\ readStdin' = FALSE
    /\ UNCHANGED <<c, cHeld, code, chan, t, tHeld, cFed, forwarded, ended,
                   mirrored>>

EndsSession ==
    /\ c = "select" /\ c' = "exited" /\ outbox = <<>>
    /\ \/ link = "closing" /\ code' = IF exit = -1 THEN 1 ELSE exit
       \/ code' = 1
    /\ UNCHANGED <<cHeld, inVars, mirrored>>

Mirrors ==
    /\ c = "write"
    /\ \/ /\ mirrored' = [mirrored EXCEPT ![cHeld.stream] = cHeld.n]
          /\ c' = "select" /\ UNCHANGED code
       \/ c' = "exited" /\ code' = 1 /\ UNCHANGED mirrored
    /\ UNCHANGED inVars

ReadsStdin ==
    /\ t = "read" /\ t' = "send"
    /\ \/ cFed' = cFed + 1 /\ tHeld' = Client!Stdin(cFed + 1)
          /\ cFed + 1 \in 1..MaxIn
       \/ tHeld' \in {Client!Eof, Client!Cancel} /\ UNCHANGED cFed
    /\ UNCHANGED <<c, cHeld, code, readStdin, chan, forwarded, ended, mirrored>>

QueuesStdin ==
    /\ t = "send" /\ chan' = Append(chan, tHeld)
    /\ t' = IF tHeld.kind = "stdin" THEN "read" ELSE "gone"
    /\ tHeld' = NoFrame
    /\ UNCHANGED <<c, cHeld, code, readStdin, cFed, forwarded, ended, mirrored>>

QuietStep ==
    /\ Quiet
    /\ \/ Signals \/ FetchesStdin \/ LeavesStdin \/ EndsSession \/ Mirrors
       \/ ReadsStdin \/ QueuesStdin

LEMMA ConnectKind == ASSUME SysInv, Connects PROVE ConnectStep
  <1>1. /\ c = "connect" /\ h = "upgrade"
        /\ \/ c' = "send_exec" /\ t' = "read" /\ UNCHANGED code
           \/ c' = "exited" /\ code' = 1 /\ UNCHANGED t
        /\ UNCHANGED <<link, cHeld, exit, readStdin, chan, tHeld, cFed,
                       forwarded, ended, mirrored>>
    BY DEF Connects, Client!Connect, Client!Fails, Client!Ends,
           Client!historyVars, SysInv, ClientInv, LinkInv
  <1>2. /\ h' \in {"upgrade", "await_exec", "done"}
        /\ c' = "send_exec" => h' = "await_exec"
        /\ UNCHANGED <<connVars, reading, wireVars>>
    BY <1>1 DEF Connects, WsHandler, vars, handlerVars
  <1> QED
    BY <1>1, <1>2 DEF ConnectStep

LEMMA BreakKind == ASSUME NetBreaks PROVE BreakStep
  BY SamePrefixes
  DEF NetBreaks, ConnBreaks, Client!ConnResets, BreakStep, handlerVars,
      Client!mainVars, Client!taskVars, Client!historyVars, inVars

LEMMA QuietKind == ASSUME SysInv, LocalStep PROVE QuietStep
  <1>1. UNCHANGED <<connVars, h, reading, wireVars, link>>
    BY DEF LocalStep, vars, handlerVars
  <1>2. CASE Client!SignalArm \/ Client!Interrupt
    BY <1>1, <1>2
    DEF Client!SignalArm, Client!Interrupt, Client!Ends, Client!taskVars,
        Client!historyVars, QuietStep, Quiet, Signals, inVars
  <1>3. CASE Client!StdinArm
    <2>1. UNCHANGED <<exit, code, t, tHeld, cFed, forwarded, ended, mirrored>>
      BY <1>3 DEF Client!StdinArm, Client!taskVars, Client!historyVars
    <2>2. FetchesStdin \/ LeavesStdin
      BY <1>3, <2>1 DEF Client!StdinArm, FetchesStdin, LeavesStdin
    <2> QED
      BY <1>1, <2>1, <2>2 DEF QuietStep, Quiet
  <1>4. CASE Client!EndArm
    BY <1>1, <1>4
    DEF Client!EndArm, Client!Fails, Client!Ends, Client!taskVars,
        Client!historyVars, Client!NoCode, QuietStep, Quiet, EndsSession, inVars
  <1>5. CASE Client!WriteOutput
    BY <1>1, <1>5
    DEF Client!WriteOutput, Client!Fails, Client!Ends, Client!taskVars,
        QuietStep, Quiet, Mirrors, inVars
  <1>6. CASE Client!TaskReads
    <2>1. /\ UNCHANGED <<exit, c, cHeld, code, readStdin, chan, forwarded, ended,
                         mirrored>>
          /\ t = "read" /\ t' = "send"
          /\ \/ cFed < MaxIn /\ cFed' = cFed + 1 /\ tHeld' = Client!Stdin(cFed + 1)
             \/ tHeld' \in {Client!Eof, Client!Cancel} /\ UNCHANGED cFed
      BY <1>6 DEF Client!TaskReads, Client!mainVars, Client!historyVars
    <2>2. cFed < MaxIn => cFed + 1 \in 1..MaxIn
      BY BoundAssumption DEF SysInv, ClientInv, TaskInv
    <2> QED
      BY <1>1, <2>1, <2>2 DEF QuietStep, Quiet, ReadsStdin
  <1>7. CASE Client!TaskSends
    BY <1>1, <1>7
    DEF Client!TaskSends, Client!mainVars, Client!historyVars, Client!NoFrame,
        NoFrame, QuietStep, Quiet, QueuesStdin
  <1> QED
    BY <1>2, <1>3, <1>4, <1>5, <1>6, <1>7 DEF LocalStep

ServerMoves == SrvStep /\ ServerKeeps

LEMMA StepShapes ==
    ASSUME SysInv, [SystemNext]_systemVars
    PROVE  \/ ConnectStep \/ SendStep \/ Receives \/ QuietStep \/ BreakStep
           \/ ServerMoves \/ Idle
  BY StepKinds, ConnectKind, BreakKind, QuietKind DEF ServerMoves

-----------------------------------------------------------------------------
(* A server that puts a message on the wire puts one of its own.           *)
LEMMA PutsFrame ==
    ASSUME SysInv, NEW m, Puts(m),
           \/ \E s \in Streams : m = Output(s, sent[s] + 1) /\ sent[s] + 1 \in 1..MaxOut
           \/ m \in ExitFrames \cup {Error} \/ m = Control("close")
    PROVE  /\ m \in ServerFrames
           /\ Len(outbox') = Len(outbox) + 1
           /\ \A i \in 1..Len(outbox') :
                outbox'[i] = IF i = Len(outbox) + 1 THEN m ELSE outbox[i]
  <1>1. m \in ServerFrames
    BY DEF ServerFrames, ExecEvents, OutputFrames
  <1>2. outbox' = Append(outbox, m)
    BY DEF Puts
  <1> QED
    BY <1>1, <1>2, QueueTypes, AppendElements

(* What a step leaves in the socket of the client was there before, unless *)
(* the server has put it there.                                            *)
OutboxKeeps ==
    \A i \in 1..Len(outbox') : \E j \in 1..Len(outbox) : outbox'[i] = outbox[j]

LEMMA OutboxOf ==
    ASSUME SysInv,
           \/ ConnectStep \/ SendStep \/ Receives \/ QuietStep \/ BreakStep
           \/ Idle
    PROVE  OutboxKeeps
  <1>1. CASE outbox' = outbox
    BY <1>1 DEF OutboxKeeps
  <1>2. CASE outbox' \in Prefixes(outbox)
    BY <1>2, QueueTypes, PrefixElements DEF OutboxKeeps
  <1>3. CASE Receives
    <2>1. outbox # <<>> /\ outbox' = Tail(outbox)
      BY <1>3 DEF Receives
    <2> QED
      BY <2>1, QueueTypes, TailElements DEF OutboxKeeps
  <1> QED
    BY <1>1, <1>2, <1>3
    DEF ConnectStep, SendStep, SendsExec, SendsStdin, SendsCancel, SendsClose,
        OnWire, IntoVoid, NotSent, QuietStep, Quiet, BreakStep, Idle,
        systemVars, vars, connVars

LEMMA OutboxOfServer ==
    ASSUME SysInv, ServerMoves
    PROVE  \/ UNCHANGED outbox
           \/ \E m \in ServerFrames :
                /\ \A i \in 1..Len(outbox') :
                     outbox'[i] = m \/ \E j \in 1..Len(outbox) : outbox'[i] = outbox[j]
                /\ \/ \E s \in Streams : PutsOutput(s) /\ m.kind = "output"
                   \/ PutsReport(m) /\ m \in ExitFrames \cup {Error}
                   \/ PutsClose /\ m.kind = "close"
  <1>1. CASE SrvMoves \/ SrvReads \/ SrvLeaves
    BY <1>1 DEF SrvMoves, SrvReads, SrvLeaves, connVars
  <1>2. ASSUME NEW s \in Streams, PutsOutput(s)
        PROVE  \E m \in ServerFrames :
                 /\ \A i \in 1..Len(outbox') :
                      outbox'[i] = m \/ \E j \in 1..Len(outbox) : outbox'[i] = outbox[j]
                 /\ PutsOutput(s) /\ m.kind = "output"
    <2> DEFINE m == Output(s, sent[s] + 1)
    <2>1. Puts(m) /\ sent[s] + 1 \in 1..MaxOut
      BY <1>2 DEF PutsOutput
    <2>2. /\ m \in ServerFrames /\ Len(outbox') = Len(outbox) + 1
          /\ \A i \in 1..Len(outbox') :
                outbox'[i] = IF i = Len(outbox) + 1 THEN m ELSE outbox[i]
      BY <2>1, PutsFrame
    <2>3. m.kind = "output"
      BY DEF Output
    <2> HIDE DEF m
    <2>4. \A i \in 1..Len(outbox') : i = Len(outbox) + 1 \/ i \in 1..Len(outbox)
      BY <2>2, QueueTypes
    <2> QED
      BY <1>2, <2>2, <2>3, <2>4
  <1>3. ASSUME NEW m \in ExitFrames \cup {Error, Control("close")}, Puts(m)
        PROVE  /\ m \in ServerFrames
               /\ \A i \in 1..Len(outbox') :
                    outbox'[i] = m \/ \E j \in 1..Len(outbox) : outbox'[i] = outbox[j]
    <2>1. /\ m \in ServerFrames /\ Len(outbox') = Len(outbox) + 1
          /\ \A i \in 1..Len(outbox') :
                outbox'[i] = IF i = Len(outbox) + 1 THEN m ELSE outbox[i]
      BY <1>3, PutsFrame
    <2>2. \A i \in 1..Len(outbox') : i = Len(outbox) + 1 \/ i \in 1..Len(outbox)
      BY <2>1, QueueTypes
    <2> QED
      BY <2>1, <2>2
  <1>4. ASSUME NEW m \in ExitFrames \cup {Error}, PutsReport(m)
        PROVE  /\ m \in ServerFrames
               /\ \A i \in 1..Len(outbox') :
                    outbox'[i] = m \/ \E j \in 1..Len(outbox) : outbox'[i] = outbox[j]
    BY <1>3, <1>4 DEF PutsReport
  <1>5. CASE PutsClose
    <2>1. Control("close").kind = "close"
      BY DEF Control
    <2> QED
      BY <1>3, <1>5, <2>1 DEF PutsClose
  <1> QED
    BY <1>1, <1>2, <1>4, <1>5 DEF ServerMoves, SrvStep

(* How a step of the server moves the handler.                             *)
LEMMA HandlerMoves ==
    ASSUME SysInv, ServerMoves
    PROVE  \/ h' = h
           \/ h' = "done" /\ h \notin {"upgrade", "done"}
           \/ /\ h' \notin {"upgrade", "await_exec", "done"}
              /\ h \notin {"upgrade", "done"} /\ c # "send_exec"
  <1>1. (c = "send_exec" => inbox = <<>> /\ h \in {"await_exec", "done"})
    BY DEF SysInv, ClientInv, LinkInv, SaidInv
  <1>2. CASE SrvMoves
    BY <1>1, <1>2 DEF SrvMoves
  <1>3. CASE SrvReads \/ SrvLeaves
    BY <1>1, <1>3 DEF SrvReads, SrvLeaves
  <1>4. ASSUME NEW m, Puts(m)
        PROVE  /\ h \notin {"upgrade", "await_exec", "done"}
               /\ h' \notin {"upgrade", "await_exec"}
    BY <1>4 DEF Puts
  <1> QED
    BY <1>1, <1>2, <1>3, <1>4
    DEF ServerMoves, SrvStep, PutsOutput, PutsReport, PutsClose

LEMMA DoneStays ==
    ASSUME SysInv, [SystemNext]_systemVars, h = "done"
    PROVE  h' = "done"
  BY StepShapes, HandlerMoves
  DEF ConnectStep, SendStep, ServerStays, Receives, QuietStep, Quiet, BreakStep,
      Idle, handlerVars, systemVars, vars

(* Only one end of the connection may know that it is gone.                *)
LEMMA LinkStateStep ==
    ASSUME SysInv, [SystemNext]_systemVars
    PROVE  /\ link' \in {"up", "closing", "reset"} /\ conn' \in {"up", "broken"}
           /\ link' = "up" => conn' = "up"
           /\ h' # "done" /\ conn' = "up" => link' = "up"
           /\ h' = "upgrade" => c' \in {"connect", "exited"}
           /\ c' = "connect" => h' = "upgrade" /\ t' = "none"
           /\ c' = "send_exec" => h' \in {"await_exec", "done"}
  <1>1. LinkInv
    BY DEF SysInv, ClientInv
  <1> USE DEF LinkInv
  <1>2. CASE ConnectStep
    BY <1>1, <1>2 DEF ConnectStep, connVars
  <1>3. CASE SendStep
    <2>1. /\ h' = h /\ t' = t /\ c' \notin {"connect", "send_exec"}
          /\ c \notin {"connect", "exited"}
          /\ \/ link' = link /\ conn' = conn
             \/ link' = "reset" /\ conn' = "broken"
      BY <1>3
      DEF SendStep, ServerStays, handlerVars, SendsExec, SendsStdin,
          SendsCancel, SendsClose, OnWire, IntoVoid, NotSent, connVars
    <2> QED
      BY <1>1, <2>1
  <1>4. CASE Receives
    <2>1. /\ c = "select" /\ c' \notin {"connect", "send_exec"}
          /\ UNCHANGED <<h, conn, t>>
          /\ link' = IF Head(outbox).kind = "close" /\ link = "up"
                       THEN "closing" ELSE link
          /\ Head(outbox) = outbox[1] /\ 1 \in 1..Len(outbox)
      BY <1>4, QueueTypes, TailElements DEF Receives, handlerVars
    <2> QED
      BY <1>1, <2>1
  <1>5. CASE QuietStep
    <2>1. UNCHANGED <<h, conn, link>>
      BY <1>5 DEF QuietStep, Quiet, connVars
    <2>2. /\ c' = c \/ c' \notin {"connect", "send_exec"}
          /\ c \in {"connect", "exited"} => c' \in {c, "exited"}
          /\ c' = "connect" => t' = t
      BY <1>1, <1>5
      DEF QuietStep, Signals, FetchesStdin, LeavesStdin, EndsSession, Mirrors,
          ReadsStdin, QueuesStdin, inVars
    <2> QED
      BY <1>1, <2>1, <2>2
  <1>6. CASE BreakStep
    BY <1>1, <1>6 DEF BreakStep, inVars
  <1>7. CASE Idle
    BY <1>1, <1>7 DEF Idle, systemVars, vars, connVars, handlerVars, clientVars
  <1>8. CASE ServerMoves
    <2>1. UNCHANGED <<c, t, link, conn>>
      BY <1>8 DEF ServerMoves, ServerKeeps, clientVars
    <2> QED
      BY <1>1, <1>8, <2>1, HandlerMoves
  <1> QED
    BY <1>2, <1>3, <1>4, <1>5, <1>6, <1>7, <1>8, StepShapes

LEMMA LinkStep == ASSUME SysInv, [SystemNext]_systemVars PROVE LinkInv'
  <1>1. \A i \in 1..Len(outbox) : outbox[i].kind = "close" => h = "done"
    BY DEF SysInv, ClientInv, LinkInv
  <1>2. CASE OutboxKeeps
    BY <1>1, <1>2, DoneStays, LinkStateStep DEF OutboxKeeps, LinkInv
  <1>3. CASE ServerMoves
    <2>1. CASE UNCHANGED outbox
      BY <1>1, <2>1, DoneStays, LinkStateStep DEF LinkInv
    <2>2. CASE outbox' # outbox
      <3>1. PICK m \in ServerFrames :
              /\ \A i \in 1..Len(outbox') :
                   outbox'[i] = m \/ \E j \in 1..Len(outbox) : outbox'[i] = outbox[j]
              /\ \/ \E s \in Streams : PutsOutput(s) /\ m.kind = "output"
                 \/ PutsReport(m) /\ m \in ExitFrames \cup {Error}
                 \/ PutsClose /\ m.kind = "close"
        BY <1>3, <2>2, OutboxOfServer
      <3>2. m.kind = "close" => h' = "done"
        BY <3>1 DEF PutsClose, ExitFrames, Exit, Error
      <3>3. \A i \in 1..Len(outbox') : outbox'[i].kind = "close" => h' = "done"
        BY <1>1, <3>1, <3>2, DoneStays
      <3> QED
        BY <3>3, LinkStateStep DEF LinkInv
    <2> QED
      BY <2>1, <2>2
  <1> QED
    BY <1>2, <1>3, StepShapes, OutboxOf

-----------------------------------------------------------------------------
(* What the server will not read stays unread, however the queue moves.    *)
StopsThen(i) ==
    \/ ~reading' \/ h' = "done"
    \/ \E j \in 1..i - 1 : inbox'[j].kind = "cancel"

LEMMA FirstThen ==
    ASSUME h' = "await_exec" /\ inbox' # <<>> => inbox'[1] = Exec(Command),
           h' = "await_exec" /\ link' = "up" =>
             inbox' # <<>> \/ c' \in {"connect", "send_exec", "exited"},
           c' = "close" /\ link' = "up" => StopsThen(Len(inbox') + 1),
           \A i \in 1..Len(inbox') : inbox'[i].kind = "close" => StopsThen(i)
    PROVE  FirstInv'
  BY DEF FirstInv, StopsReading, StopsThen

LEMMA StopsOnAppend ==
    ASSUME SysInv, NEW m \in ClientMessages, inbox' = Append(inbox, m),
           UNCHANGED <<h, reading>>, NEW i \in 1..Len(inbox) + 1,
           StopsReading(i)
    PROVE  StopsThen(i)
  <1>1. \A j \in 1..Len(inbox) : inbox'[j] = inbox[j]
    BY QueueTypes, AppendElements
  <1>2. \A j \in 1..i - 1 : j \in 1..Len(inbox)
    BY QueueTypes
  <1> QED
    BY <1>1, <1>2 DEF StopsReading, StopsThen

LEMMA StopsOnRead ==
    ASSUME SysInv, SrvReads, NEW i \in 1..Len(inbox), StopsReading(i + 1)
    PROVE  StopsThen(i)
  <1>1. /\ Len(inbox) \in Nat \ {0} /\ inbox' = Tail(inbox)
        /\ Len(inbox') = Len(inbox) - 1 /\ Head(inbox) = inbox[1]
        /\ \A j \in 1..Len(inbox') : inbox'[j] = inbox[j + 1]
    BY QueueTypes, TailElements DEF SrvReads
  <1>2. CASE ~reading
    BY <1>2 DEF SrvReads, StopsReading, StopsThen
  <1>3. CASE \E j \in 1..i : inbox[j].kind = "cancel"
    <2>1. PICK j \in 1..i : inbox[j].kind = "cancel"
      BY <1>3
    <2>2. CASE j = 1
      <3>1. h # "await_exec"
        BY <2>1, <2>2 DEF SysInv, ClientInv, FirstInv, SrvReads, Exec
      <3> QED
        BY <1>1, <2>1, <2>2, <3>1 DEF SrvReads, StopsReading, StopsThen
    <2>3. CASE j # 1
      <3>1. j - 1 \in 1..i - 1 /\ j - 1 \in 1..Len(inbox')
        BY <1>1, <2>1, <2>3
      <3>2. inbox'[j - 1] = inbox[(j - 1) + 1] /\ (j - 1) + 1 = j
        BY <1>1, <3>1
      <3> QED
        BY <2>1, <3>1, <3>2 DEF StopsThen
    <2> QED
      BY <2>2, <2>3
  <1> QED
    BY <1>2, <1>3 DEF StopsReading, StopsThen, SrvReads

(* A step that puts nothing on the wire and reads nothing off it.          *)
LEMMA FirstStays ==
    ASSUME SysInv,
           inbox' = inbox \/ (inbox' \in Prefixes(inbox) /\ link' # "up"),
           h' = "await_exec" => h = "await_exec",
           h = "done" => h' = "done", reading' => reading,
           link' = "up" => link = "up",
           c' = "close" /\ link' = "up" => c = "close",
           c \in {"connect", "send_exec", "exited"} /\ link' = "up" =>
             c' \in {"connect", "send_exec", "exited"}
    PROVE  FirstInv'
  <1>1. FirstInv
    BY DEF SysInv, ClientInv
  <1>2. CASE inbox' = inbox
    <2>1. \A i \in 1..Len(inbox) + 1 : StopsReading(i) => StopsThen(i)
      BY <1>2 DEF StopsReading, StopsThen
    <2>2. Len(inbox) + 1 \in 1..Len(inbox) + 1
          /\ \A i \in 1..Len(inbox) : i \in 1..Len(inbox) + 1
      BY QueueTypes
    <2> QED
      BY <1>1, <1>2, <2>1, <2>2, FirstThen DEF FirstInv
  <1>3. CASE inbox' \in Prefixes(inbox) /\ link' # "up"
    <2>1. /\ Len(inbox') <= Len(inbox) /\ Len(inbox') \in Nat
          /\ inbox' \in Seq(ClientMessages)
          /\ \A i \in 1..Len(inbox') : i \in 1..Len(inbox) /\ inbox'[i] = inbox[i]
      BY <1>3, QueueTypes, PrefixElements
    <2>2. inbox' # <<>> => inbox # <<>> /\ inbox'[1] = inbox[1]
      <3>1. inbox' # <<>> => 1 \in 1..Len(inbox')
        BY <2>1, EmptySeq
      <3>2. Len(<<>>) = 0
        BY EmptySeq
      <3> QED
        BY <2>1, <3>1, <3>2
    <2>3. ASSUME NEW i \in 1..Len(inbox'), StopsReading(i) PROVE StopsThen(i)
      <3>1. \A j \in 1..i - 1 : inbox'[j] = inbox[j]
        BY <2>1
      <3> QED
        BY <2>3, <3>1 DEF StopsReading, StopsThen
    <2> QED
      BY <1>1, <1>3, <2>1, <2>2, <2>3, FirstThen DEF FirstInv
  <1> QED
    BY <1>2, <1>3

LEMMA FirstOnWire ==
    ASSUME SysInv, NEW m \in ClientMessages, OnWire(m), UNCHANGED <<h, reading>>,
           c = "send_exec" => m = Exec(Command),
           c # "send_exec" => c \notin {"connect", "exited"},
           c' = "close" => m.kind = "cancel",
           m.kind = "close" => c = "close"
    PROVE  FirstInv'
  <1>1. FirstInv /\ (c = "send_exec" => inbox = <<>>)
    BY DEF SysInv, ClientInv, SaidInv
  <1>2. /\ link = "up" /\ inbox' = Append(inbox, m) /\ Len(inbox) \in Nat
        /\ Len(inbox') = Len(inbox) + 1 /\ inbox' # <<>>
        /\ \A i \in 1..Len(inbox') :
             inbox'[i] = IF i = Len(inbox) + 1 THEN m ELSE inbox[i]
    BY QueueTypes, AppendElements DEF OnWire
  <1>3. \A i \in 1..Len(inbox) + 1 : StopsReading(i) => StopsThen(i)
    BY <1>2, StopsOnAppend
  <1>4. h' = "await_exec" => inbox'[1] = Exec(Command)
    <2>1. CASE inbox = <<>>
      BY <1>1, <1>2, <2>1 DEF FirstInv
    <2>2. CASE inbox # <<>>
      <3>1. 1 \in 1..Len(inbox)
        BY <2>2, QueueTypes, EmptySeq
      <3> QED
        BY <1>1, <1>2, <2>2, <3>1 DEF FirstInv
    <2> QED
      BY <2>1, <2>2
  <1>5. c' = "close" => StopsThen(Len(inbox') + 1)
    <2>1. Len(inbox') \in 1..(Len(inbox') + 1) - 1 /\ inbox'[Len(inbox')] = m
      BY <1>2
    <2> QED
      BY <2>1 DEF StopsThen
  <1>6. \A i \in 1..Len(inbox') : inbox'[i].kind = "close" => StopsThen(i)
    BY <1>1, <1>2, <1>3 DEF FirstInv
  <1> QED
    BY <1>2, <1>4, <1>5, <1>6, FirstThen

LEMMA FirstOnRead ==
    ASSUME SysInv, SrvReads, UNCHANGED <<c, link>>
    PROVE  FirstInv'
  <1>1. FirstInv
    BY DEF SysInv, ClientInv
  <1>2. /\ Len(inbox) \in Nat \ {0} /\ inbox' = Tail(inbox)
        /\ Len(inbox') = Len(inbox) - 1 /\ h' # "await_exec"
        /\ \A j \in 1..Len(inbox') :
             j + 1 \in 1..Len(inbox) /\ inbox'[j] = inbox[j + 1]
    BY QueueTypes, TailElements DEF SrvReads
  <1>3. c' = "close" /\ link' = "up" => StopsThen(Len(inbox') + 1)
    <2>1. Len(inbox) \in 1..Len(inbox) /\ Len(inbox') + 1 = Len(inbox)
      BY <1>2
    <2>2. StopsReading(Len(inbox) + 1) => StopsThen(Len(inbox') + 1)
      BY <2>1, StopsOnRead
    <2> QED
      BY <1>1, <2>2 DEF FirstInv
  <1>4. \A i \in 1..Len(inbox') : inbox'[i].kind = "close" => StopsThen(i)
    <2>1. \A i \in 1..Len(inbox') : i \in 1..Len(inbox)
      BY <1>2
    <2> QED
      BY <1>1, <1>2, <2>1, StopsOnRead DEF FirstInv
  <1> QED
    BY <1>2, <1>3, <1>4, FirstThen

(* The server reads Exec first and no Close.                               *)
LEMMA FirstStep == ASSUME SysInv, [SystemNext]_systemVars PROVE FirstInv'
  <1>1. h = "done" => h' = "done"
    BY DoneStays
  <1>2. CASE ConnectStep
    <2>1. inbox = <<>>
      BY <1>2 DEF ConnectStep, SysInv, ClientInv, SaidInv
    <2>2. /\ inbox' = <<>> /\ c' \in {"connect", "send_exec", "exited"}
          /\ c' # "close"
      BY <1>2, <2>1 DEF ConnectStep, connVars
    <2>3. 1..Len(inbox') = {}
      BY <2>2
    <2> QED
      BY <2>2, <2>3, FirstThen
  <1>3. CASE SendStep
    <2>1. UNCHANGED <<h, reading>>
      BY <1>3 DEF SendStep, ServerStays, handlerVars
    <2>2. CASE SendsExec
      <3>1. Exec(Command).kind = "exec"
        BY DEF Exec
      <3> QED
        BY <1>1, <2>1, <2>2, <3>1, FirstStays, FirstOnWire, FrameMessages
        DEF SendsExec, IntoVoid, NotSent, connVars
    <2>3. CASE SendsStdin
      <3>1. cHeld \in ClientMessages /\ cHeld.kind # "close"
        BY <2>3, FrameMessages DEF SendsStdin, SysInv, ClientInv, SendInv
      <3> QED
        BY <2>1, <2>3, <3>1, FirstStays, FirstOnWire
        DEF SendsStdin, IntoVoid, NotSent, connVars
    <2>4. CASE SendsCancel
      <3>1. Control("cancel").kind = "cancel"
        BY DEF Control
      <3> QED
        BY <2>1, <2>4, <3>1, FirstStays, FirstOnWire, FrameMessages
        DEF SendsCancel, IntoVoid, NotSent, connVars
    <2>5. CASE SendsClose
      BY <2>1, <2>5, FirstStays, FirstOnWire, FrameMessages
      DEF SendsClose, IntoVoid, NotSent, connVars
    <2> QED
      BY <1>3, <2>2, <2>3, <2>4, <2>5 DEF SendStep
  <1>4. CASE Receives
    <2>1. /\ c = "select" /\ c' # "close" /\ (link' = "up" => link = "up")
          /\ UNCHANGED <<inbox, h, reading>>
      BY <1>4 DEF Receives, handlerVars
    <2> QED
      BY <2>1, FirstStays
  <1>5. CASE QuietStep
    <2>1. UNCHANGED <<inbox, h, reading, link>>
      BY <1>5 DEF QuietStep, Quiet, connVars
    <2>2. /\ c' = "close" => c = "close"
          /\ c \in {"connect", "send_exec", "exited"} => c' \in {c, "exited"}
      BY <1>5
      DEF QuietStep, Signals, FetchesStdin, LeavesStdin, EndsSession, Mirrors,
          ReadsStdin, QueuesStdin
    <2> QED
      BY <2>1, <2>2, FirstStays
  <1>6. CASE BreakStep
    BY <1>6, FirstStays DEF BreakStep
  <1>7. CASE Idle
    BY <1>7, FirstStays
    DEF Idle, systemVars, vars, connVars, handlerVars, clientVars
  <1>8. CASE ServerMoves
    <2>1. UNCHANGED <<c, link>>
      BY <1>8 DEF ServerMoves, ServerKeeps, clientVars
    <2>2. CASE SrvReads
      BY <2>1, <2>2, FirstOnRead
    <2>3. CASE ~SrvReads
      <3>1. UNCHANGED inbox /\ (reading' => reading)
        BY <1>8, <2>3
        DEF ServerMoves, SrvStep, SrvMoves, SrvLeaves, PutsOutput, PutsReport,
            PutsClose, Puts, connVars
      <3> QED
        BY <1>1, <1>8, <2>1, <3>1, FirstStays, HandlerMoves
    <2> QED
      BY <2>2, <2>3
  <1> QED
    BY <1>2, <1>3, <1>4, <1>5, <1>6, <1>7, <1>8, StepShapes

-----------------------------------------------------------------------------
(* Stdin on the client's side.                                             *)

LEMMA FrameKind ==
    ASSUME NEW m \in Client!Frames
    PROVE  /\ m.kind = "stdin" => m.n \in Nat
           /\ m.kind \in {"stdin", "eof", "cancel"}
  BY BoundAssumption
  DEF Client!Frames, Client!Stdin, Client!Eof, Client!Cancel

(* A message on the wire is the work of a send.                            *)
LEMMA TaskStays ==
    ASSUME SysInv, UNCHANGED <<chan, t, tHeld, cFed>>, forwarded' \in Nat,
           readStdin' \in BOOLEAN
    PROVE  TaskInv'
  BY DEF SysInv, ClientInv, TaskInv

LEMMA TaskOnSend == ASSUME SysInv, SendStep PROVE TaskInv'
  <1>1. UNCHANGED <<chan, t, tHeld, cFed>>
    BY DEF SendStep
  <1>2. forwarded \in Nat /\ readStdin \in BOOLEAN
    BY DEF SysInv, ClientInv, TaskInv
  <1>3. CASE SendsStdin
    <2>1. cHeld.kind = "stdin" => cHeld.n \in Nat
      BY <1>2, <1>3 DEF SendsStdin, SysInv, ClientInv, SendInv
    <2> QED
      BY <1>1, <1>2, <1>3, <2>1, TaskStays DEF SendsStdin
  <1>4. CASE SendsExec \/ SendsCancel \/ SendsClose
    BY <1>1, <1>2, <1>4, TaskStays DEF SendsExec, SendsCancel, SendsClose
  <1> QED
    BY <1>3, <1>4 DEF SendStep

LEMMA TaskOnTake == ASSUME SysInv, QuietStep, FetchesStdin PROVE TaskInv'
  <1>1. TaskInv
    BY DEF SysInv, ClientInv
  <1>2. /\ chan \in Seq(Client!Frames) /\ chan # <<>> /\ chan' = Tail(chan)
        /\ UNCHANGED <<readStdin, t, tHeld, cFed, forwarded>>
    BY <1>1 DEF TaskInv, FetchesStdin
  <1>3. /\ Len(chan) \in Nat \ {0} /\ Len(chan') = Len(chan) - 1
        /\ chan' \in Seq(Client!Frames)
        /\ \A i \in 1..Len(chan') :
             i + 1 \in 1..Len(chan) /\ chan'[i] = chan[i + 1]
    BY <1>2, TailElements
  <1>4. \A i \in 1..Len(chan') : i = Len(chan') <=> i + 1 = Len(chan)
    BY <1>3
  <1> QED
    BY <1>1, <1>2, <1>3, <1>4 DEF TaskInv

LEMMA TaskOnQueue == ASSUME SysInv, QuietStep, QueuesStdin PROVE TaskInv'
  <1>1. TaskInv
    BY DEF SysInv, ClientInv
  <1>2. /\ chan \in Seq(Client!Frames) /\ t = "send" /\ chan' = Append(chan, tHeld)
        /\ tHeld \in Client!Frames
        /\ t' = IF tHeld.kind = "stdin" THEN "read" ELSE "gone"
        /\ UNCHANGED <<readStdin, cFed, forwarded>>
    BY <1>1 DEF TaskInv, QueuesStdin
  <1>3. /\ Len(chan) \in Nat /\ Len(chan') = Len(chan) + 1
        /\ chan' \in Seq(Client!Frames)
        /\ \A i \in 1..Len(chan') :
             chan'[i] = IF i = Len(chan) + 1 THEN tHeld ELSE chan[i]
    BY <1>2, AppendElements
  <1>4. \A i \in 1..Len(chan') :
          i # Len(chan) + 1 => i \in 1..Len(chan) /\ chan'[i].kind = "stdin"
    BY <1>1, <1>2, <1>3 DEF TaskInv
  <1>5. \A i \in 1..Len(chan') :
          chan'[i].kind # "stdin" <=> i = Len(chan') /\ t' = "gone"
    BY <1>2, <1>3, <1>4
  <1> QED
    BY <1>1, <1>2, <1>3, <1>5 DEF TaskInv

LEMMA TaskOnRead == ASSUME SysInv, QuietStep, ReadsStdin PROVE TaskInv'
  <1>1. TaskInv
    BY DEF SysInv, ClientInv
  <1>2. /\ t = "read" /\ t' = "send" /\ UNCHANGED <<readStdin, chan, forwarded>>
        /\ cFed' \in Nat /\ tHeld' \in Client!Frames
        /\ tHeld'.kind = "stdin" => tHeld'.n = cFed'
    BY <1>1
    DEF ReadsStdin, TaskInv, Client!Frames, Client!Stdin, Client!Eof,
        Client!Cancel
  <1> QED
    BY <1>1, <1>2 DEF TaskInv

(* The end of stdin is the last frame of the task, and of its channel.     *)
LEMMA TaskStep == ASSUME SysInv, [SystemNext]_systemVars PROVE TaskInv'
  <1>1. TaskInv
    BY DEF SysInv, ClientInv
  <1>2. forwarded \in Nat /\ readStdin \in BOOLEAN
    BY <1>1 DEF TaskInv
  <1>3. CASE ConnectStep
    <2>1. t = "none"
      BY <1>3 DEF ConnectStep, SysInv, ClientInv, LinkInv
    <2> QED
      BY <1>1, <1>3, <2>1 DEF ConnectStep, TaskInv
  <1>4. CASE Receives \/ BreakStep \/ Idle \/ ServerMoves
    <2>1. UNCHANGED <<chan, t, tHeld, cFed, forwarded, readStdin>>
      BY <1>4
      DEF Receives, BreakStep, inVars, Idle, systemVars, clientVars,
          ServerMoves, ServerKeeps
    <2> QED
      BY <1>2, <2>1, TaskStays
  <1>5. CASE QuietStep
    <2>1. CASE Signals \/ LeavesStdin \/ EndsSession \/ Mirrors
      BY <1>2, <2>1, TaskStays
      DEF Signals, LeavesStdin, EndsSession, Mirrors, inVars
    <2> QED
      BY <1>5, <2>1, TaskOnTake, TaskOnQueue, TaskOnRead DEF QuietStep
  <1> QED
    BY <1>3, <1>4, <1>5, TaskOnSend, StepShapes

(* A step that neither reads local stdin nor takes anything from the task. *)
LEMMA ChanStays ==
    ASSUME SysInv, UNCHANGED <<chan, t, tHeld, cFed>>,
           c' # "exited" => c # "exited" /\ Client!Taken' = Client!Taken
    PROVE  ChanInv'
  <1>1. ChanInv
    BY DEF SysInv, ClientInv
  <1>2. Client!Queued' = Client!Queued /\ Pending' = Pending
    BY DEF Client!Queued, Pending
  <1> QED
    BY <1>1, <1>2 DEF ChanInv

LEMMA ChanOnTake ==
    ASSUME SysInv, QuietStep, FetchesStdin
    PROVE  ChanInv' /\ SendInv'
  <1>1. /\ TaskInv /\ c = "select" /\ c' = "send_stdin" /\ readStdin
        /\ cHeld' = Head(chan) /\ chan' = Tail(chan)
        /\ UNCHANGED <<readStdin, t, tHeld, cFed, forwarded>>
        /\ chan \in Seq(Client!Frames) /\ chan # <<>> /\ forwarded \in Nat
        /\ cFed \in Nat
    BY DEF SysInv, ClientInv, TaskInv, FetchesStdin
  <1>2. /\ Client!Taken = forwarded
        /\ Client!Queued = forwarded + Pending
        /\ \A i \in 1..Len(chan) : chan[i].kind = "stdin" => chan[i].n = forwarded + i
    BY <1>1 DEF SysInv, ClientInv, ChanInv, Client!Taken
  <1>3. Client!Queued' = Client!Queued
    BY <1>1 DEF Client!Queued
  <1>4. /\ Len(chan) \in Nat \ {0} /\ Len(chan') = Len(chan) - 1
        /\ cHeld' = chan[1] /\ cHeld' \in Client!Frames
        /\ chan' \in Seq(Client!Frames)
        /\ \A i \in 1..Len(chan') :
             i + 1 \in 1..Len(chan) /\ chan'[i] = chan[i + 1]
    BY <1>1, TailElements
  <1>7. 1 \in 1..Len(chan)
    BY <1>4
  <1>8. chan[1].kind # "stdin" <=> 1 = Len(chan) /\ t = "gone"
    BY <1>1, <1>7 DEF TaskInv
  <1>5. CASE cHeld'.kind = "stdin"
    <2>1. cHeld'.n = forwarded + 1 /\ Client!Taken' = forwarded + 1
      BY <1>1, <1>2, <1>4, <1>5 DEF Client!Taken
    <2>2. t = "gone" => Len(chan) # 1
      BY <1>4, <1>5, <1>8
    <2>3. chan' = <<>> <=> Len(chan) = 1
      BY <1>4, EmptySeq
    <2>4. Pending' = Pending - 1 /\ Pending \in Nat
      BY <1>1, <1>4, <2>2, <2>3 DEF Pending
    <2>5. \A i \in 1..Len(chan') :
            chan'[i].kind = "stdin" => chan'[i].n = (forwarded + 1) + i
      <3>1. ASSUME NEW i \in 1..Len(chan'), chan'[i].kind = "stdin"
            PROVE  chan'[i].n = (forwarded + 1) + i
        <4>1. chan[i + 1].n = forwarded + (i + 1) /\ i \in Nat
          BY <1>2, <1>4, <3>1
        <4> QED
          BY <1>1, <1>4, <4>1
      <3> QED
        BY <3>1
    <2>6. ChanInv'
      BY <1>1, <1>2, <1>3, <2>1, <2>4, <2>5 DEF ChanInv
    <2> QED
      BY <1>1, <1>4, <1>5, <2>1, <2>6 DEF SendInv
  <1>6. CASE cHeld'.kind # "stdin"
    <2>1. Len(chan) = 1 /\ t = "gone"
      BY <1>4, <1>6, <1>8
    <2>2. chan' = <<>>
      BY <1>1, <2>1, <1>4, EmptySeq, HeadTailProperties
    <2>3. Pending = 0 /\ Pending' = 0 /\ Client!Taken' = forwarded
      BY <1>1, <1>4, <1>6, <2>1, <2>2 DEF Pending, Client!Taken
    <2>4. ChanInv'
      BY <1>1, <1>2, <1>3, <1>4, <2>1, <2>3 DEF ChanInv
    <2> QED
      BY <1>1, <1>4, <1>6, <2>1, <2>2, <2>4 DEF SendInv
  <1> QED
    BY <1>5, <1>6

LEMMA ChanOnQueue == ASSUME SysInv, QuietStep, QueuesStdin PROVE ChanInv'
  <1>1. /\ TaskInv /\ UNCHANGED <<c, cHeld, forwarded, cFed>> /\ t = "send"
        /\ chan \in Seq(Client!Frames) /\ chan' = Append(chan, tHeld)
        /\ tHeld \in Client!Frames /\ (tHeld.kind = "stdin" => tHeld.n = cFed)
        /\ t' = IF tHeld.kind = "stdin" THEN "read" ELSE "gone"
        /\ cFed \in Nat
    BY DEF SysInv, ClientInv, TaskInv, QueuesStdin
  <1> SUFFICES ASSUME c # "exited"
               PROVE  /\ Client!Queued' = Client!Taken' + Pending'
                      /\ \A i \in 1..Len(chan') :
                           chan'[i].kind = "stdin" => chan'[i].n = Client!Taken' + i
    BY <1>1 DEF ChanInv
  <1>2. /\ Client!Queued = Client!Taken + Pending
        /\ \A i \in 1..Len(chan) :
             chan[i].kind = "stdin" => chan[i].n = Client!Taken + i
    BY DEF SysInv, ClientInv, ChanInv
  <1>3. Client!Taken' = Client!Taken
    BY <1>1 DEF Client!Taken
  <1>4. Client!Taken \in Nat
    BY <1>1 DEF Client!Taken, SysInv, ClientInv, SendInv, TaskInv
  <1>5. /\ Len(chan) \in Nat /\ Len(chan') = Len(chan) + 1
        /\ \A i \in 1..Len(chan') :
             chan'[i] = IF i = Len(chan) + 1 THEN tHeld ELSE chan[i]
    BY <1>1, AppendElements
  <1>6. Pending = Len(chan) /\ chan' # <<>>
    BY <1>1, <1>5, EmptySeq DEF Pending
  <1>7. CASE tHeld.kind = "stdin"
    <2>1. /\ Client!Queued = cFed - 1 /\ Client!Queued' = cFed
          /\ Pending' = Len(chan) + 1
      BY <1>1, <1>5, <1>7 DEF Client!Queued, Pending
    <2>2. tHeld.n = Client!Taken + (Len(chan) + 1)
      BY <1>1, <1>2, <1>4, <1>5, <1>6, <1>7, <2>1
    <2>3. \A i \in 1..Len(chan') : i = Len(chan) + 1 \/ i \in 1..Len(chan)
      BY <1>5
    <2> QED
      BY <1>1, <1>2, <1>3, <1>4, <1>5, <1>6, <2>1, <2>2, <2>3
  <1>8. CASE tHeld.kind # "stdin"
    <2>1. /\ Client!Queued = cFed /\ Client!Queued' = cFed
          /\ Pending' = Len(chan)
      BY <1>1, <1>5, <1>6, <1>8 DEF Client!Queued, Pending
    <2>2. \A i \in 1..Len(chan') : i = Len(chan) + 1 \/ i \in 1..Len(chan)
      BY <1>5
    <2> QED
      BY <1>2, <1>3, <1>5, <1>6, <1>8, <2>1, <2>2
  <1> QED
    BY <1>7, <1>8

LEMMA ChanOnRead == ASSUME SysInv, QuietStep, ReadsStdin PROVE ChanInv'
  <1>1. /\ t = "read" /\ t' = "send" /\ UNCHANGED <<c, cHeld, forwarded, chan>>
        /\ cFed \in Nat
        /\ \/ cFed' = cFed + 1 /\ tHeld'.kind = "stdin"
           \/ cFed' = cFed /\ tHeld'.kind # "stdin"
    BY DEF SysInv, ClientInv, TaskInv, ReadsStdin, Client!Stdin, Client!Eof,
           Client!Cancel
  <1>2. Client!Queued = cFed /\ Client!Queued' = cFed /\ Pending' = Pending
    BY <1>1 DEF Client!Queued, Pending
  <1>3. Client!Taken' = Client!Taken
    BY <1>1 DEF Client!Taken
  <1> QED
    BY <1>1, <1>2, <1>3 DEF SysInv, ClientInv, ChanInv

(* Every chunk read of local stdin is accounted for until the client ends. *)
LEMMA ChanStep == ASSUME SysInv, [SystemNext]_systemVars PROVE ChanInv'
  <1>1. CASE ConnectStep
    <2>1. UNCHANGED <<forwarded, cHeld, chan, cFed, tHeld>> /\ c = "connect"
          /\ c' \in {"send_exec", "exited"} /\ t' \in {t, "read"} /\ t = "none"
      BY <1>1 DEF ConnectStep, SysInv, ClientInv, LinkInv
    <2>2. /\ Client!Queued' = Client!Queued /\ Pending' = Pending
          /\ Client!Taken' = Client!Taken
      BY <2>1 DEF Client!Queued, Client!Taken, Pending
    <2> QED
      BY <2>1, <2>2 DEF SysInv, ClientInv, ChanInv
  <1>2. CASE SendStep
    <2>1. UNCHANGED <<chan, t, tHeld, cFed>>
      BY <1>2 DEF SendStep
    <2>2. CASE SendsStdin
      <3>1. c # "exited" /\ (c' # "exited" => Client!Taken' = Client!Taken)
        BY <2>2 DEF SendsStdin, Client!Taken
      <3> QED
        BY <2>1, <3>1, ChanStays
    <2>3. CASE SendsExec \/ SendsCancel \/ SendsClose
      <3>1. c # "exited" /\ Client!Taken' = Client!Taken
        BY <2>3 DEF SendsExec, SendsCancel, SendsClose, Client!Taken
      <3> QED
        BY <2>1, <3>1, ChanStays
    <2> QED
      BY <1>2, <2>2, <2>3 DEF SendStep
  <1>3. CASE Receives
    <2>1. /\ UNCHANGED <<chan, t, tHeld, cFed, forwarded>>
          /\ c = "select" /\ c' # "send_stdin"
      BY <1>3 DEF Receives
    <2>2. Client!Taken' = Client!Taken
      BY <2>1 DEF Client!Taken
    <2> QED
      BY <2>1, <2>2, ChanStays
  <1>4. CASE BreakStep \/ Idle \/ ServerMoves
    <2>1. UNCHANGED <<c, cHeld, chan, t, tHeld, cFed, forwarded>>
      BY <1>4
      DEF BreakStep, inVars, Idle, systemVars, clientVars, ServerMoves,
          ServerKeeps
    <2>2. Client!Taken' = Client!Taken
      BY <2>1 DEF Client!Taken
    <2> QED
      BY <2>1, <2>2, ChanStays
  <1>5. CASE QuietStep
    <2>1. CASE Signals \/ LeavesStdin \/ EndsSession \/ Mirrors
      <3>1. /\ UNCHANGED <<chan, t, tHeld, cFed, forwarded>>
            /\ \/ UNCHANGED <<c, cHeld>>
               \/ c # "exited" /\ c' = "exited"
               \/ c \in {"select", "write"} /\ c' \in {"select", "send_cancel"}
        BY <2>1 DEF Signals, LeavesStdin, EndsSession, Mirrors, inVars
      <3>2. c' # "exited" => Client!Taken' = Client!Taken
        BY <3>1 DEF Client!Taken
      <3> QED
        BY <3>1, <3>2, ChanStays
    <2> QED
      BY <1>5, <2>1, ChanOnTake, ChanOnQueue, ChanOnRead DEF QuietStep
  <1> QED
    BY <1>1, <1>2, <1>3, <1>4, <1>5, StepShapes

(* The frame the client is about to send follows what it has sent.         *)
LEMMA SendInvStep == ASSUME SysInv, [SystemNext]_systemVars PROVE SendInv'
  <1>1. SendInv
    BY DEF SysInv, ClientInv
  <1>2. CASE ConnectStep \/ SendStep \/ Receives
    <2>1. c' # "send_stdin"
      BY <1>2
      DEF ConnectStep, SendStep, SendsExec, SendsStdin, SendsCancel,
          SendsClose, Receives
    <2> QED
      BY <2>1 DEF SendInv
  <1>3. CASE BreakStep \/ Idle \/ ServerMoves
    <2>1. UNCHANGED <<c, cHeld, chan, t, forwarded, readStdin>>
      BY <1>3
      DEF BreakStep, inVars, Idle, systemVars, clientVars, ServerMoves,
          ServerKeeps
    <2> QED
      BY <1>1, <2>1 DEF SendInv
  <1>4. CASE QuietStep
    <2>1. CASE Signals \/ LeavesStdin \/ EndsSession \/ Mirrors
      <3>1. \/ c' # "send_stdin"
            \/ UNCHANGED <<c, cHeld, chan, t, forwarded, readStdin>>
        BY <2>1 DEF Signals, LeavesStdin, EndsSession, Mirrors, inVars
      <3> QED
        BY <1>1, <3>1 DEF SendInv
    <2>2. CASE ReadsStdin \/ QueuesStdin
      <3>1. t # "gone" /\ UNCHANGED <<c, cHeld, forwarded, readStdin>>
        BY <2>2 DEF ReadsStdin, QueuesStdin
      <3> QED
        BY <1>1, <3>1 DEF SendInv
    <2> QED
      BY <1>4, <2>1, <2>2, ChanOnTake DEF QuietStep
  <1> QED
    BY <1>2, <1>3, <1>4, StepShapes

-----------------------------------------------------------------------------
(* What has been said. A step that says nothing leaves it as it is.        *)
LEMMA SaidStays ==
    ASSUME SysInv, UNCHANGED <<said, fed, forwarded, ended>>,
           c' \in {"connect", "send_exec"} =>
             /\ c \in {"connect", "send_exec"}
             /\ inbox = <<>> => inbox' = <<>>
             /\ UNCHANGED readStdin,
           readStdin' => readStdin,
           link' = "up" => link = "up",
           c = "exited" => c' = "exited",
           c = "close" => c' \in {"close", "exited"},
           t = "gone" => t' = "gone" /\ UNCHANGED cFed
    PROVE  SaidInv'
  <1>1. SaidInv /\ readStdin \in BOOLEAN
    BY DEF SysInv, ClientInv, TaskInv
  <1> QED
    BY <1>1 DEF SaidInv

(* Before the last frame of stdin was sent, all that was read had been.    *)
LEMMA EndOfStdin ==
    ASSUME SysInv, c = "send_stdin", cHeld.kind # "stdin"
    PROVE  t = "gone" /\ forwarded = cFed
  <1>1. chan = <<>> /\ t = "gone" /\ forwarded \in Nat /\ cFed \in Nat
    BY DEF SysInv, ClientInv, SendInv, TaskInv
  <1>2. Client!Taken = forwarded /\ Client!Queued = cFed /\ Pending = 0
    BY <1>1 DEF Client!Taken, Client!Queued, Pending
  <1> QED
    BY <1>1, <1>2 DEF SysInv, ClientInv, ChanInv

LEMMA SaidOnSend == ASSUME SysInv, SendStep PROVE SaidInv'
  <1>1. /\ SaidInv /\ readStdin \in BOOLEAN /\ UNCHANGED <<t, cFed>>
    BY DEF SysInv, ClientInv, TaskInv, SendStep
  <1>2. /\ Control("eof") \notin {Exec(Command), Control("cancel"), Control("close")}
        /\ Control("cancel") \notin {Exec(Command), Control("close"), Control("eof")}
        /\ Control("close") \notin {Exec(Command), Control("cancel"), Control("eof")}
    BY DEF Control, Exec
  <1>3. ASSUME NEW m, m \notin StdinFrames, OnWire(m)
        PROVE  /\ link = "up" /\ link' = "up" /\ said' = said \cup {m}
               /\ fed' = fed /\ fed = forwarded
    BY <1>1, <1>3 DEF OnWire, SaidInv
  <1>4. IntoVoid \/ NotSent => link' # "up" /\ UNCHANGED <<said, fed>>
    BY DEF IntoVoid, NotSent, connVars
  <1>5. CASE SendsExec
    <2>1. /\ c = "send_exec" /\ c' \in {"select", "exited"}
          /\ UNCHANGED <<readStdin, forwarded, ended>> /\ said = {} /\ ~ended
          /\ OnWire(Exec(Command)) \/ IntoVoid \/ NotSent
      BY <1>1, <1>5 DEF SendsExec, SaidInv
    <2> QED
      BY <1>1, <1>2, <1>3, <1>4, <2>1, FrameMessages DEF SaidInv
  <1>6. CASE SendsStdin
    <2>1. /\ c = "send_stdin" /\ readStdin /\ ~ended
          /\ c' \in {"select", "exited"} /\ cHeld \in Client!Frames
      BY <1>1, <1>6 DEF SendsStdin, SaidInv, SysInv, ClientInv, SendInv
    <2>2. Control("close") \notin said /\ Control("cancel") \notin said
          /\ Control("eof") \notin said
      BY <1>1, <2>1 DEF SaidInv
    <2>3. \/ cHeld.kind = "stdin" /\ cHeld \in StdinFrames
          \/ cHeld.kind \in {"eof", "cancel"} /\ cHeld = Control(cHeld.kind)
             /\ cHeld \notin StdinFrames
      BY <2>1, FrameMessages
    <2>4. CASE /\ OnWire(cHeld) \/ IntoVoid
               /\ c' = "select" /\ UNCHANGED code
               /\ readStdin' = (cHeld.kind = "stdin")
               /\ forwarded' = IF cHeld.kind = "stdin" THEN cHeld.n ELSE forwarded
               /\ ended' = (cHeld.kind # "stdin")
      <3>1. CASE OnWire(cHeld) /\ cHeld \in StdinFrames
        <4>1. said' = said /\ fed' = forwarded'
          BY <3>1 DEF OnWire
        <4> QED
          BY <2>2, <2>3, <2>4, <4>1 DEF SaidInv
      <3>2. CASE OnWire(cHeld) /\ cHeld \notin StdinFrames
        <4>1. cHeld = Control("eof") \/ cHeld = Control("cancel")
          BY <2>3, <3>2
        <4>2. cHeld.kind # "stdin"
          BY <2>3, <3>2
        <4>3. t = "gone" /\ forwarded = cFed
          BY <2>1, <4>2, EndOfStdin
        <4>4. said' = said \cup {cHeld} /\ fed' = fed /\ fed = forwarded
          BY <1>3, <3>2
        <4> QED
          BY <1>1, <1>2, <2>1, <2>2, <2>4, <4>1, <4>2, <4>3, <4>4 DEF SaidInv
      <3>3. CASE IntoVoid
        BY <1>4, <2>2, <2>4, <3>3 DEF SaidInv
      <3> QED
        BY <2>4, <3>1, <3>2, <3>3
    <2>5. CASE /\ NotSent /\ c' = "exited" /\ code' = 1
               /\ UNCHANGED <<readStdin, forwarded, ended>>
      BY <1>4, <2>1, <2>2, <2>5 DEF SaidInv
    <2> QED
      BY <1>6, <2>4, <2>5 DEF SendsStdin
  <1>7. CASE SendsCancel
    <2>1. CASE NotSent /\ c' = "exited" /\ UNCHANGED <<ended, forwarded, readStdin>>
      BY <1>1, <1>4, <1>7, <2>1 DEF SendsCancel, SaidInv
    <2>2. CASE /\ OnWire(Control("cancel")) \/ IntoVoid
               /\ c' = "close" /\ ended' = TRUE /\ UNCHANGED <<forwarded, readStdin>>
      <3>1. Control("close") \notin said
        BY <1>1, <1>7 DEF SaidInv, SendsCancel
      <3> QED
        BY <1>1, <1>2, <1>3, <1>4, <2>2, <3>1, FrameMessages DEF SaidInv
    <2> QED
      BY <1>7, <2>1, <2>2 DEF SendsCancel
  <1>8. CASE SendsClose
    <2>1. /\ c = "close" /\ c' = "exited"
          /\ UNCHANGED <<readStdin, forwarded, ended>>
          /\ OnWire(Control("close")) \/ IntoVoid \/ NotSent
      BY <1>8 DEF SendsClose
    <2> QED
      BY <1>1, <1>2, <1>3, <1>4, <2>1, FrameMessages DEF SaidInv
  <1> QED
    BY <1>5, <1>6, <1>7, <1>8 DEF SendStep

(* The client says Exec first, and no stdin, and no StdinEof, after Cancel *)
(* or StdinEof.                                                            *)
LEMMA SaidStep == ASSUME SysInv, [SystemNext]_systemVars PROVE SaidInv'
  <1>1. CASE ConnectStep
    BY <1>1, SaidStays DEF ConnectStep, connVars, SysInv, ClientInv, LinkInv
  <1>2. CASE Receives
    <2>1. /\ UNCHANGED <<said, fed, forwarded, ended, readStdin, t, cFed>>
          /\ c = "select" /\ c' \notin {"connect", "send_exec"}
          /\ link' = "up" => link = "up"
      BY <1>2 DEF Receives
    <2> QED
      BY <2>1, SaidStays
  <1>3. CASE BreakStep
    <2>1. /\ UNCHANGED <<said, fed, forwarded, ended, readStdin, t, cFed, c>>
          /\ inbox = <<>> => inbox' = <<>>
          /\ link' # "up"
      <3>1. inbox' \in Prefixes(inbox)
        BY <1>3 DEF BreakStep
      <3>2. inbox' \in Seq(ClientMessages) /\ Len(inbox') <= Len(inbox)
            /\ Len(inbox') \in Nat
        BY <3>1, QueueTypes, PrefixElements
      <3> QED
        BY <1>3, <3>2, EmptySeq DEF BreakStep, inVars
    <2> QED
      BY <2>1, SaidStays
  <1>4. CASE Idle \/ ServerMoves
    <2>1. UNCHANGED <<said, fed, forwarded, ended, readStdin, t, cFed, c, link>>
      BY <1>4
      DEF Idle, systemVars, vars, connVars, clientVars, ServerMoves, ServerKeeps
    <2>2. inbox = <<>> => inbox' = <<>>
      BY <1>4
      DEF Idle, systemVars, vars, connVars, ServerMoves, SrvStep, SrvMoves,
          SrvReads, SrvLeaves, PutsOutput, PutsReport, PutsClose, Puts
    <2> QED
      BY <2>1, <2>2, SaidStays
  <1>5. CASE QuietStep
    <2>1. UNCHANGED <<said, fed, inbox, link>>
      BY <1>5 DEF QuietStep, Quiet, connVars
    <2>2. /\ UNCHANGED <<forwarded, ended>>
          /\ t = "gone" => t' = "gone" /\ UNCHANGED cFed
          /\ readStdin' => readStdin
          /\ c' \in {"connect", "send_exec"} => UNCHANGED <<c, readStdin>>
          /\ c \in {"close", "exited"} => c' \in {c, "exited"}
      BY <1>5
      DEF QuietStep, Signals, FetchesStdin, LeavesStdin, EndsSession, Mirrors,
          ReadsStdin, QueuesStdin, inVars
    <2> QED
      BY <2>1, <2>2, SaidStays
  <1> QED
    BY <1>1, <1>2, <1>3, <1>4, <1>5, SaidOnSend, StepShapes

-----------------------------------------------------------------------------
(* Output, from the socket of the server to the client's own.              *)

LEMMA OutputCounts ==
    ASSUME SysInv, NEW s \in Streams
    PROVE  /\ Client!Seen(s) \in Nat /\ sent[s] \in Nat /\ mirrored[s] \in Nat
           /\ c # "write" => Client!Seen(s) = mirrored[s]
  <1>1. sent[s] \in Nat /\ mirrored[s] \in Nat
    BY BoundAssumption DEF SysInv, ClientInv, OutputInv, IInv, TypeOK, WireType
  <1>2. c = "write" => cHeld.n \in Nat
    BY BoundAssumption DEF SysInv, ClientInv, OutputInv, OutputFrames, Output
  <1> QED
    BY <1>1, <1>2 DEF Client!Seen

(* A step that neither moves output nor ends the session, unless it loses  *)
(* some of what is in the socket with the connection.                      *)
LEMMA OutputStays ==
    ASSUME SysInv, UNCHANGED <<sent, mirrored>>,
           \/ outbox' = outbox /\ link' \in {link, "reset"}
           \/ outbox' \in Prefixes(outbox) /\ link' = "reset",
           c' = "write" => c = "write",
           c' # "exited" =>
             \/ UNCHANGED <<c, cHeld>>
             \/ c \notin {"write", "exited"} /\ c' # "write"
    PROVE  OutputInv'
  <1>1. OutputInv
    BY DEF SysInv, ClientInv
  <1>2. c' # "exited" => c # "exited" /\ \A s \in Streams : Client!Seen(s)' = Client!Seen(s)
    BY DEF Client!Seen
  <1>3. ASSUME c' # "exited", NEW s \in Streams
        PROVE  /\ Client!Seen(s)' <= sent'[s]
               /\ Begins(outbox', s, Client!Seen(s)', sent'[s])
               /\ link' # "reset"
                    => Carries(outbox', s, Client!Seen(s)', sent'[s])
    <2>1. /\ Client!Seen(s)' = Client!Seen(s) /\ sent'[s] = sent[s]
          /\ Client!Seen(s) <= sent[s]
          /\ Begins(outbox, s, Client!Seen(s), sent[s])
          /\ link # "reset" => Carries(outbox, s, Client!Seen(s), sent[s])
      BY <1>1, <1>2, <1>3 DEF OutputInv
    <2>2. CASE outbox' = outbox /\ link' \in {link, "reset"}
      BY <2>1, <2>2
    <2>3. CASE outbox' \in Prefixes(outbox) /\ link' = "reset"
      <3>1. Begins(outbox', s, Client!Seen(s), sent[s])
        BY <2>1, <2>3, QueueTypes, OutputCounts, BeginsPrefix
      <3> QED
        BY <2>1, <2>3, <3>1
    <2> QED
      BY <2>2, <2>3
  <1>4. /\ mirrored' \in [Streams -> Nat]
        /\ c' = "write" => cHeld' \in OutputFrames
    BY <1>1 DEF OutputInv
  <1> QED
    BY <1>3, <1>4 DEF OutputInv

LEMMA OutputOnReceive == ASSUME SysInv, Receives PROVE OutputInv'
  <1> DEFINE m == Head(outbox)
  <1>1. /\ c = "select" /\ outbox \in Seq(ServerFrames) /\ outbox # <<>>
        /\ outbox' = Tail(outbox) /\ UNCHANGED <<sent, mirrored>>
        /\ m.kind = "output" => c' = "write" /\ cHeld' = m
        /\ m.kind # "output" => c' # "write"
        /\ m \in ServerFrames
        /\ link' # "reset" => link # "reset"
    BY QueueTypes, TailElements DEF Receives, wireVars
  <1>2. m.kind = "output" => m \in OutputFrames /\ m.stream \in Streams
    BY <1>1 DEF ServerFrames, ExecEvents, OutputFrames, ExitFrames, Output,
                Exit, Error, Control
  <1>3. OutputInv
    BY DEF SysInv, ClientInv
  <1> HIDE DEF m
  <1>4. ASSUME NEW s \in Streams
        PROVE  /\ Client!Seen(s)' <= sent[s]
               /\ Begins(outbox', s, Client!Seen(s)', sent[s])
               /\ link # "reset" => Carries(outbox', s, Client!Seen(s)', sent[s])
    <2>1. /\ Client!Seen(s) = mirrored[s] /\ mirrored[s] <= sent[s]
          /\ Begins(outbox, s, mirrored[s], sent[s])
          /\ link # "reset" => Carries(outbox, s, mirrored[s], sent[s])
          /\ mirrored[s] \in Nat /\ sent[s] \in Nat
      BY <1>1, <1>3, OutputCounts DEF OutputInv
    <2>2. /\ IF IsChunk(m, s)
               THEN /\ m.n = mirrored[s] + 1 /\ mirrored[s] + 1 <= sent[s]
                    /\ Begins(outbox', s, mirrored[s] + 1, sent[s])
               ELSE Begins(outbox', s, mirrored[s], sent[s])
          /\ link # "reset" => Carries(outbox', s, IF IsChunk(m, s)
               THEN mirrored[s] + 1 ELSE mirrored[s], sent[s])
      <3>1. IF IsChunk(m, s)
              THEN /\ m.n = mirrored[s] + 1 /\ mirrored[s] + 1 <= sent[s]
                   /\ Begins(outbox', s, mirrored[s] + 1, sent[s])
              ELSE Begins(outbox', s, mirrored[s], sent[s])
        BY ONLY <1>1, <2>1, BeginsTail DEF m
      <3>2. link # "reset" =>
              IF IsChunk(m, s)
                THEN Carries(outbox', s, mirrored[s] + 1, sent[s])
                ELSE Carries(outbox', s, mirrored[s], sent[s])
        BY ONLY <1>1, <2>1, CarriesTail DEF m
      <3> QED
        BY <3>1, <3>2
    <2>3. IsChunk(m, s) <=> m.kind = "output" /\ m.stream = s
      BY DEF IsChunk, Streams
    <2>4. Client!Seen(s)' = IF IsChunk(m, s) THEN mirrored[s] + 1 ELSE mirrored[s]
      BY <1>1, <2>2, <2>3 DEF Client!Seen
    <2> QED
      BY <2>1, <2>2, <2>4
  <1> QED
    BY <1>1, <1>2, <1>3, <1>4 DEF OutputInv

LEMMA OutputOnMirror ==
    ASSUME SysInv, UNCHANGED <<sent, outbox, link>>, Mirrors
    PROVE  OutputInv'
  <1>1. OutputInv /\ c = "write" /\ cHeld \in OutputFrames
    BY DEF SysInv, ClientInv, OutputInv, Mirrors
  <1>2. cHeld.stream \in Streams /\ cHeld.n \in Nat
    BY <1>1, BoundAssumption DEF OutputFrames, Output
  <1>3. CASE /\ mirrored' = [mirrored EXCEPT ![cHeld.stream] = cHeld.n]
             /\ c' = "select"
    <2>1. mirrored' \in [Streams -> Nat]
      BY <1>1, <1>2, <1>3 DEF OutputInv
    <2>2. \A s \in Streams : Client!Seen(s)' = Client!Seen(s)
      BY <1>1, <1>2, <1>3 DEF OutputInv, Client!Seen
    <2> QED
      BY <1>1, <1>3, <2>1, <2>2 DEF OutputInv
  <1>4. CASE c' = "exited" /\ UNCHANGED mirrored
    BY <1>1, <1>4 DEF OutputInv
  <1> QED
    BY <1>3, <1>4 DEF Mirrors

(* The client still has all of the connection when the server writes.      *)
LEMMA OutputOnPut ==
    ASSUME SysInv, ServerKeeps, NEW m \in ServerFrames, Puts(m),
           \/ m.kind # "output" /\ UNCHANGED sent
           \/ \E s \in Streams : /\ m = Output(s, sent[s] + 1)
                                 /\ sent' = [sent EXCEPT ![s] = sent[s] + 1]
    PROVE  OutputInv'
  <1>1. /\ link = "up" /\ UNCHANGED <<c, cHeld, mirrored, link>>
        /\ outbox' = Append(outbox, m) /\ outbox \in Seq(ServerFrames)
        /\ sent \in [Streams -> 0..MaxOut] /\ OutputInv
    BY QueueTypes
    DEF Puts, ServerKeeps, clientVars, SysInv, ClientInv, LinkInv, IInv, TypeOK,
        WireType
  <1>2. \A r \in Streams : Client!Seen(r)' = Client!Seen(r)
    BY <1>1 DEF Client!Seen
  <1>3. ASSUME NEW r \in Streams, c # "exited"
        PROVE  /\ Client!Seen(r) <= sent'[r]
               /\ Begins(outbox', r, Client!Seen(r), sent'[r])
               /\ Carries(outbox', r, Client!Seen(r), sent'[r])
    <2>1. /\ Client!Seen(r) <= sent[r] /\ Carries(outbox, r, Client!Seen(r), sent[r])
          /\ Client!Seen(r) \in Nat /\ sent[r] \in Nat
      BY <1>1, <1>3, OutputCounts DEF OutputInv
    <2>2. /\ ~IsChunk(m, r) => Carries(outbox', r, Client!Seen(r), sent[r])
          /\ IsChunk(m, r) /\ m.n = sent[r] + 1
               => Carries(outbox', r, Client!Seen(r), sent[r] + 1)
      BY ONLY <1>1, <2>1, CarriesAppend, m \in ServerFrames
    <2>3. IsChunk(m, r) <=> m.kind = "output" /\ m.stream = r
      BY DEF IsChunk, Streams
    <2>4. IF IsChunk(m, r) THEN m.n = sent[r] + 1 /\ sent'[r] = sent[r] + 1
                           ELSE sent'[r] = sent[r]
      BY <1>1, <2>3 DEF Output
    <2>5. /\ Client!Seen(r) <= sent'[r] /\ sent'[r] \in Nat
          /\ Carries(outbox', r, Client!Seen(r), sent'[r])
      BY <2>1, <2>2, <2>4
    <2> QED
      BY <2>1, <2>5, CarriesBegins
  <1> QED
    BY <1>1, <1>2, <1>3 DEF OutputInv

(* No chunk is lost between the server and local output, but with the      *)
(* connection.                                                             *)
LEMMA OutputStep == ASSUME SysInv, [SystemNext]_systemVars PROVE OutputInv'
  <1>1. CASE ConnectStep
    BY <1>1, OutputStays DEF ConnectStep, connVars, wireVars
  <1>2. CASE SendStep
    <2>1. /\ UNCHANGED <<sent, mirrored>> /\ c \notin {"write", "exited"}
          /\ c' # "write"
          /\ \/ outbox' = outbox /\ link' \in {link, "reset"}
             \/ outbox' \in Prefixes(outbox) /\ link' = "reset"
      BY <1>2
      DEF SendStep, ServerStays, wireVars, SendsExec, SendsStdin, SendsCancel,
          SendsClose, OnWire, IntoVoid, NotSent, connVars
    <2> QED
      BY <2>1, OutputStays
  <1>3. CASE QuietStep
    <2>1. UNCHANGED <<sent, outbox, link>>
      BY <1>3 DEF QuietStep, Quiet, connVars, wireVars
    <2>2. CASE Signals \/ FetchesStdin \/ LeavesStdin \/ EndsSession
               \/ ReadsStdin \/ QueuesStdin
      <3>1. /\ UNCHANGED mirrored /\ (c' = "write" => c = "write")
            /\ \/ UNCHANGED <<c, cHeld>> \/ c' = "exited"
               \/ c = "select" /\ c' # "write"
        BY <2>2
        DEF Signals, FetchesStdin, LeavesStdin, EndsSession, ReadsStdin,
            QueuesStdin
      <3> QED
        BY <2>1, <3>1, OutputStays
    <2>3. CASE Mirrors
      BY <2>1, <2>3, OutputOnMirror
    <2> QED
      BY <1>3, <2>2, <2>3 DEF QuietStep
  <1>4. CASE BreakStep
    BY <1>4, OutputStays DEF BreakStep, wireVars
  <1>5. CASE Idle
    BY <1>5, OutputStays DEF Idle, systemVars, vars, connVars, wireVars, clientVars
  <1>6. CASE ServerMoves
    <2>1. ServerKeeps /\ SrvStep
      BY <1>6 DEF ServerMoves
    <2>2. CASE SrvMoves \/ SrvReads \/ SrvLeaves
      <3>1. UNCHANGED <<sent, outbox, mirrored, c, cHeld, link>>
        BY <2>1, <2>2
        DEF SrvMoves, SrvReads, SrvLeaves, connVars, wireVars, ServerKeeps,
            clientVars
      <3> QED
        BY <3>1, OutputStays
    <2>3. ASSUME NEW s \in Streams, PutsOutput(s) PROVE OutputInv'
      <3>1. Output(s, sent[s] + 1) \in ServerFrames
        BY <2>3, PutsFrame DEF PutsOutput
      <3> QED
        BY <2>1, <2>3, <3>1, OutputOnPut DEF PutsOutput
    <2>4. ASSUME NEW m \in ExitFrames \cup {Error}, PutsReport(m) PROVE OutputInv'
      <3>1. m \in ServerFrames /\ m.kind # "output"
        BY DEF ServerFrames, ExecEvents, ExitFrames, Exit, Error
      <3> QED
        BY <2>1, <2>4, <3>1, OutputOnPut DEF PutsReport
    <2>5. CASE PutsClose
      <3>1. Control("close") \in ServerFrames /\ Control("close").kind # "output"
        BY DEF ServerFrames, Control
      <3> QED
        BY <2>1, <2>5, <3>1, OutputOnPut DEF PutsClose, wireVars
    <2> QED
      BY <2>1, <2>2, <2>3, <2>4, <2>5 DEF SrvStep
  <1> QED
    BY <1>1, <1>2, <1>3, <1>4, <1>5, <1>6, OutputOnReceive, StepShapes

-----------------------------------------------------------------------------
(* The exit code. Output is complete when the client sees the Close.       *)
LEMMA CodeOnEnd ==
    ASSUME SysInv, EndsSession, code' \notin {1, 130}
    PROVE  final = Exit(code') /\ mirrored = sent
  <1>1. /\ c = "select" /\ outbox = <<>> /\ link = "closing"
        /\ code' = exit /\ exit # -1
    BY DEF EndsSession
  <1>2. final = Exit(exit)
    BY <1>1 DEF SysInv, ClientInv, CodeInv
  <1>3. ASSUME NEW s \in Streams PROVE mirrored[s] = sent[s]
    <2>1. /\ Client!Seen(s) = mirrored[s] /\ mirrored[s] <= sent[s]
          /\ mirrored[s] \in Nat /\ sent[s] \in Nat
          /\ Carries(<<>>, s, mirrored[s], sent[s])
      BY <1>1, OutputCounts DEF SysInv, ClientInv, OutputInv
    <2> QED
      BY <2>1, CarriesEmpty
  <1>4. mirrored \in [Streams -> Nat] /\ sent \in [Streams -> 0..MaxOut]
    BY DEF SysInv, ClientInv, OutputInv, IInv, TypeOK, WireType
  <1> QED
    BY <1>1, <1>2, <1>3, <1>4

(* A step that leaves what was reported alone.                             *)
LEMMA CodeStays ==
    ASSUME SysInv, UNCHANGED <<final, sent, exit>>, OutboxKeeps,
           \/ UNCHANGED <<c, code, mirrored>>
           \/ c # "exited" /\ c' # "exited"
           \/ c' = "exited" /\ code' \in {1, 130}
           \/ c' = "exited" /\ final = Exit(code') /\ mirrored' = sent
    PROVE  CodeInv'
  <1>1. CodeInv
    BY DEF SysInv, ClientInv
  <1>2. \A i \in 1..Len(outbox') :
          outbox'[i].kind = "exit" => final = outbox'[i]
    BY <1>1 DEF CodeInv, OutboxKeeps
  <1> QED
    BY <1>1, <1>2 DEF CodeInv

LEMMA CodeOnReceive == ASSUME SysInv, Receives PROVE CodeInv'
  <1>1. CodeInv
    BY DEF SysInv, ClientInv
  <1>2. /\ Head(outbox) = outbox[1] /\ 1 \in 1..Len(outbox)
        /\ Head(outbox) \in ServerFrames
        /\ c = "select" /\ UNCHANGED <<final, sent, mirrored>>
        /\ exit' = IF Head(outbox).kind = "exit" THEN Head(outbox).code ELSE exit
        /\ c' = "exited" => code' = 1
    BY QueueTypes, TailElements DEF Receives, wireVars
  <1>3. Head(outbox).kind = "exit" => Head(outbox) = Exit(Head(outbox).code)
    BY <1>2 DEF ServerFrames, ExecEvents, OutputFrames, ExitFrames, Output,
                Exit, Error, Control
  <1>4. exit' # -1 => final = Exit(exit')
    BY <1>1, <1>2, <1>3 DEF CodeInv
  <1>5. \A i \in 1..Len(outbox') :
          outbox'[i].kind = "exit" => final = outbox'[i]
    BY <1>1, OutboxOf DEF CodeInv, OutboxKeeps
  <1> QED
    BY <1>2, <1>4, <1>5 DEF CodeInv

LEMMA CodeOnServer == ASSUME SysInv, ServerMoves PROVE CodeInv'
  <1>1. CodeInv /\ ServerKeeps /\ UNCHANGED <<c, code, mirrored, exit>>
    BY DEF SysInv, ClientInv, ServerMoves, ServerKeeps, clientVars
  <1>2. CASE UNCHANGED outbox
    <2>1. UNCHANGED <<sent, final>>
      <3>1. ASSUME NEW m \in ServerFrames PROVE ~Puts(m)
        <4>1. Len(Append(outbox, m)) # Len(outbox)
          BY QueueTypes, AppendElements
        <4> QED
          BY <1>2, <4>1 DEF Puts
      <3>2. CASE SrvMoves \/ SrvReads \/ SrvLeaves
        BY <3>2 DEF SrvMoves, SrvReads, SrvLeaves, wireVars
      <3>3. ~PutsClose /\ (\A s \in Streams : ~PutsOutput(s))
            /\ \A m \in ExitFrames \cup {Error} : ~PutsReport(m)
        BY <3>1, PutsFrame DEF PutsClose, PutsOutput, PutsReport
      <3> QED
        BY <3>2, <3>3 DEF ServerMoves, SrvStep
    <2> QED
      BY <1>1, <1>2, <2>1 DEF CodeInv
  <1>3. CASE outbox' # outbox
    <2>1. PICK m \in ServerFrames :
            /\ \A i \in 1..Len(outbox') :
                 outbox'[i] = m \/ \E j \in 1..Len(outbox) : outbox'[i] = outbox[j]
            /\ \/ \E s \in Streams : PutsOutput(s) /\ m.kind = "output"
               \/ PutsReport(m) /\ m \in ExitFrames \cup {Error}
               \/ PutsClose /\ m.kind = "close"
      BY <1>3, OutboxOfServer
    <2>2. NoFrame.kind = "none" /\ \A x : NoFrame # Exit(x)
      BY DEF NoFrame, Exit
    <2>3. CASE m.kind \in {"output", "close"} /\ UNCHANGED final
               /\ (final = NoFrame \/ UNCHANGED sent)
      BY <1>1, <2>1, <2>2, <2>3 DEF CodeInv
    <2>4. CASE PutsReport(m)
      <3>1. final = NoFrame /\ final' = m
        BY <2>4 DEF PutsReport
      <3> QED
        BY <1>1, <2>1, <2>2, <3>1 DEF CodeInv
    <2> QED
      BY <2>1, <2>3, <2>4 DEF PutsOutput, PutsClose, wireVars
  <1> QED
    BY <1>2, <1>3

(* The exit code of the client is the one the server has reported.         *)
LEMMA CodeStep == ASSUME SysInv, [SystemNext]_systemVars PROVE CodeInv'
  <1>1. CASE ConnectStep
    <2>1. /\ UNCHANGED <<final, sent, exit>> /\ c = "connect"
          /\ c' = "exited" => code' = 1
      BY <1>1 DEF ConnectStep, wireVars
    <2> QED
      BY <1>1, <2>1, OutboxOf, CodeStays
  <1>2. CASE SendStep
    <2>1. /\ UNCHANGED <<final, sent, exit>> /\ c # "exited"
          /\ c' = "exited" => code' \in {1, 130}
      BY <1>2
      DEF SendStep, ServerStays, wireVars, SendsExec, SendsStdin, SendsCancel,
          SendsClose
    <2> QED
      BY <1>2, <2>1, OutboxOf, CodeStays
  <1>3. CASE QuietStep
    <2>1. UNCHANGED <<final, sent, exit>> /\ OutboxKeeps
      BY <1>3, OutboxOf DEF QuietStep, Quiet, wireVars
    <2>2. CASE EndsSession
      <3>1. c # "exited" /\ c' = "exited" /\ UNCHANGED mirrored
        BY <2>2 DEF EndsSession
      <3> QED
        BY <2>1, <2>2, <3>1, CodeOnEnd, CodeStays
    <2>3. CASE Signals \/ FetchesStdin \/ LeavesStdin \/ Mirrors \/ ReadsStdin
               \/ QueuesStdin
      <3>1. \/ UNCHANGED <<c, code, mirrored>>
            \/ c # "exited" /\ c' # "exited"
            \/ c' = "exited" /\ code' \in {1, 130}
        BY <2>3
        DEF Signals, FetchesStdin, LeavesStdin, Mirrors, ReadsStdin, QueuesStdin
      <3> QED
        BY <2>1, <3>1, CodeStays
    <2> QED
      BY <1>3, <2>2, <2>3 DEF QuietStep
  <1>4. CASE BreakStep
    <2>1. UNCHANGED <<final, sent, exit, c, code, mirrored>>
      BY <1>4 DEF BreakStep, wireVars
    <2> QED
      BY <1>4, <2>1, OutboxOf, CodeStays
  <1>5. CASE Idle
    <2>1. UNCHANGED <<final, sent, exit, c, code, mirrored>>
      BY <1>5 DEF Idle, systemVars, vars, wireVars, clientVars
    <2> QED
      BY <1>5, <2>1, OutboxOf, CodeStays
  <1> QED
    BY <1>1, <1>2, <1>3, <1>4, <1>5, CodeOnReceive, CodeOnServer, StepShapes

-----------------------------------------------------------------------------
(* The invariant holds of a client that has not connected yet.             *)
LEMMA InitSysInv == SystemInit => SysInv
  <1> SUFFICES ASSUME SystemInit PROVE SysInv
    OBVIOUS
  <1>1. /\ IInv /\ inbox = <<>> /\ outbox = <<>> /\ said = {} /\ fed = 0
        /\ h = "upgrade" /\ conn = "up" /\ final = NoFrame
        /\ sent = [s \in Streams |-> 0]
    BY InitIInv DEF SystemInit, Init
  <1>2. /\ c = "connect" /\ link = "up" /\ t = "none" /\ chan = <<>>
        /\ exit = -1 /\ code = -1 /\ readStdin = TRUE /\ ended = FALSE
        /\ cFed = 0 /\ forwarded = 0 /\ mirrored = [s \in Streams |-> 0]
    BY DEF SystemInit
  <1>3. 1..Len(<<>>) = {} /\ Len(<<>>) = 0 /\ <<>> \in Seq(Client!Frames)
    BY EmptySeq
  <1>4. LinkInv /\ FirstInv /\ SaidInv /\ SendInv
    BY <1>1, <1>2, <1>3 DEF LinkInv, FirstInv, SaidInv, SendInv
  <1>5. TaskInv
    BY <1>2, <1>3 DEF TaskInv
  <1>6. ChanInv
    BY <1>2, <1>3 DEF ChanInv, Client!Queued, Client!Taken, Pending
  <1>7. OutputInv
    <2>1. \A s \in Streams : Client!Seen(s) = 0 /\ sent[s] = 0
      BY <1>1, <1>2 DEF Client!Seen, Client!Streams, Streams
    <2>2. \A s \in Streams : Carries(<<>>, s, 0, 0)
      BY CarriesNothing
    <2>3. \A s \in Streams : Begins(<<>>, s, 0, 0)
      BY <2>2, CarriesBegins
    <2> QED
      BY <1>1, <1>2, <2>1, <2>2, <2>3 DEF OutputInv
  <1>8. CodeInv
    BY <1>1, <1>2, <1>3 DEF CodeInv
  <1> QED
    BY <1>1, <1>4, <1>5, <1>6, <1>7, <1>8 DEF SysInv, ClientInv

LEMMA NextSysInv == SysInv /\ [SystemNext]_systemVars => SysInv'
  <1> SUFFICES ASSUME SysInv, [SystemNext]_systemVars PROVE SysInv'
    OBVIOUS
  <1>1. IInv'
    BY ServerStepOf, NextIInv DEF SysInv
  <1>2. ClientInv'
    BY LinkStep, FirstStep, SaidStep, TaskStep, ChanStep, SendInvStep,
       OutputStep, CodeStep DEF ClientInv
  <1> QED
    BY <1>1, <1>2 DEF SysInv

(* The two ends of the connection agree on what is between them, and what  *)
(* is inside each of them is accounted for, at every await of both.        *)
THEOREM SystemInvariance == SystemSpec => []SysInv
  BY InitSysInv, NextSysInv, PTL DEF SystemSpec

(* The server behind this client runs as ServerSession says: what          *)
(* run_client_session puts on the wire is what the client there may send,  *)
(* so all that is proved of ServerSession holds of the whole.              *)
THEOREM ServerIsCovered == SystemSpec => ImplementsServer
  <1>1. SystemInit => Init
    BY DEF SystemInit
  <1>2. SysInv /\ [SystemNext]_systemVars => [Next]_vars
    BY ServerStepOf
  <1> QED
    BY <1>1, <1>2, SystemInvariance, PTL
    DEF SystemSpec, ImplementsServer, Spec

(* The client in front of this server runs as ClientSession says: what     *)
(* handle_ws puts on the wire, and its way of leaving, are what the server *)
(* there may do.                                                           *)
THEOREM ClientIsCovered == SystemSpec => ImplementsClient
  <1>1. SystemInit => Client!Init
    BY DEF SystemInit, Init, Client!Init, Client!NoFrame, Client!NoCode,
           Client!Streams, Streams, NoFrame, Srv
  <1>2. SysInv /\ [SystemNext]_systemVars => [Client!Next]_(Client!vars)
    BY ClientStepOf
  <1> QED
    BY <1>1, <1>2, SystemInvariance, PTL
    DEF SystemSpec, ImplementsClient, Client!Spec

(* `hostcmd exec` ends with the exit code of the command, reaped, and with *)
(* all its output written, or with 1 or 130.                               *)
THEOREM ExitCodeIsTrue == SystemSpec => []ExitCodeEndToEnd
  <1>1. SysInv => ExitCodeEndToEnd
    <2> SUFFICES ASSUME SysInv, c = "exited", code \notin {1, 130}
                 PROVE  /\ leader = "reaped" /\ \A s \in Streams : ~Writers(s)
                        /\ code = ExitCode(status) /\ mirrored = written
      BY DEF ExitCodeEndToEnd
    <2>1. final = Exit(code) /\ mirrored = sent
      BY DEF SysInv, ClientInv, CodeInv
    <2>2. /\ sent = written /\ leader = "reaped"
          /\ \A s \in Streams : ~Writers(s)
          /\ final = ReportOf(status)
      BY <2>1 DEF SysInv, IInv, ExitAfterAllOutput, Exit
    <2>3. code = ExitCode(status)
      BY <2>1, <2>2 DEF ReportOf, Exit
    <2> QED
      BY <2>1, <2>2, <2>3
  <1> QED
    BY <1>1, SystemInvariance, PTL

(* A command sees the end of its stdin after all that was read of the      *)
(* client's, unless it is cancelled or failing: nothing is lost between    *)
(* the local stdin of `hostcmd exec` and the command.                      *)
THEOREM StdinReachesCommand == SystemSpec => StdinEndToEnd
  <1>1. SysInv /\ [SystemNext]_systemVars
          /\ [gotEof' # gotEof /\ ~cancelled /\ Waiting
                => Control("eof") \in said /\ got = fed]_vars
          => [gotEof' # gotEof /\ ~cancelled /\ Waiting => got = cFed]_systemVars
    <2> SUFFICES ASSUME SysInv, gotEof' # gotEof, ~cancelled, Waiting,
                        [gotEof' # gotEof /\ ~cancelled /\ Waiting
                           => Control("eof") \in said /\ got = fed]_vars
                 PROVE  got = cFed
      OBVIOUS
    <2>1. Control("eof") \in said /\ got = fed
      BY DEF vars, procVars
    <2> QED
      BY <2>1 DEF SysInv, ClientInv, SaidInv
  <1> QED
    BY <1>1, ServerIsCovered, EofComesLast, SystemInvariance, PTL
    DEF SystemSpec, ImplementsServer, EofAfterAllInput, StdinEndToEnd
=============================================================================
