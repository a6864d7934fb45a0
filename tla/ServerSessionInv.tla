-------------------------- MODULE ServerSessionInv --------------------------
(***************************************************************************)
(* The inductive invariant of ServerSession. Its parts follow a chunk of   *)
(* output from the command to the socket, and the result of the command    *)
(* from its exit to the frame that ends the session.                       *)
(***************************************************************************)
EXTENDS ServerSession

(* What a task holds while it is at the await that hands it on.            *)
HoldInv ==
    /\ h = "send_output" => held \in ExecEvents
    /\ h = "send_stdin" => held \in StdinFrames
    /\ h \notin {"send_output", "send_stdin"} => held = NoFrame
    /\ st = "write" => stHeld \in 1..MaxIn
    /\ \A s \in Streams : rd[s] = "send" => rdHeld[s] \in 1..MaxOut

(* What exists at each await of execute_command: the child is unreaped as  *)
(* long as it is waited for, and the readers have ended well when the      *)
(* result is a success.                                                    *)
Succeeded == e = "ret_ok" \/ done = "ok"

ExecInv ==
    /\ e \in {"none", "queued"} => leader = "none"
    /\ Waiting => leader \in {"run", "zombie"}
    /\ e \in {"join_stdout", "join_stderr", "send_exit"} \/ Succeeded
          => leader = "reaped"
    /\ e = "kill_child" => leader # "none"
    /\ e = "reap_child" => leader = "zombie"
    /\ leader = "run" => Waiting \/ e = "kill_child"
    /\ leader \in {"zombie", "reaped"} => status \in Statuses
    /\ leader \in {"none", "run"} => status = NoStatus
    /\ leader = "none" => helper = "none" /\ \A s \in Streams : rd[s] = "none"
    /\ e = "finished" <=> done # "pending"
    /\ e \in {"join_stderr", "send_exit"} => rd["stdout"] = "eof"
    /\ e = "send_exit" \/ Succeeded => \A s \in Streams : rd[s] = "eof"

(* How far the handler is: the execution has not begun before the loop,    *)
(* and has ended, or was cancelled, once the handler has left it.          *)
HandlerInv ==
    /\ h \in {"upgrade", "await_exec"} => e = "none" /\ final = NoFrame
    /\ h \in {"loop", "send_output", "send_stdin", "await_done"} => e # "none"
    /\ h \in {"send_error", "close"} => e \in {"none", "finished"}
    /\ h = "send_error" => ~Succeeded /\ final = NoFrame
    /\ h = "await_done" => ExecReturned
    /\ h \in {"await_done", "send_error", "close"} =>
         \A s \in Streams : rd[s] \notin {"read", "send"}
    /\ h = "done" => cancelled \/ e \in {"none", "finished"}
    /\ h \notin {"loop", "send_output", "send_stdin", "done"} => events = <<>>
    /\ e = "none" => events = <<>>
    /\ final = Error => h \in {"close", "done"}

(* A reader has read what was written and is not in the pipe, in order.    *)
PipeInv ==
    \A s \in Streams :
        /\ rd[s] \in {"none", "read", "send", "eof"}
              => rdHeld[s] + Len(pipe[s]) = written[s]
        /\ Consecutive(pipe[s], rdHeld[s]) /\ rdHeld[s] <= written[s]
        /\ rd[s] \notin {"read", "send"} => pipe[s] = <<>>
        /\ rd[s] = "none" => written[s] = 0
        /\ rd[s] = "eof" => ~Writers(s)

(* The channel holds, in order and once, the chunks of a stream between    *)
(* the last one its reader has sent and the last one the handler has taken.*)
Queued(s) == IF rd[s] = "send" THEN rdHeld[s] - 1 ELSE rdHeld[s]
Taken(s) ==
    IF h = "send_output" /\ IsChunk(held, s) THEN held.n ELSE sent[s]

StreamInv(s) ==
    /\ h = "send_output" /\ IsChunk(held, s) => held.n = sent[s] + 1
    /\ Taken(s) <= Queued(s)
    /\ Carries(events, s, Taken(s), Queued(s))

ChannelInv == conn = "up" /\ h # "done" => \A s \in Streams : StreamInv(s)

(* An Exit is the last event there is, and stays in sight until it is on   *)
(* the wire.                                                               *)
HasExit(q) == \E i \in 1..Len(q) : q[i].kind = "exit"
EndsInExit(q) == q # <<>> /\ q[Len(q)].kind = "exit"
ExitOnlyLast(q) ==
    \A i \in 1..Len(q) :
        q[i].kind = "exit" => i = Len(q) /\ q[i] = ReportOf(status)

ExitInv ==
    /\ ExitOnlyLast(events) /\ (HasExit(events) => Succeeded)
    /\ held.kind = "exit" =>
         Succeeded /\ events = <<>> /\ held = ReportOf(status)
    /\ final.kind = "exit" =>
         Succeeded /\ (h # "done" => events = <<>>) /\ h # "send_output"
    /\ Succeeded /\ conn = "up" /\ h # "done" =>
         final.kind = "exit" \/ held.kind = "exit" \/ EndsInExit(events)

IInv ==
    /\ TypeOK /\ HoldInv /\ ExecInv /\ HandlerInv
    /\ PipeInv /\ ChannelInv /\ ExitInv
    /\ ExitAfterAllOutput /\ AnswerBeforeClose

-----------------------------------------------------------------------------
(* The way in. What has left each place that a chunk of stdin passes, from *)
(* the pipe of the command back to the socket.                             *)
Fetched == got + Len(inPipe) + (IF st = "write" THEN 1 ELSE 0)
Handed == Fetched + Len(stdinCh)
Read == Handed + (IF h = "send_stdin" THEN 1 ELSE 0)

(* Chunks can still reach a command.                                       *)
Flowing ==
    \/ e = "none" /\ h \in {"upgrade", "await_exec"}
    \/ e = "queued"
    \/ st \in {"recv", "write"} /\ TakesStdin

(* As long as they can, every chunk the client has sent is accounted for;  *)
(* only a broken connection may lose the last of those that were not read, *)
(* and what ends them. The handler lets go of stdin_tx when there are no   *)
(* more to come.                                                           *)
Ends(m) == m.kind \in {"eof", "close"}
HasEnd(q) == \E i \in 1..Len(q) : Ends(q[i])
FlowInv ==
    /\ st = "write" => stHeld = got + Len(inPipe) + 1
    /\ Consecutive(stdinCh, Fetched)
    /\ h = "send_stdin" => held.n = Handed + 1
    /\ Read <= fed
    /\ Begins(inbox, "stdin", Read, fed)
    /\ conn # "broken" \/ HasEnd(inbox) => Carries(inbox, "stdin", Read, fed)
    /\ h \notin {"upgrade", "await_exec", "done"} /\ ~stdinTx
          => Control("eof") \in said /\ Read = fed

(* No stdin follows a StdinEof or a Close.                                 *)
EndLast ==
    \A i \in 1..Len(inbox) : Ends(inbox[i]) =>
        /\ Control(inbox[i].kind) \in said
        /\ \A j \in 1..Len(inbox) : i < j => inbox[j].kind # "stdin"

(* The task of stream_stdin has left a command that is neither cancelled   *)
(* nor failing, and that has not closed its stdin, with all of it.         *)
EndInv ==
    st = "gone" /\ TakesStdin /\ Waiting /\ ~cancelled
        => Control("eof") \in said /\ got + Len(inPipe) = fed

InputStateInv ==
    /\ ~TakesStdin => inPipe = <<>>
    /\ leader = "none" => closed = {}
    /\ leader = "none" => got = 0
    /\ e \in {"none", "queued"} => st = "none"
    /\ e = "none" => stdinCh = <<>>
    /\ h = "send_stdin" => stdinTx

InputInv ==
    /\ InputStateInv /\ StdinInOrder /\ EndLast
    /\ (Flowing => FlowInv) /\ EndInv
=============================================================================
