---------------------------- MODULE MCExecSystem ----------------------------
(***************************************************************************)
(* ExecSystem for TLC: with a command that writes to stdout only, has no   *)
(* helper, and ends with code 0 or by the TERM it was sent; and with a     *)
(* filter, a command that writes a chunk to stdout for each chunk it reads *)
(* and ends, with code 0, once it has read and answered all its input, run *)
(* by a client whose stdin and stdout work, over a connection that is not  *)
(* lost.                                                                   *)
(***************************************************************************)
EXTENDS ExecSystem

QuietCommand ==
    \/ CmdReads \/ CmdSeesEof \/ CmdWrites("stdout")
    \/ \E d \in Closable : CmdCloses(d)
    \/ CmdExits(IF signalled = "TERM" THEN Signaled ELSE 0)

QuietNext == StepsWith(QuietCommand)
QuietSpec == SystemInit /\ [][QuietNext]_systemVars

-----------------------------------------------------------------------------
FilterClient == ClientMain /\ (c \in {"connect", "write"} => c' # "exited")

FilterStdin ==
    /\ StdinTask
    /\ tHeld'.kind # "cancel" /\ (tHeld'.kind = "eof" => cFed = MaxIn)

FilterCommand ==
    \/ got = written["stdout"] /\ (CmdReads \/ CmdSeesEof)
    \/ written["stdout"] < got /\ CmdWrites("stdout")
    \/ gotEof /\ written["stdout"] = got /\ CmdExits(0)

FilterServer ==
    \/ ServerStep(Handles) \/ ServerStep(ExecNext) \/ ServerStep(StdinNext)
    \/ \E s \in Streams : ServerStep(ReaderNext(s))

FilterNext ==
    FilterClient \/ FilterStdin \/ FilterServer \/ ServerStep(FilterCommand)

FilterSpec ==
    /\ SystemInit /\ [][FilterNext]_systemVars
    /\ WF_systemVars(FilterClient) /\ WF_systemVars(FilterStdin)
    /\ WF_systemVars(FilterServer) /\ WF_systemVars(ServerStep(FilterCommand))

(* A filter that was started comes to its end and so does its client, when *)
(* local stdin ends, local stdout takes everything and the connection is   *)
(* not lost: stdin, stdout and stderr are all streamed at the same time.   *)
FilterCompletes == (leader = "run") ~> (c = "exited")
=============================================================================
