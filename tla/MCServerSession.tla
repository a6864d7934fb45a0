-------------------------- MODULE MCServerSession --------------------------
(***************************************************************************)
(* ServerSession for TLC, with a client that sends one Exec: another one   *)
(* is a frame of kind "other" to the session.                              *)
(***************************************************************************)
EXTENDS ServerSessionInv

OneExec == Cardinality({m \in said' : m.kind = "exec"}) <= 1

(* A command that writes no more than one chunk to stderr, so that more of *)
(* what it writes to stdout is in flight.                                  *)
TerseNext ==
    /\ \/ ClientNext \/ HandlerNext \/ ExecNext \/ StdinNext
       \/ \E s \in Streams : ReaderNext(s)
       \/ CmdForks \/ HelperExits \/ CmdWrites("stdout")
       \/ written["stderr"] = 0 /\ CmdWrites("stderr")
       \/ \E d \in Closable : CmdCloses(d)
       \/ \E c \in Statuses : CmdExits(c)
       \/ Over
    /\ OneExec

TerseSpec == Init /\ [][TerseNext]_vars

(* A command that writes to stdout only, in a session in which either its  *)
(* stdin flows, or its output, and then the client sends no more than the  *)
(* command and what is no frame: so that more of either can be in flight.  *)
OneWayNext ==
    /\ \/ ClientNext \/ HandlerNext \/ ExecNext \/ StdinNext
       \/ \E s \in Streams : ReaderNext(s)
       \/ CmdReads \/ CmdSeesEof \/ CmdForks \/ HelperExits
       \/ CmdWrites("stdout")
       \/ \E d \in Closable : CmdCloses(d)
       \/ \E c \in Statuses : CmdExits(c)
       \/ Over
    /\ OneExec
    /\ \/ written'["stdout"] = 0
       \/ /\ fed' = 0 /\ closed' = {}
          /\ said' \cap {Control(k) : k \in {"eof", "cancel", "close"}} = {}

OneWaySpec == Init /\ [][OneWayNext]_vars

(* A command that does not read its stdin, writes to stdout only and has   *)
(* no helper, so that both of its streams can be held up.                  *)
DeafNext ==
    /\ \/ ClientNext \/ HandlerNext \/ ExecNext \/ StdinNext
       \/ \E s \in Streams : ReaderNext(s)
       \/ CmdWrites("stdout")
       \/ \E d \in Closable : CmdCloses(d)
       \/ \E c \in Statuses : CmdExits(c)
       \/ Over
    /\ OneExec

DeafSpec == Init /\ [][DeafNext]_vars /\ Fairness
=============================================================================
