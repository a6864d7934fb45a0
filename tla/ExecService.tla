---------------------------- MODULE ExecService ----------------------------
(***************************************************************************)
(* What one session of the hostcmd server promises, with no task, channel, *)
(* pipe or socket: a command runs at most once; each of its output streams *)
(* reaches the client chunk by chunk, in order; and the session ends with  *)
(* at most one report. The report is an exit code only when the command    *)
(* has ended, the code is the one it ended with, and the client has been   *)
(* given everything that was written, after which nothing is written.      *)
(***************************************************************************)
EXTENDS Integers

CONSTANTS Streams,    \* the output streams of a command
          Statuses,   \* the ways a command may end
          NoStatus,   \* the status of a command that has not ended
          Report(_),  \* the report the client is given of a status
          Failure,    \* the report of a session that failed
          NoReport    \* the report of a session that has made none

VARIABLES phase,      \* "idle", "running", "ended"
          status,     \* how the command ended
          produced,   \* chunks written to each stream
          delivered,  \* last chunk of each stream given to the client
          report      \* the report given to the client

vars == <<phase, status, produced, delivered, report>>

Init ==
    /\ phase = "idle" /\ status = NoStatus
    /\ produced = [s \in Streams |-> 0]
    /\ delivered = [s \in Streams |-> 0]
    /\ report = NoReport

Start ==
    /\ phase = "idle"
    /\ phase' = "running"
    /\ UNCHANGED <<status, produced, delivered, report>>

(* A helper the command left behind may still write once it has ended, but *)
(* not once its exit code is reported.                                     *)
Produce(s) ==
    /\ phase \in {"running", "ended"} /\ report \in {NoReport, Failure}
    /\ produced' = [produced EXCEPT ![s] = @ + 1]
    /\ UNCHANGED <<phase, status, delivered, report>>

Deliver(s) ==
    /\ report = NoReport /\ delivered[s] < produced[s]
    /\ delivered' = [delivered EXCEPT ![s] = @ + 1]
    /\ UNCHANGED <<phase, status, produced, report>>

End(c) ==
    /\ phase = "running"
    /\ phase' = "ended" /\ status' = c
    /\ UNCHANGED <<produced, delivered, report>>

ReportExit ==
    /\ phase = "ended" /\ report = NoReport
    /\ delivered = produced
    /\ report' = Report(status)
    /\ UNCHANGED <<phase, status, produced, delivered>>

(* A session fails before its command starts or after it has ended.        *)
ReportFailure ==
    /\ phase # "running" /\ report = NoReport
    /\ report' = Failure
    /\ UNCHANGED <<phase, status, produced, delivered>>

Next ==
    \/ Start \/ ReportExit \/ ReportFailure
    \/ \E s \in Streams : Produce(s) \/ Deliver(s)
    \/ \E c \in Statuses : End(c)

Spec == Init /\ [][Next]_vars
=============================================================================
