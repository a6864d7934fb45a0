------------------------------- MODULE Daemon -------------------------------
(***************************************************************************)
(* The life of hostcmd servers on one machine: the launcher of `server     *)
(* --daemon`, the server process it starts, its ssh forward, `stop`, and   *)
(* the files and the port they meet at. All servers are given one address  *)
(* and one pid file; the readiness file is the launcher's own.             *)
(*                                                                         *)
(* A server is named by its process id, and ids are not reused here. A     *)
(* process that has ended is a "zombie" until it is reaped, by a launcher  *)
(* that still waits for it or by whoever inherits it, and until then       *)
(* kill(2) finds it.                                                       *)
(***************************************************************************)
EXTENDS Integers

CONSTANTS Servers,      \* server processes that may be started, by pid
          Daemons,      \* those started with --daemon
          Forwarding,   \* those started with --ssh-forward
          NoServer,     \* stands for a free port and for no pid file
          Empty,        \* a pid file that was truncated and not yet written
          MaxStops      \* bound: runs of `stop`

ASSUME DaemonAssumption ==
    /\ Daemons \subseteq Servers /\ Forwarding \subseteq Servers
    /\ NoServer \notin Servers /\ Empty \notin Servers \cup {NoServer}
    /\ MaxStops \in Nat

VARIABLES
    srv,        \* where run_server_foreground is in each server
    ssh,        \* the ssh process of each server
    port,       \* the server that listens
    pidFile,    \* the pid file
    ready,      \* the readiness file of each launcher
    launcher,   \* where wait_for_daemon_start is in each launcher
    stop,       \* where stop_daemon is
    target,     \* the process it stops
    stops       \* runs of `stop` so far

serverVars == <<srv, ssh, port>>
stopVars == <<stop, target, stops>>
vars == <<serverVars, pidFile, ready, launcher, stopVars>>

Init ==
    /\ srv = [i \in Servers |-> "none"] /\ ssh = [i \in Servers |-> "none"]
    /\ port = NoServer /\ pidFile = NoServer
    /\ ready = [i \in Servers |-> "absent"]
    /\ launcher = [i \in Servers |-> "none"]
    /\ stop = "idle" /\ target = NoServer /\ stops = 0

Alive(i) == srv[i] \notin {"none", "zombie", "gone"}
Polling(i) == launcher[i] \in {"try", "read", "exited"}

-----------------------------------------------------------------------------
(* run_server and run_server_foreground.                                   *)

Goes(i, from, to) == srv[i] = from /\ srv' = [srv EXCEPT ![i] = to]

Launch(i) ==
    /\ Goes(i, "none", "bind")
    /\ launcher' = [launcher EXCEPT ![i] = IF i \in Daemons THEN "try" ELSE @]
    /\ UNCHANGED <<ssh, port, pidFile, ready, stopVars>>

(* Faulty: the pid file is written first. *)
BindAfterPid(i) ==
    /\ pidFile' = i
    /\ \/ port = NoServer /\ port' = i /\ Goes(i, "bind", "forward")
       \/ port # NoServer /\ UNCHANGED port /\ Goes(i, "bind", "report")
    /\ UNCHANGED <<ssh, ready, launcher, stopVars>>

Bind(i) ==
    /\ port = NoServer /\ port' = i
    /\ Goes(i, "bind", "write_pid")
    /\ UNCHANGED <<ssh, pidFile, ready, launcher, stopVars>>

(* The port is taken, or what comes before it (paths, log file) failed.    *)
BindFails(i) ==
    /\ Goes(i, "bind", "report")
    /\ UNCHANGED <<ssh, port, pidFile, ready, launcher, stopVars>>

(* The pid file is written once the port is held, whoever it names. As any *)
(* file here it is truncated first, and written for nobody when a `stop`   *)
(* or the guard of another server unlinks it in between.                   *)
TruncatePid(i) ==
    /\ Goes(i, "write_pid", "fill_pid") /\ pidFile' = Empty
    /\ UNCHANGED <<port, ssh, ready, launcher, stopVars>>

(* Faulty: writes the pid of the launcher. *)
WriteLauncherPid(i) ==
    /\ Goes(i, "fill_pid", "forward") /\ pidFile' = "launcher"
    /\ UNCHANGED <<port, ssh, ready, launcher, stopVars>>

FillPid(i) ==
    /\ Goes(i, "fill_pid", "forward")
    /\ pidFile' = IF pidFile = Empty THEN i ELSE pidFile
    /\ UNCHANGED <<port, ssh, ready, launcher, stopVars>>

WritePidFails(i) ==
    /\ Goes(i, "write_pid", "report") \/ Goes(i, "fill_pid", "report")
    /\ port' = NoServer
    /\ UNCHANGED <<pidFile, ssh, ready, launcher, stopVars>>

SpawnSshForward(i) ==
    /\ \/ /\ Goes(i, "forward", "ready")
          /\ ssh' = [ssh EXCEPT ![i] = IF i \in Forwarding THEN "run" ELSE @]
          /\ UNCHANGED port
       \/ /\ i \in Forwarding
          /\ Goes(i, "forward", "drop_pid") /\ port' = NoServer /\ UNCHANGED ssh
    /\ UNCHANGED <<pidFile, ready, launcher, stopVars>>

(* The readiness file, in two steps that its launcher can be between.      *)
Truncate(i, from, to) ==
    /\ Goes(i, from, to)
    /\ ready' = [ready EXCEPT ![i] = IF i \in Daemons THEN "empty" ELSE @]
    /\ UNCHANGED <<ssh, port, pidFile, launcher, stopVars>>

Fill(i, from, to, text) ==
    /\ Goes(i, from, to)
    /\ ready' = [ready EXCEPT ![i] = IF @ = "empty" THEN text ELSE @]
    /\ UNCHANGED <<ssh, port, pidFile, launcher, stopVars>>

WriteReadyOk(i) ==
    Truncate(i, "ready", "write_ok") \/ Fill(i, "write_ok", "serving", "OK")

(* The file cannot be written: the server gives up as below.               *)
WriteReadyOkFails(i) ==
    /\ i \in Daemons
    /\ Goes(i, "ready", "drop_pid") \/ Goes(i, "write_ok", "drop_pid")
    /\ port' = NoServer
    /\ UNCHANGED <<ssh, pidFile, ready, launcher, stopVars>>

(* Faulty: only logs that the forward has ended. *)
ForwardExitLogged(i) == ssh[i] = "gone" /\ srv[i] = "serving" /\ UNCHANGED vars

(* The forward's end ends the server: its future is dropped, with it the   *)
(* listener, and only then the PidFile guard.                              *)
ForwardExited(i) ==
    /\ ssh[i] = "gone"
    /\ Goes(i, "serving", "drop_pid")
    /\ port' = NoServer
    /\ UNCHANGED <<ssh, pidFile, ready, launcher, stopVars>>

DropPidFile(i) ==
    /\ Goes(i, "drop_pid", "report")
    /\ pidFile' = NoServer
    /\ UNCHANGED <<ssh, port, ready, launcher, stopVars>>

(* That it cannot be written is ignored. *)
WriteReadyError(i) ==
    \/ Truncate(i, "report", "write_err")
    \/ Fill(i, "write_err", "exiting", "ERR")
    \/ /\ Goes(i, "report", "exiting") \/ Goes(i, "write_err", "exiting")
       /\ UNCHANGED <<ssh, port, ready, pidFile, launcher, stopVars>>

(* The process is gone, and with it its sockets. *)
Ends(S) ==
    /\ srv' = [i \in Servers |-> IF i \in S /\ Alive(i) THEN "zombie"
                                                        ELSE srv[i]]
    /\ port' = IF port \in S THEN NoServer ELSE port

(* ssh is "gone" for the server once its pipes have ended, too: until then *)
(* it is "held" by a process it started, which has inherited them.         *)
SshEnds(i) ==
    \E left \in {"held", "gone"} :
        ssh' = [ssh EXCEPT ![i] = IF @ = "run" THEN left ELSE @]

(* ssh is killed when the server drops it. *)
ServerExits(i) ==
    /\ srv[i] = "exiting" /\ Ends({i}) /\ SshEnds(i)
    /\ UNCHANGED <<pidFile, ready, launcher, stopVars>>

(* A crash: no destructor runs. *)
ServerDies(i) ==
    /\ Alive(i) /\ Ends({i})
    /\ UNCHANGED <<ssh, pidFile, ready, launcher, stopVars>>

SshExits(i) ==
    /\ \/ ssh[i] = "run" /\ SshEnds(i)
       \/ ssh[i] = "held" /\ ssh' = [ssh EXCEPT ![i] = "gone"]
    /\ UNCHANGED <<srv, port, pidFile, ready, launcher, stopVars>>

Reaped(i) ==
    /\ ~Polling(i) /\ Goes(i, "zombie", "gone")
    /\ UNCHANGED <<ssh, port, pidFile, ready, launcher, stopVars>>

-----------------------------------------------------------------------------
(* wait_for_daemon_start.                                                  *)

LauncherGoes(i, from, to) ==
    launcher[i] = from /\ launcher' = [launcher EXCEPT ![i] = to]
RemoveReady(i) == ready' = [ready EXCEPT ![i] = "absent"]

(* Faulty: does not notice that the child has exited. *)
TryWaitIgnoresExit(i) ==
    /\ LauncherGoes(i, "try", "read")
    /\ UNCHANGED <<serverVars, pidFile, ready, stopVars>>

(* The launcher returns an error of its own, "erred", when it cannot poll  *)
(* the child, and below when it cannot read the file. It leaves the child  *)
(* and the file as they are.                                               *)
TryWait(i) ==
    /\ \/ LauncherGoes(i, "try", "exited") /\ Goes(i, "zombie", "gone")
       \/ LauncherGoes(i, "try", "read") /\ Alive(i) /\ UNCHANGED srv
       \/ LauncherGoes(i, "try", "erred") /\ UNCHANGED srv
    /\ UNCHANGED <<ssh, port, pidFile, ready, stopVars>>

(* Faulty: each of these takes an empty file for a report. *)
ReadReadyEmptyOk(i) ==
    /\ \/ ready[i] \in {"OK", "empty"} /\ LauncherGoes(i, "read", "ok")
          /\ RemoveReady(i)
       \/ ready[i] = "ERR" /\ LauncherGoes(i, "read", "failed") /\ RemoveReady(i)
       \/ /\ ready[i] = "absent" /\ LauncherGoes(i, "read", "try")
          /\ UNCHANGED ready
       \/ LauncherGoes(i, "read", "erred") /\ UNCHANGED ready
    /\ UNCHANGED <<serverVars, pidFile, stopVars>>

ReadReadyEmptyFails(i) ==
    /\ \/ ready[i] = "OK" /\ LauncherGoes(i, "read", "ok") /\ RemoveReady(i)
       \/ ready[i] \in {"ERR", "empty"} /\ LauncherGoes(i, "read", "failed")
          /\ RemoveReady(i)
       \/ /\ ready[i] = "absent" /\ LauncherGoes(i, "read", "try")
          /\ UNCHANGED ready
       \/ LauncherGoes(i, "read", "erred") /\ UNCHANGED ready
    /\ UNCHANGED <<serverVars, pidFile, stopVars>>

(* An empty file, or none, is looked at again after the poll interval. *)
ReadReady(i) ==
    /\ \/ ready[i] = "OK" /\ LauncherGoes(i, "read", "ok") /\ RemoveReady(i)
       \/ ready[i] = "ERR" /\ LauncherGoes(i, "read", "failed") /\ RemoveReady(i)
       \/ /\ ready[i] \in {"absent", "empty"} /\ LauncherGoes(i, "read", "try")
          /\ UNCHANGED ready
       \/ LauncherGoes(i, "read", "erred") /\ UNCHANGED ready
    /\ UNCHANGED <<serverVars, pidFile, stopVars>>

(* Faulty: leaves the readiness file behind. *)
ReportExitedOnly(i) ==
    /\ LauncherGoes(i, "exited", "failed")
    /\ UNCHANGED <<serverVars, ready, pidFile, stopVars>>

(* The child has exited: whatever the file says, it did not start. *)
ReportExited(i) ==
    /\ LauncherGoes(i, "exited", "failed") /\ RemoveReady(i)
    /\ UNCHANGED <<serverVars, pidFile, stopVars>>

-----------------------------------------------------------------------------
(* stop_daemon. A daemon leads a process group that its ssh, and what that *)
(* started, is in; another server may lead none, and is signalled alone.   *)

Group(i) == i \in Daemons
Exists(i) ==
    Alive(i) \/ srv[i] = "zombie" \/ (Group(i) /\ ssh[i] \in {"run", "held"})

StopGoes(from, to) == stop = from /\ stop' = to

ReadPid ==
    /\ stops < MaxStops /\ stops' = stops + 1
    /\ \/ StopGoes("idle", "failed") /\ pidFile \in {NoServer, Empty}
          /\ UNCHANGED target
       \/ StopGoes("idle", "term") /\ pidFile \in Servers /\ target' = pidFile
    /\ UNCHANGED <<serverVars, pidFile, ready, launcher>>

(* Neither the server nor ssh handles TERM, so each signal ends them.      *)
Signal ==
    /\ Ends({target})
    /\ ssh' = [ssh EXCEPT ![target] =
                 IF Group(target) /\ @ \in {"run", "held"} THEN "gone" ELSE @]

SignalTerm ==
    /\ \/ StopGoes("term", "wait") /\ Exists(target) /\ Signal
       \/ /\ StopGoes("term", "failed") /\ ~Exists(target)
          /\ UNCHANGED serverVars
    /\ UNCHANGED <<pidFile, ready, launcher, target, stops>>

(* Faulty: does not wait. *)
WaitForNothing ==
    /\ StopGoes("wait", "remove")
    /\ UNCHANGED <<serverVars, pidFile, ready, launcher, target, stops>>

(* wait_for_exit, and what follows when the target is still there.         *)
WaitForExit ==
    /\ stop \in {"wait", "wait_kill"}
    /\ IF Exists(target)
         THEN StopGoes("wait", "kill") \/ StopGoes("wait_kill", "failed")
         ELSE StopGoes("wait", "remove") \/ StopGoes("wait_kill", "remove")
    /\ UNCHANGED <<serverVars, pidFile, ready, launcher, target, stops>>

SignalKill ==
    /\ StopGoes("kill", "wait_kill") /\ Signal
    /\ UNCHANGED <<pidFile, ready, launcher, target, stops>>

RemovePidFile ==
    /\ StopGoes("remove", "ok") /\ pidFile' = NoServer
    /\ UNCHANGED <<serverVars, ready, launcher, target, stops>>

StopReturns ==
    /\ stop \in {"ok", "failed"} /\ stop' = "idle" /\ target' = NoServer
    /\ UNCHANGED <<serverVars, pidFile, ready, launcher, stops>>

-----------------------------------------------------------------------------
ServerNext(i) ==
    \/ Bind(i) \/ BindFails(i)
    \/ TruncatePid(i) \/ FillPid(i) \/ WritePidFails(i) \/ SpawnSshForward(i)
    \/ WriteReadyOk(i) \/ WriteReadyOkFails(i) \/ ForwardExited(i)
    \/ DropPidFile(i) \/ WriteReadyError(i) \/ ServerExits(i)

LauncherNext(i) == TryWait(i) \/ ReadReady(i) \/ ReportExited(i)

StopNext ==
    \/ SignalTerm \/ WaitForExit \/ SignalKill \/ RemovePidFile \/ StopReturns

Environment(i) == Launch(i) \/ ServerDies(i) \/ SshExits(i)

(* Every server was started and has ended, or serves on. *)
Over ==
    /\ \A i \in Servers : srv[i] \in {"gone", "serving"} /\ ~Polling(i)
    /\ stop = "idle" /\ stops = MaxStops /\ UNCHANGED vars

Next ==
    \/ \E i \in Servers : Environment(i) \/ ServerNext(i) \/ LauncherNext(i)
                          \/ Reaped(i)
    \/ ReadPid \/ StopNext \/ Over

Spec == Init /\ [][Next]_vars

(* Servers and launchers run. Nothing is assumed of starts, crashes, ssh,  *)
(* of `stop`, or of when processes that have ended are reaped.             *)
Fairness == \A i \in Servers : WF_vars(ServerNext(i)) /\ WF_vars(LauncherNext(i))
FairSpec == Spec /\ Fairness

-----------------------------------------------------------------------------
(* Type correctness of processes and files.                                *)
TypeOK ==
    /\ srv \in [Servers -> {"none", "bind", "write_pid", "fill_pid", "forward",
                            "ready", "write_ok", "serving", "drop_pid", "report",
                            "write_err", "exiting", "zombie", "gone"}]
    /\ ssh \in [Servers -> {"none", "run", "held", "gone"}]
    /\ port \in Servers \cup {NoServer}
    /\ pidFile \in Servers \cup {NoServer, Empty}
    /\ ready \in [Servers -> {"absent", "empty", "OK", "ERR"}]
    /\ launcher \in [Servers -> {"none", "try", "read", "exited", "ok",
                                 "failed", "erred"}]
    /\ stop \in {"idle", "term", "wait", "kill", "wait_kill", "remove", "ok",
                 "failed"}
    /\ target \in Servers \cup {NoServer}
    /\ stops \in 0..MaxStops

(* The launcher reports success only of a server that has come to serve    *)
(* requests: it never takes a readiness file half written, or the error    *)
(* that replaced an OK, for success.                                       *)
SuccessfulStartServed ==
    \A i \in Servers : launcher[i] = "ok" =>
        srv[i] \notin {"none", "bind", "write_pid", "fill_pid", "forward",
                       "ready", "write_ok"}

(* When the launcher says that its daemon has failed, with the error the   *)
(* daemon has reported or with its exit, that daemon has ended or is about *)
(* to: none is left running behind such a report. An error of the          *)
(* launcher's own says nothing of the daemon, and may leave it running.    *)
FailedStartLeavesNoServer ==
    \A i \in Servers :
        launcher[i] = "failed" => srv[i] \in {"exiting", "zombie", "gone"}

(* `stop` succeeds only when the server it was to stop is gone, and that   *)
(* server no longer listens.                                               *)
StoppedServerIsGone ==
    stop \in {"remove", "ok"} => ~Exists(target) /\ port # target

(* A launcher that reports on its daemon leaves no readiness file, and the *)
(* daemon writes none for it again, but for one: a server that has served, *)
(* lost its forward and reports that to nobody. A launcher that returns an *)
(* error of its own leaves the file to whoever finds it.                   *)
ReadyFileRemoved ==
    \A i \in Servers :
        launcher[i] \in {"ok", "failed"} /\ ready[i] # "absent" =>
            /\ i \in Forwarding /\ launcher[i] = "ok"
            /\ srv[i] \in {"write_err", "exiting", "zombie", "gone"}

(* Once a server holds the port and has written its pid file, that file    *)
(* names it or is gone: servers that fail to start, end late or were       *)
(* killed, and runs of `stop` for them, never make it name another one.    *)
PidFileNamesNoOther ==
    \A i \in Servers :
        srv[i] \in {"forward", "ready", "write_ok", "serving"} =>
            pidFile \in {i, NoServer}

(* A server does not outlive its ssh forward, the pipes of ssh included,   *)
(* at whatever point of the start the forward ends.                        *)
ForwardEndsServer ==
    \A i \in Servers : (ssh[i] = "gone" /\ Alive(i)) ~> ~Alive(i)

(* A launcher returns, whichever way its child starts, fails or dies.      *)
LauncherReturns ==
    \A i \in Servers :
        (launcher[i] = "try") ~> (launcher[i] \in {"ok", "failed", "erred"})

-----------------------------------------------------------------------------
(* The inductive invariant.                                                *)

(* A server listens from the bind to the end of its foreground run, so the *)
(* port is a lock: no two servers are between those points.                *)
Listening(i) ==
    srv[i] \in {"write_pid", "fill_pid", "forward", "ready", "write_ok",
                "serving"}

ProcInv ==
    \A i \in Servers :
        /\ port = i <=> Listening(i)
        /\ ssh[i] # "none" => i \in Forwarding

(* A truncated pid file is filled by the server that truncated it, or was  *)
(* unlinked in between; a pid in it is that of a process that was started. *)
PidFileInv ==
    /\ pidFile \in Servers => srv[pidFile] # "none"
    /\ \A i \in Servers : srv[i] = "fill_pid" => pidFile \in {Empty, NoServer}
    /\ PidFileNamesNoOther

(* What a readiness file says is so: OK from the start of serving until    *)
(* the server reports otherwise, ERR at the end of the process only.       *)
ReadyInv ==
    \A i \in Servers :
        /\ i \notin Daemons => ready[i] = "absent"
        /\ ready[i] = "OK" => srv[i] \in {"serving", "drop_pid", "report",
                                         "exiting", "zombie", "gone"}
        /\ ready[i] = "ERR" => srv[i] \in {"exiting", "zombie", "gone"}
        /\ i \notin Forwarding /\ (ready[i] = "OK" \/ launcher[i] = "ok")
             => srv[i] \in {"serving", "zombie", "gone"}

LauncherInv ==
    /\ \A i \in Servers : launcher[i] = "exited" => srv[i] = "gone"
    /\ SuccessfulStartServed /\ FailedStartLeavesNoServer /\ ReadyFileRemoved

(* `stop` is at work on a process that was started once. *)
StopInv ==
    /\ stop \notin {"idle", "failed"} =>
         target \in Servers /\ srv[target] # "none"
    /\ StoppedServerIsGone

IInv ==
    /\ TypeOK /\ ProcInv /\ PidFileInv
    /\ ReadyInv /\ LauncherInv /\ StopInv

-----------------------------------------------------------------------------
(* A server that serves is the one the pid file names, unless a `stop` is  *)
(* at work.                                                                *)
PidFileNamesServer ==
    \A i \in Servers : srv[i] = "serving" /\ stop = "idle" => pidFile = i
=============================================================================
