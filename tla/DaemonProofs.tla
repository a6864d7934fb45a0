---------------------------- MODULE DaemonProofs ----------------------------
(***************************************************************************)
(* Theorems about Daemon, for every set of servers, daemons and forwards   *)
(* and any number of runs of `stop`.                                       *)
(***************************************************************************)
EXTENDS Daemon, TLAPS

-----------------------------------------------------------------------------
(* The parts of the invariant, one lemma each, with a step for each action *)
(* that can disturb it.                                                    *)

(* Processes and files stay well typed. *)
LEMMA TypeStep == ASSUME TypeOK, [Next]_vars PROVE TypeOK'
  <1> USE DaemonAssumption DEF TypeOK, Goes, LauncherGoes, StopGoes, Ends,
          serverVars, stopVars
  <1>1. ASSUME NEW i \in Servers, ServerNext(i) PROVE TypeOK'
    <2>1. CASE Bind(i) \/ BindFails(i) BY <2>1 DEF Bind, BindFails
    <2>2. CASE TruncatePid(i) \/ FillPid(i) \/ WritePidFails(i)
      BY <2>2 DEF TruncatePid, FillPid, WritePidFails
    <2>3. CASE SpawnSshForward(i) BY <2>3 DEF SpawnSshForward
    <2>4. CASE WriteReadyOk(i) BY <2>4 DEF WriteReadyOk, Truncate, Fill
    <2>5. CASE WriteReadyOkFails(i) \/ ForwardExited(i) \/ DropPidFile(i)
      BY <2>5 DEF WriteReadyOkFails, ForwardExited, DropPidFile
    <2>6. CASE WriteReadyError(i) BY <2>6 DEF WriteReadyError, Truncate, Fill
    <2>7. CASE ServerExits(i) BY <2>7 DEF ServerExits, SshEnds
    <2> QED BY <1>1, <2>1, <2>2, <2>3, <2>4, <2>5, <2>6, <2>7 DEF ServerNext
  <1>2. ASSUME NEW i \in Servers, LauncherNext(i) PROVE TypeOK'
    <2>1. CASE TryWait(i) BY <2>1 DEF TryWait
    <2>2. CASE ReadReady(i) BY <2>2 DEF ReadReady, RemoveReady
    <2>3. CASE ReportExited(i) BY <2>3 DEF ReportExited, RemoveReady
    <2> QED BY <1>2, <2>1, <2>2, <2>3 DEF LauncherNext
  <1>3. ASSUME NEW i \in Servers, Environment(i) \/ Reaped(i) PROVE TypeOK'
    <2>1. CASE Launch(i) BY <2>1 DEF Launch
    <2>2. CASE ServerDies(i) BY <2>2 DEF ServerDies
    <2>3. CASE SshExits(i) \/ Reaped(i) BY <2>3 DEF SshExits, SshEnds, Reaped
    <2> QED BY <1>3, <2>1, <2>2, <2>3 DEF Environment
  <1>4. CASE ReadPid BY <1>4 DEF ReadPid
  <1>5. CASE StopNext
    <2>1. CASE SignalTerm BY <2>1 DEF SignalTerm, Signal
    <2>2. CASE WaitForExit BY <2>2 DEF WaitForExit
    <2>3. CASE SignalKill BY <2>3 DEF SignalKill, Signal
    <2>4. CASE RemovePidFile \/ StopReturns
      BY <2>4 DEF RemovePidFile, StopReturns
    <2> QED BY <1>5, <2>1, <2>2, <2>3, <2>4 DEF StopNext
  <1>6. CASE UNCHANGED vars BY <1>6 DEF vars
  <1> QED BY <1>1, <1>2, <1>3, <1>4, <1>5, <1>6 DEF Next, Over

(* The port is a lock, and only a forwarding server has an ssh process. *)
LEMMA ProcStep == ASSUME TypeOK, ProcInv, [Next]_vars PROVE ProcInv'
  <1> USE DaemonAssumption
      DEF TypeOK, ProcInv, Listening, Alive, Goes, Ends, serverVars
  <1>1. ASSUME NEW i \in Servers, ServerNext(i) PROVE ProcInv'
    <2>1. CASE Bind(i) \/ BindFails(i) BY <2>1 DEF Bind, BindFails
    <2>2. CASE TruncatePid(i) \/ FillPid(i) BY <2>2 DEF TruncatePid, FillPid
    <2>3. CASE WritePidFails(i) BY <2>3 DEF WritePidFails
    <2>4. CASE SpawnSshForward(i) BY <2>4 DEF SpawnSshForward
    <2>5. CASE WriteReadyOk(i) BY <2>5 DEF WriteReadyOk, Truncate, Fill
    <2>6. CASE WriteReadyOkFails(i) \/ ForwardExited(i)
      BY <2>6 DEF WriteReadyOkFails, ForwardExited
    <2>7. CASE DropPidFile(i) BY <2>7 DEF DropPidFile
    <2>8. CASE WriteReadyError(i) BY <2>8 DEF WriteReadyError, Truncate, Fill
    <2>9. CASE ServerExits(i) BY <2>9 DEF ServerExits, SshEnds
    <2> QED BY <1>1, <2>1, <2>2, <2>3, <2>4, <2>5, <2>6, <2>7, <2>8, <2>9
            DEF ServerNext
  <1>2. ASSUME NEW i \in Servers, TryWait(i) PROVE ProcInv' BY <1>2 DEF TryWait
  <1>3. ASSUME NEW i \in Servers, Environment(i) \/ Reaped(i) PROVE ProcInv'
    <2>1. CASE Launch(i) BY <2>1 DEF Launch
    <2>2. CASE ServerDies(i) BY <2>2 DEF ServerDies
    <2>3. CASE SshExits(i) \/ Reaped(i) BY <2>3 DEF SshExits, SshEnds, Reaped
    <2> QED BY <1>3, <2>1, <2>2, <2>3 DEF Environment
  <1>4. CASE SignalTerm \/ SignalKill
    BY <1>4 DEF SignalTerm, SignalKill, Signal
  <1>5. CASE UNCHANGED serverVars BY <1>5
  <1> QED BY <1>1, <1>2, <1>3, <1>4, <1>5
          DEF Next, Over, LauncherNext, ReadReady, ReportExited, ReadPid,
              StopNext, WaitForExit, RemovePidFile, StopReturns, vars

(* The pid file names the server that listens, or nobody, or is being      *)
(* written by it: the port keeps all other writers away.                   *)
LEMMA PidFileStep ==
    ASSUME TypeOK, ProcInv, PidFileInv, [Next]_vars PROVE PidFileInv'
  <1> USE DaemonAssumption
      DEF TypeOK, ProcInv, PidFileInv, PidFileNamesNoOther, Listening, Alive,
          Goes, Ends, serverVars
  <1>1. ASSUME NEW i \in Servers, ServerNext(i) PROVE PidFileInv'
    <2>1. CASE Bind(i) \/ BindFails(i) BY <2>1 DEF Bind, BindFails
    <2>2. CASE TruncatePid(i) BY <2>2 DEF TruncatePid
    <2>3. CASE FillPid(i) BY <2>3 DEF FillPid
    <2>4. CASE WritePidFails(i) BY <2>4 DEF WritePidFails
    <2>5. CASE SpawnSshForward(i) BY <2>5 DEF SpawnSshForward
    <2>6. CASE WriteReadyOk(i) BY <2>6 DEF WriteReadyOk, Truncate, Fill
    <2>7. CASE WriteReadyOkFails(i) \/ ForwardExited(i)
      BY <2>7 DEF WriteReadyOkFails, ForwardExited
    <2>8. CASE DropPidFile(i) BY <2>8 DEF DropPidFile
    <2>9. CASE WriteReadyError(i) BY <2>9 DEF WriteReadyError, Truncate, Fill
    <2>10. CASE ServerExits(i) BY <2>10 DEF ServerExits, SshEnds
    <2> QED BY <1>1, <2>1, <2>2, <2>3, <2>4, <2>5, <2>6, <2>7, <2>8, <2>9,
               <2>10 DEF ServerNext
  <1>2. ASSUME NEW i \in Servers, TryWait(i) PROVE PidFileInv'
    BY <1>2 DEF TryWait
  <1>3. ASSUME NEW i \in Servers, Environment(i) \/ Reaped(i) PROVE PidFileInv'
    <2>1. CASE Launch(i) BY <2>1 DEF Launch
    <2>2. CASE ServerDies(i) BY <2>2 DEF ServerDies
    <2>3. CASE SshExits(i) \/ Reaped(i) BY <2>3 DEF SshExits, SshEnds, Reaped
    <2> QED BY <1>3, <2>1, <2>2, <2>3 DEF Environment
  <1>4. CASE SignalTerm \/ SignalKill
    BY <1>4 DEF SignalTerm, SignalKill, Signal
  <1>5. CASE RemovePidFile BY <1>5 DEF RemovePidFile
  <1>6. CASE UNCHANGED <<serverVars, pidFile>> BY <1>6
  <1> QED BY <1>1, <1>2, <1>3, <1>4, <1>5, <1>6
          DEF Next, Over, LauncherNext, ReadReady, ReportExited, ReadPid,
              StopNext, WaitForExit, StopReturns, vars

(* A readiness file that is read whole tells the truth. *)
LEMMA ReadyStep ==
    ASSUME TypeOK, ProcInv, ReadyInv, [Next]_vars PROVE ReadyInv'
  <1> USE DaemonAssumption
      DEF TypeOK, ProcInv, ReadyInv, Alive, Goes, LauncherGoes, RemoveReady,
          Ends, serverVars, stopVars
  <1>1. ASSUME NEW i \in Servers, ServerNext(i) PROVE ReadyInv'
    <2>1. CASE Bind(i) \/ BindFails(i) BY <2>1 DEF Bind, BindFails
    <2>2. CASE TruncatePid(i) \/ FillPid(i) \/ WritePidFails(i)
      BY <2>2 DEF TruncatePid, FillPid, WritePidFails
    <2>3. CASE SpawnSshForward(i) BY <2>3 DEF SpawnSshForward
    <2>4. CASE WriteReadyOk(i) BY <2>4 DEF WriteReadyOk, Truncate, Fill
    <2>5. CASE WriteReadyOkFails(i) BY <2>5 DEF WriteReadyOkFails
    <2>6. CASE ForwardExited(i) BY <2>6 DEF ForwardExited
    <2>7. CASE DropPidFile(i) BY <2>7 DEF DropPidFile
    <2>8. CASE WriteReadyError(i) BY <2>8 DEF WriteReadyError, Truncate, Fill
    <2>9. CASE ServerExits(i) BY <2>9 DEF ServerExits, SshEnds
    <2> QED BY <1>1, <2>1, <2>2, <2>3, <2>4, <2>5, <2>6, <2>7, <2>8, <2>9
            DEF ServerNext
  <1>2. ASSUME NEW i \in Servers, LauncherNext(i) PROVE ReadyInv'
    <2>1. CASE TryWait(i) BY <2>1 DEF TryWait
    <2>2. CASE ReadReady(i) BY <2>2 DEF ReadReady
    <2>3. CASE ReportExited(i) BY <2>3 DEF ReportExited
    <2> QED BY <1>2, <2>1, <2>2, <2>3 DEF LauncherNext
  <1>3. ASSUME NEW i \in Servers, Environment(i) \/ Reaped(i) PROVE ReadyInv'
    <2>1. CASE Launch(i) BY <2>1 DEF Launch
    <2>2. CASE ServerDies(i) BY <2>2 DEF ServerDies
    <2>3. CASE SshExits(i) \/ Reaped(i) BY <2>3 DEF SshExits, SshEnds, Reaped
    <2> QED BY <1>3, <2>1, <2>2, <2>3 DEF Environment
  <1>4. CASE SignalTerm \/ SignalKill
    BY <1>4 DEF SignalTerm, SignalKill, Signal
  <1>5. CASE UNCHANGED <<serverVars, ready, launcher>> BY <1>5
  <1> QED BY <1>1, <1>2, <1>3, <1>4, <1>5
          DEF Next, Over, ReadPid, StopNext, WaitForExit, RemovePidFile,
              StopReturns, vars

(* What a launcher has reported of its server stays true. *)
LEMMA LauncherStep ==
    ASSUME TypeOK, ProcInv, ReadyInv, LauncherInv, [Next]_vars
    PROVE  LauncherInv'
  <1> USE DEF TypeOK, ReadyInv, LauncherInv, SuccessfulStartServed,
              FailedStartLeavesNoServer, ReadyFileRemoved, Alive, Goes,
              LauncherGoes, RemoveReady, Ends, serverVars, stopVars
  <1>1. ASSUME NEW i \in Servers, ServerNext(i) PROVE LauncherInv'
    <2>1. CASE Bind(i) \/ BindFails(i) BY <2>1 DEF Bind, BindFails
    <2>2. CASE TruncatePid(i) \/ FillPid(i) \/ WritePidFails(i)
      BY <2>2 DEF TruncatePid, FillPid, WritePidFails
    <2>3. CASE SpawnSshForward(i) BY <2>3 DEF SpawnSshForward
    <2>4. CASE WriteReadyOk(i) BY <2>4 DEF WriteReadyOk, Truncate, Fill
    <2>5. CASE WriteReadyOkFails(i) BY <2>5 DEF WriteReadyOkFails
    <2>6. CASE ForwardExited(i) BY <2>6 DEF ForwardExited, ProcInv
    <2>7. CASE DropPidFile(i) BY <2>7 DEF DropPidFile
    <2>8. CASE WriteReadyError(i) BY <2>8 DEF WriteReadyError, Truncate, Fill
    <2>9. CASE ServerExits(i) BY <2>9 DEF ServerExits, SshEnds
    <2> QED BY <1>1, <2>1, <2>2, <2>3, <2>4, <2>5, <2>6, <2>7, <2>8, <2>9
            DEF ServerNext
  <1>2. ASSUME NEW i \in Servers, LauncherNext(i) PROVE LauncherInv'
    <2>1. CASE TryWait(i) BY <2>1 DEF TryWait
    <2>2. CASE ReadReady(i) BY <2>2 DEF ReadReady
    <2>3. CASE ReportExited(i) BY <2>3 DEF ReportExited
    <2> QED BY <1>2, <2>1, <2>2, <2>3 DEF LauncherNext
  <1>3. ASSUME NEW i \in Servers, Environment(i) \/ Reaped(i)
        PROVE  LauncherInv'
    <2>1. CASE Launch(i) BY <2>1 DEF Launch
    <2>2. CASE ServerDies(i) BY <2>2 DEF ServerDies
    <2>3. CASE SshExits(i) \/ Reaped(i) BY <2>3 DEF SshExits, SshEnds, Reaped
    <2> QED BY <1>3, <2>1, <2>2, <2>3 DEF Environment
  <1>4. CASE SignalTerm \/ SignalKill
    BY <1>4 DEF SignalTerm, SignalKill, Signal
  <1>5. CASE UNCHANGED <<serverVars, ready, launcher>> BY <1>5
  <1> QED BY <1>1, <1>2, <1>3, <1>4, <1>5
          DEF Next, Over, ReadPid, StopNext, WaitForExit, RemovePidFile,
              StopReturns, vars

(* What `stop` has seen gone does not come back: a pid file names no       *)
(* server that is still to be started.                                     *)
LEMMA StopStep ==
    ASSUME TypeOK, ProcInv, PidFileInv, StopInv, [Next]_vars PROVE StopInv'
  <1> USE DaemonAssumption
      DEF TypeOK, ProcInv, StopInv, StoppedServerIsGone, Listening, Exists,
          Group, Alive, Goes, StopGoes, Ends, serverVars, stopVars
  <1>1. ASSUME NEW i \in Servers, ServerNext(i) PROVE StopInv'
    <2>1. CASE Bind(i) \/ BindFails(i) BY <2>1 DEF Bind, BindFails
    <2>2. CASE TruncatePid(i) \/ FillPid(i) \/ WritePidFails(i)
      BY <2>2 DEF TruncatePid, FillPid, WritePidFails
    <2>3. CASE SpawnSshForward(i) BY <2>3 DEF SpawnSshForward
    <2>4. CASE WriteReadyOk(i) BY <2>4 DEF WriteReadyOk, Truncate, Fill
    <2>5. CASE WriteReadyOkFails(i) \/ ForwardExited(i) \/ DropPidFile(i)
      BY <2>5 DEF WriteReadyOkFails, ForwardExited, DropPidFile
    <2>6. CASE WriteReadyError(i) BY <2>6 DEF WriteReadyError, Truncate, Fill
    <2>7. CASE ServerExits(i) BY <2>7 DEF ServerExits, SshEnds
    <2> QED BY <1>1, <2>1, <2>2, <2>3, <2>4, <2>5, <2>6, <2>7 DEF ServerNext
  <1>2. ASSUME NEW i \in Servers, TryWait(i) PROVE StopInv' BY <1>2 DEF TryWait
  <1>3. ASSUME NEW i \in Servers, Environment(i) \/ Reaped(i) PROVE StopInv'
    <2>1. CASE Launch(i) BY <2>1 DEF Launch
    <2>2. CASE ServerDies(i) BY <2>2 DEF ServerDies
    <2>3. CASE SshExits(i) \/ Reaped(i) BY <2>3 DEF SshExits, SshEnds, Reaped
    <2> QED BY <1>3, <2>1, <2>2, <2>3 DEF Environment
  <1>4. CASE ReadPid BY <1>4 DEF ReadPid, PidFileInv
  <1>5. CASE StopNext
    <2>1. CASE SignalTerm BY <2>1 DEF SignalTerm, Signal
    <2>2. CASE WaitForExit BY <2>2 DEF WaitForExit
    <2>3. CASE SignalKill BY <2>3 DEF SignalKill, Signal
    <2>4. CASE RemovePidFile \/ StopReturns
      BY <2>4 DEF RemovePidFile, StopReturns
    <2> QED BY <1>5, <2>1, <2>2, <2>3, <2>4 DEF StopNext
  <1>6. CASE UNCHANGED <<serverVars, stopVars>> BY <1>6
  <1> QED BY <1>1, <1>2, <1>3, <1>4, <1>5, <1>6
          DEF Next, Over, LauncherNext, ReadReady, ReportExited, vars

-----------------------------------------------------------------------------
(* The invariant of Daemon is inductive: it holds of servers not started   *)
(* yet and is kept by every step of servers, launchers, `stop` and crashes.*)
THEOREM Invariance == Spec => []IInv
  <1>1. Init => IInv
    <2> SUFFICES ASSUME Init PROVE IInv OBVIOUS
    <2> USE DaemonAssumption DEF Init
    <2>1. TypeOK BY DEF TypeOK
    <2>2. ProcInv BY DEF ProcInv, Listening
    <2>3. PidFileInv BY DEF PidFileInv, PidFileNamesNoOther
    <2>4. ReadyInv BY DEF ReadyInv
    <2>5. LauncherInv
      BY DEF LauncherInv, SuccessfulStartServed, FailedStartLeavesNoServer,
             ReadyFileRemoved
    <2>6. StopInv BY DEF StopInv, StoppedServerIsGone
    <2> QED BY <2>1, <2>2, <2>3, <2>4, <2>5, <2>6 DEF IInv
  <1>2. IInv /\ [Next]_vars => IInv'
    BY TypeStep, ProcStep, PidFileStep, ReadyStep, LauncherStep, StopStep
    DEF IInv
  <1> QED BY <1>1, <1>2, PTL DEF Spec

(* A launcher that reports success has a server that came to serve.        *)
THEOREM SuccessIsTrue == Spec => []SuccessfulStartServed
  <1>1. IInv => SuccessfulStartServed BY DEF IInv, LauncherInv
  <1> QED BY <1>1, Invariance, PTL

(* A launcher that reports the failure of its daemon leaves none running   *)
(* behind it.                                                              *)
THEOREM FailureIsTrue == Spec => []FailedStartLeavesNoServer
  <1>1. IInv => FailedStartLeavesNoServer BY DEF IInv, LauncherInv
  <1> QED BY <1>1, Invariance, PTL

(* `stop` reports success only of a server that is gone, port and ssh      *)
(* included.                                                               *)
THEOREM StopIsTrue == Spec => []StoppedServerIsGone
  <1>1. IInv => StoppedServerIsGone BY DEF IInv, StopInv
  <1> QED BY <1>1, Invariance, PTL

(* A launcher that has reported on its daemon leaves no readiness file,    *)
(* and the daemon leaves none but to tell that its forward has ended.      *)
THEOREM ReadyFileIsRemoved == Spec => []ReadyFileRemoved
  <1>1. IInv => ReadyFileRemoved BY DEF IInv, LauncherInv
  <1> QED BY <1>1, Invariance, PTL

(* The pid file never names another server than the one that listens.      *)
THEOREM PidFileIsTrue == Spec => []PidFileNamesNoOther
  <1>1. IInv => PidFileNamesNoOther BY DEF IInv, PidFileInv
  <1> QED BY <1>1, Invariance, PTL
=============================================================================
