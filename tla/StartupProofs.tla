--------------------------- MODULE StartupProofs ---------------------------
(***************************************************************************)
(* Proofs about Startup, for any values of the options, any environment a  *)
(* shell and a client have, and any length of the line of descent. What    *)
(* carries them is HandOver: the environment start_daemon makes stands for *)
(* all of the flags, variables and defaults it was made from.              *)
(***************************************************************************)
EXTENDS Startup, TLAPS

-----------------------------------------------------------------------------
(* The inductive invariant, in parts.                                      *)

(* Variables that name paths hold paths, and HOME is spelled out. *)
EnvInv ==
    /\ MayBePath(env["pid_file"]) /\ MayBePath(env["log_file"])
    /\ env["home"] # "~"

(* A daemon child will accept its environment and resolve what its         *)
(* launcher did.                                                           *)
Resolves(e, config) ==
    LET a == Parse(Given({}, Flag), TRUE, e) IN
      ~Refused(a, e) /\ Effective(a, e) = config

ChildInv == role = "child" => detached /\ Resolves(env, resolved)

(* The pid file of a daemon does not depend on HOME, and its environment   *)
(* has it, as does that of a command that got none from the client.        *)
HasPidFile ==
    \/ role \in {"child", "server"}
    \/ role = "command" /\ "pid_file" \notin forwarded

PidFileInv ==
    detached =>
        /\ StopPidFile(starter.pid_file, starter.env) = resolved.pid_file
        /\ resolved.pid_file # Unset /\ resolved.pid_file.dir # "~"
        /\ HasPidFile => env["pid_file"] = resolved.pid_file

RoleInv == role \in {"shell", "refused", "child", "server", "command"}

IInv == RoleInv /\ EnvInv /\ ChildInv /\ PidFileInv /\ CommandSeesItsClient

-----------------------------------------------------------------------------
(* Paths.                                                                  *)

(* expand_home_path gives a path, or fails, and what it gives is           *)
(* independent of any HOME.                                                *)
LEMMA ExpandedPath ==
    ASSUME NEW p, IsPath(p), NEW e, e["home"] # "~",
           ExpandHomePath(p, e) # Unset
    PROVE  /\ IsPath(ExpandHomePath(p, e))
           /\ ExpandHomePath(p, e).dir # "~"
<1>1. CASE p.dir # "~"
  BY <1>1 DEF ExpandHomePath
<1>2. CASE p.dir = "~"
  <2>1. ExpandHomePath(p, e) = [p EXCEPT !.dir = e["home"]]
    BY <1>2 DEF ExpandHomePath
  <2> QED
    BY <2>1 DEF IsPath
<1> QED
  BY <1>1, <1>2

(* Expanding once more changes nothing, with whatever HOME. *)
LEMMA ExpandedStays ==
    ASSUME NEW p, p.dir # "~", NEW e
    PROVE  ExpandHomePath(p, e) = p
BY DEF ExpandHomePath

(* The paths of parsed arguments are paths, a log file perhaps not given. *)
LEMMA ParsedPaths ==
    ASSUME NEW set \in SUBSET Options, NEW daemon \in BOOLEAN, NEW e,
           MayBePath(e["pid_file"]),
           MayBePath(e["log_file"])
    PROVE  LET a == Parse(Given(set, Flag), daemon, e) IN
             /\ IsPath(a.pid_file)
             /\ MayBePath(a.log_file)
             /\ IsPath(FirstGiven(a.log_file, DefaultLogFile))
<1> DEFINE flags == Given(set, Flag)
           a == Parse(flags, daemon, e)
<1>1. /\ MayBePath(flags["pid_file"])
      /\ MayBePath(flags["log_file"])
  <2>1. \A n \in {"pid_file", "log_file"} : flags[n] \in {Flag[n], Unset}
    BY DEF Given, Options
  <2> HIDE DEF flags, a
  <2>2. \A n \in {"pid_file", "log_file"} : MayBePath(flags[n])
    BY <2>1, ValueAssumption DEF MayBePath
  <2> QED
    BY <2>2
<1>2. IsPath(DefaultPidFile) /\ IsPath(DefaultLogFile)
  BY DEF IsPath, DefaultPidFile, DefaultLogFile
<1>3. /\ a.pid_file = FirstGiven(FirstGiven(flags["pid_file"], e["pid_file"]),
                                 DefaultPidFile)
      /\ a.log_file = FirstGiven(flags["log_file"], e["log_file"])
  BY DEF Parse
<1> HIDE DEF flags, a
<1>4. /\ IsPath(a.pid_file)
      /\ MayBePath(a.log_file)
      /\ IsPath(FirstGiven(a.log_file, DefaultLogFile))
  BY <1>1, <1>2, <1>3 DEF FirstGiven, MayBePath
<1> QED
  BY <1>4 DEF a, flags

-----------------------------------------------------------------------------
(* The second run of the program.                                          *)

(* The arguments that the environment of a daemon child is parsed to, the  *)
(* child having the flag --daemon only.                                    *)
LEMMA ChildParse ==
    ASSUME NEW set \in SUBSET Options, NEW e
    PROVE  LET a == Parse(Given(set, Flag), TRUE, e)
               b == Parse(Given({}, Flag), TRUE, ChildEnv(a, e)) IN
             /\ b.connection = a.connection
             /\ b.pid_file = FirstGiven(EffectivePidFile(a, e), DefaultPidFile)
             /\ b.log_file = EffectiveLogFile(a, e)
             /\ b.ssh_forward = a.ssh_forward
             /\ b.ssh_forward_port = a.ssh_forward_port
             /\ b.allow = a.allow
             /\ b.daemon = TRUE /\ a.daemon = TRUE
<1> DEFINE a == Parse(Given(set, Flag), TRUE, e)
           c == ChildEnv(a, e)
           b == Parse(Given({}, Flag), TRUE, c)
<1>1. \A o \in Options : Given({}, Flag)[o] = Unset
  BY DEF Given
<1>2. /\ c["connection"] = a.connection
      /\ c["pid_file"] = EffectivePidFile(a, e)
      /\ c["log_file"] = EffectiveLogFile(a, e)
      /\ c["ssh_forward"] = a.ssh_forward
      /\ c["ssh_forward_port"] = a.ssh_forward_port
      /\ c["allow"] = IF a.allow = <<>> THEN Unset ELSE a.allow
  <2>1. /\ Effective(a, e)["connection"] = a.connection
        /\ Effective(a, e)["pid_file"] = EffectivePidFile(a, e)
        /\ Effective(a, e)["log_file"] = EffectiveLogFile(a, e)
        /\ Effective(a, e)["ssh_forward"] = a.ssh_forward
        /\ Effective(a, e)["ssh_forward_port"] = a.ssh_forward_port
    BY DEF Effective, Parse
  <2> HIDE DEF a
  <2> QED
    BY <2>1 DEF ChildEnv, Names, Options
<1>3. a.allow # <<>> => a.allow # Unset
  BY ValueAssumption DEF Parse, Given, Options
<1>4. a.daemon = TRUE
  BY DEF Parse
<1> HIDE DEF a, c
<1>5. /\ b.connection = FirstGiven(Unset, c["connection"])
      /\ b.pid_file = FirstGiven(FirstGiven(Unset, c["pid_file"]), DefaultPidFile)
      /\ b.log_file = FirstGiven(Unset, c["log_file"])
      /\ b.ssh_forward = FirstGiven(Unset, c["ssh_forward"])
      /\ b.ssh_forward_port = FirstGiven(Unset, c["ssh_forward_port"])
      /\ b.allow = IF c["allow"] # Unset THEN c["allow"] ELSE <<>>
      /\ b.daemon = TRUE
  BY <1>1 DEF Parse, Options
<1>6. b.allow = a.allow
  BY <1>2, <1>3, <1>5
<1> HIDE DEF b
<1>7. /\ b.connection = a.connection
      /\ b.pid_file = FirstGiven(EffectivePidFile(a, e), DefaultPidFile)
      /\ b.log_file = EffectiveLogFile(a, e)
      /\ b.ssh_forward = a.ssh_forward
      /\ b.ssh_forward_port = a.ssh_forward_port
  BY <1>2, <1>5 DEF FirstGiven
<1> QED
  BY <1>4, <1>5, <1>6, <1>7 DEF a, b, c

(* The configuration of a server, field by field. *)
Config(a, pidFile, logFile) ==
    [connection |-> a.connection, log_file |-> logFile, pid_file |-> pidFile,
     ssh_forward |-> a.ssh_forward, ssh_forward_port |-> a.ssh_forward_port,
     allow |-> a.allow, daemon |-> a.daemon]

LEMMA EffectiveConfig ==
    ASSUME NEW flags, NEW daemon, NEW e
    PROVE  LET a == Parse(flags, daemon, e) IN
             Effective(a, e) =
               Config(a, EffectivePidFile(a, e), EffectiveLogFile(a, e))
<1> DEFINE a == Parse(flags, daemon, e)
<1> SUFFICES Effective(a, e) =
               Config(a, EffectivePidFile(a, e), EffectiveLogFile(a, e))
  OBVIOUS
<1>1. a = Config(a, a.pid_file, a.log_file)
  BY DEF Parse, Config
<1> HIDE DEF a
<1>2. \A p, q, l : [Config(a, p, l) EXCEPT !.pid_file = q] = Config(a, q, l)
  BY DEF Config
<1>3. \A p, l, m : [Config(a, p, l) EXCEPT !.log_file = m] = Config(a, p, m)
  BY DEF Config
<1>4. \A r, p, l : [r EXCEPT !.pid_file = p, !.log_file = l]
                    = [[r EXCEPT !.pid_file = p] EXCEPT !.log_file = l]
  OBVIOUS
<1> DEFINE p == EffectivePidFile(a, e)
           l == EffectiveLogFile(a, e)
<1>5. Effective(a, e) = [[a EXCEPT !.pid_file = p] EXCEPT !.log_file = l]
  BY <1>4 DEF Effective
<1> HIDE DEF p, l
<1>6. [a EXCEPT !.pid_file = p] = Config(a, p, a.log_file)
  BY <1>1, <1>2
<1>7. Effective(a, e) = Config(a, p, l)
  <2>1. [Config(a, p, a.log_file) EXCEPT !.log_file = l] = Config(a, p, l)
    BY <1>3
  <2> QED
    BY <1>5, <1>6, <2>1
<1> QED
  BY <1>7 DEF p, l

(* A launcher that does not refuse its arguments makes an environment that *)
(* its child does not refuse, and resolves to the same configuration.      *)
LEMMA HandOver ==
    ASSUME NEW set \in SUBSET Options, NEW e,
           MayBePath(e["pid_file"]),
           MayBePath(e["log_file"]),
           e["home"] # "~",
           ~Refused(Parse(Given(set, Flag), TRUE, e), e)
    PROVE  LET a == Parse(Given(set, Flag), TRUE, e) IN
             Resolves(ChildEnv(a, e), Effective(a, e))
<1> DEFINE a == Parse(Given(set, Flag), TRUE, e)
           c == ChildEnv(a, e)
           b == Parse(Given({}, Flag), TRUE, c)
<1>1. a.daemon = TRUE /\ b.daemon = TRUE
  BY DEF Parse
<1>2. /\ a.connection # Unset
      /\ EffectivePidFile(a, e) # Unset /\ EffectiveLogFile(a, e) # Unset
  BY <1>1 DEF Refused
<1>3. /\ EffectivePidFile(a, e).dir # "~" /\ EffectiveLogFile(a, e).dir # "~"
  <2>1. /\ IsPath(a.pid_file)
        /\ IsPath(FirstGiven(a.log_file, DefaultLogFile))
    BY ParsedPaths
  <2> HIDE DEF a
  <2> QED
    BY <1>1, <1>2, <2>1, ExpandedPath DEF EffectivePidFile, EffectiveLogFile
<1>4. /\ b.connection = a.connection
      /\ b.pid_file = EffectivePidFile(a, e)
      /\ b.log_file = EffectiveLogFile(a, e)
      /\ b.ssh_forward = a.ssh_forward
      /\ b.ssh_forward_port = a.ssh_forward_port
      /\ b.allow = a.allow
  BY <1>2, ChildParse DEF FirstGiven
<1>5. /\ EffectivePidFile(b, c) = EffectivePidFile(a, e)
      /\ EffectiveLogFile(b, c) = EffectiveLogFile(a, e)
  <2> HIDE DEF a, b, c
  <2> QED
    BY <1>1, <1>2, <1>3, <1>4, ExpandedStays
    DEF EffectivePidFile, EffectiveLogFile, FirstGiven
<1>6. ~Refused(b, c)
  <2> HIDE DEF a, b, c
  <2> QED
    BY <1>2, <1>4, <1>5 DEF Refused
<1>7. Effective(b, c) = Effective(a, e)
  <2>1. /\ Effective(a, e) = Config(a, EffectivePidFile(a, e),
                                      EffectiveLogFile(a, e))
        /\ Effective(b, c) = Config(b, EffectivePidFile(b, c),
                                      EffectiveLogFile(b, c))
    BY EffectiveConfig
  <2> HIDE DEF a, b, c
  <2> QED
    BY <1>1, <1>4, <1>5, <2>1 DEF Config
<1> QED
  BY <1>6, <1>7 DEF Resolves


-----------------------------------------------------------------------------
(* The actions.                                                            *)

LEMMA RunServerPreserves ==
    ASSUME IInv, NEW set \in SUBSET Options, NEW daemon \in BOOLEAN,
           RunServer(Given(set, Flag), daemon)
    PROVE  IInv'
<1> DEFINE flags == Given(set, Flag)
           a == Parse(flags, daemon, env)
<1>1. /\ role \in {"shell", "command"}
      /\ starter' = [env |-> env, pid_file |-> flags["pid_file"]]
      /\ \/ /\ role' = "refused" /\ detached' = FALSE /\ env' = env
         \/ /\ ~Refused(a, env) /\ daemon
            /\ role' = "child" /\ env' = ChildEnv(a, env)
            /\ resolved' = Effective(a, env) /\ detached' = TRUE
         \/ /\ role' = "server" /\ detached' = FALSE /\ env' = env
  BY DEF RunServer
<1>2. EnvInv
  BY DEF IInv
<1>3. CASE detached' = FALSE /\ env' = env /\ role' \in {"refused", "server"}
  BY <1>2, <1>3
  DEF IInv, EnvInv, RoleInv, ChildInv, PidFileInv, CommandSeesItsClient
<1>4. CASE /\ ~Refused(a, env) /\ daemon
           /\ role' = "child" /\ env' = ChildEnv(a, env)
           /\ resolved' = Effective(a, env) /\ detached' = TRUE
  <2>1. daemon = TRUE
    BY <1>4
  <2>2. Resolves(ChildEnv(a, env), Effective(a, env))
    BY <1>2, <1>4, <2>1, HandOver DEF EnvInv
  <2>3. /\ IsPath(EffectivePidFile(a, env)) /\ EffectivePidFile(a, env) # Unset
        /\ EffectivePidFile(a, env).dir # "~"
        /\ IsPath(EffectiveLogFile(a, env))
    <3>1. /\ IsPath(a.pid_file)
          /\ IsPath(FirstGiven(a.log_file, DefaultLogFile))
      BY <1>2, ParsedPaths DEF EnvInv
    <3>2. a.daemon = TRUE
      BY <2>1 DEF Parse
    <3>3. EffectivePidFile(a, env) # Unset /\ EffectiveLogFile(a, env) # Unset
      BY <1>4, <3>2 DEF Refused
    <3> HIDE DEF a
    <3> QED
      BY <1>2, <3>1, <3>2, <3>3, ExpandedPath
      DEF EffectivePidFile, EffectiveLogFile, EnvInv
  <2>4. /\ ChildEnv(a, env)["pid_file"] = EffectivePidFile(a, env)
        /\ ChildEnv(a, env)["log_file"] = EffectiveLogFile(a, env)
        /\ ChildEnv(a, env)["home"] = env["home"]
        /\ Effective(a, env).pid_file = EffectivePidFile(a, env)
    <3>1. /\ Effective(a, env)["pid_file"] = EffectivePidFile(a, env)
          /\ Effective(a, env)["log_file"] = EffectiveLogFile(a, env)
      BY DEF Effective, Parse
    <3> HIDE DEF a
    <3> QED
      BY <3>1 DEF ChildEnv, Names, Options
  <2>5. StopPidFile(flags["pid_file"], env) = EffectivePidFile(a, env)
    BY DEF StopPidFile, EffectivePidFile, Parse
  <2> HIDE DEF a, flags
  <2>6. EnvInv'
    BY <1>2, <1>4, <2>3, <2>4 DEF EnvInv, MayBePath
  <2>7. ChildInv'
    BY <1>4, <2>2 DEF ChildInv
  <2>8. PidFileInv'
    BY <1>1, <1>4, <2>3, <2>4, <2>5 DEF PidFileInv
  <2> QED
    BY <1>4, <2>6, <2>7, <2>8 DEF IInv, RoleInv, CommandSeesItsClient
<1> QED
  <2> HIDE DEF a, flags
  <2> QED
    BY <1>1, <1>3, <1>4

LEMMA ChildRunsPreserves ==
    ASSUME IInv, ChildRuns
    PROVE  IInv' /\ role' = "server" /\ resolved' = resolved
<1> DEFINE a == Parse(Given({}, Flag), TRUE, env)
<1>1. role = "child" /\ ChildInv
  BY DEF ChildRuns, IInv
<1>2. detached /\ ~Refused(a, env) /\ Effective(a, env) = resolved
  BY <1>1 DEF ChildInv, Resolves
<1>3. role' = "server" /\ resolved' = resolved
  BY <1>2 DEF ChildRuns
<1>4. UNCHANGED <<env, starter, detached, forwarded>>
  BY DEF ChildRuns
<1> HIDE DEF a
<1>5. EnvInv' /\ PidFileInv'
  BY <1>1, <1>3, <1>4 DEF IInv, EnvInv, PidFileInv, HasPidFile
<1> QED
  BY <1>3, <1>5 DEF IInv, RoleInv, ChildInv, CommandSeesItsClient

LEMMA ExecPreserves ==
    ASSUME IInv, NEW x \in Clients, NEW names \in SUBSET DOMAIN ClientEnv,
           Exec(x, names)
    PROVE  IInv'
<1>1. /\ role = "server" /\ role' = "command"
      /\ env' = CommandEnv(x, names, env)
      /\ client' = x /\ forwarded' = names
      /\ UNCHANGED <<starter, resolved, detached>>
  BY DEF Exec
<1>2. /\ env'["client"] = x
      /\ \A n \in {"pid_file", "log_file", "home"} :
           env'[n] = IF n \in names THEN ClientEnv[n] ELSE env[n]
  BY <1>1 DEF CommandEnv, Names, Options
<1>3. EnvInv'
  BY <1>2, ValueAssumption, HomeAssumption DEF IInv, EnvInv
<1>4. PidFileInv'
  BY <1>1, <1>2 DEF IInv, PidFileInv, HasPidFile
<1> QED
  BY <1>1, <1>2, <1>3, <1>4 DEF IInv, RoleInv, ChildInv, CommandSeesItsClient

LEMMA InitInv == Init => IInv
<1> SUFFICES ASSUME Init PROVE IInv
  OBVIOUS
<1>1. \A n \in Names : env[n] \in {Env[n], Unset}
  BY DEF Init
<1>2. \A n \in {"pid_file", "log_file"} : MayBePath(env[n])
  BY <1>1, ValueAssumption DEF MayBePath, Names, Options
<1>3. env["home"] # "~"
  BY <1>1, HomeAssumption DEF Names
<1>4. EnvInv
  BY <1>2, <1>3 DEF EnvInv
<1> QED
  BY <1>4 DEF Init, IInv, RoleInv, ChildInv, PidFileInv, CommandSeesItsClient

(* Every step either keeps the invariant or changes nothing, and a daemon  *)
(* child goes on to serve with what its launcher resolved.                 *)
LEMMA StepInv ==
    ASSUME IInv, [Next]_vars
    PROVE  /\ IInv'
           /\ [role = "child" => role' = "server" /\ resolved' = resolved]_vars
<1>1. CASE UNCHANGED vars
  BY <1>1 DEF vars, IInv, RoleInv, EnvInv, ChildInv, PidFileInv, HasPidFile,
              CommandSeesItsClient
<1>2. ASSUME NEW set \in SUBSET Options, NEW daemon \in BOOLEAN,
             RunServer(Given(set, Flag), daemon)
      PROVE  IInv' /\ role # "child"
  BY <1>2, RunServerPreserves DEF RunServer
<1>3. CASE ChildRuns
  BY <1>3, ChildRunsPreserves
<1>4. ASSUME NEW x \in Clients, NEW names \in SUBSET DOMAIN ClientEnv,
             Exec(x, names)
      PROVE  IInv' /\ role # "child"
  BY <1>4, ExecPreserves DEF Exec
<1> QED
  BY <1>1, <1>2, <1>3, <1>4 DEF Next

(* Names of paths hold paths, a daemon child resolves what its launcher    *)
(* did, and the pid file of a daemon is spelled out.                       *)
THEOREM Invariance == Spec => []IInv
<1>1. Init => IInv
  BY InitInv
<1>2. IInv /\ [Next]_vars => IInv'
  BY StepInv
<1> QED
  BY <1>1, <1>2, PTL DEF Spec

(* The daemon serves with the configuration its launcher resolved.         *)
THEOREM ConfigurationIsKept == Spec => DaemonKeepsConfiguration
<1>1. IInv /\ [Next]_vars
      => [role = "child" => role' = "server" /\ resolved' = resolved]_vars
  BY StepInv
<1> QED
  BY <1>1, Invariance, PTL DEF Spec, DaemonKeepsConfiguration

(* A command sees what its own client says of itself.                      *)
THEOREM ClientIsSeen == Spec => []CommandSeesItsClient
<1>1. IInv => CommandSeesItsClient
  BY DEF IInv
<1> QED
  BY <1>1, Invariance, PTL

(* `hostcmd stop` reads the pid file that the daemon writes.               *)
THEOREM DaemonIsFound == Spec => []StopFindsDaemon
<1>1. IInv => StopFindsDaemon
  <2> SUFFICES ASSUME IInv, detached PROVE StopFindsDaemon
    BY DEF StopFindsDaemon
  <2>1. PidFileInv
    BY DEF IInv
  <2>2. CASE role = "command" /\ "pid_file" \notin forwarded
    <3>1. env["pid_file"] = resolved.pid_file
      BY <2>1, <2>2 DEF PidFileInv, HasPidFile
    <3>2. StopPidFile(Unset, env) = ExpandHomePath(resolved.pid_file, env)
      BY <2>1, <3>1 DEF PidFileInv, StopPidFile, FirstGiven
    <3> QED
      BY <2>1, <3>2, ExpandedStays DEF PidFileInv, StopFindsDaemon
  <2>3. CASE ~(role = "command" /\ "pid_file" \notin forwarded)
    BY <2>1, <2>3 DEF PidFileInv, StopFindsDaemon
  <2> QED
    BY <2>2, <2>3
<1> QED
  BY <1>1, Invariance, PTL
=============================================================================
