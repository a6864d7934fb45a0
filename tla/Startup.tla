------------------------------ MODULE Startup ------------------------------
(***************************************************************************)
(* How hostcmd is configured: flags, environment variables and defaults,   *)
(* as one process hands them to the next. A shell runs `hostcmd server`,   *)
(* which may run itself again as a daemon; that server runs a command for  *)
(* a client; and a command may run hostcmd in its turn. One process of     *)
(* this line of descent is in view at a time.                              *)
(*                                                                         *)
(* "connection" stands for --secret, --port and --host, "client" for the   *)
(* variables HOSTCMD_CLIENT_*, "other" for any variable hostcmd does not   *)
(* know. A path is a name in the directory HOME names, "~", or in one that *)
(* is spelled out. An allow text is the sequence of its comma-free parts.  *)
(***************************************************************************)
EXTENDS Integers, Sequences, SequencesExt

CONSTANTS
    Unset,        \* stands for a flag or a variable that is not given
    Flag, Env,    \* the value each option has as a flag, and as a variable
    Clients,      \* what clients say of themselves
    ClientEnv,    \* the environment of a client
    NestedFlags,  \* bound: options given as flags below the first shell
    MaxServers    \* bound: servers in the line of descent

Options == {"connection", "log_file", "pid_file", "ssh_forward",
            "ssh_forward_port", "allow"}
Names == Options \cup {"ready", "home", "client", "other"}

ASSUME StartupAssumption ==
    /\ DOMAIN Flag = Options /\ Options \cup {"home"} \subseteq DOMAIN Env
    /\ DOMAIN ClientEnv \subseteq Names
    /\ NestedFlags \subseteq Options /\ MaxServers \in Nat

IsPath(p) == p = [dir |-> p.dir, name |-> p.name]
MayBePath(p) == p # Unset => IsPath(p)

(* Unset is no list of commands, and what stands for a path is a path.     *)
ASSUME ValueAssumption ==
    /\ FlattenSeq(Flag["allow"]) # Unset
    /\ \A n \in {"pid_file", "log_file"} :
         /\ MayBePath(Flag[n]) /\ MayBePath(Env[n])
         /\ n \in DOMAIN ClientEnv => MayBePath(ClientEnv[n])

(* HOME spells a directory out: it is not "~" itself, which hostcmd would  *)
(* expand again.                                                           *)
ASSUME HomeAssumption ==
    /\ "~" \notin {Unset, Env["home"]}
    /\ "home" \in DOMAIN ClientEnv => ClientEnv["home"] # "~"

VARIABLES
    role,      \* the process in view
    env,       \* its environment
    servers,   \* servers started so far
    starter,   \* environment and --pid-file of who ran the last of them
    resolved,  \* the configuration it resolved, or its launcher
    detached,  \* whether it was started by start_daemon
    client,    \* what the last client said of itself
    forwarded  \* the names it forwarded

vars == <<role, env, servers, starter, resolved, detached, client, forwarded>>

Given(set, values) == [o \in Options |-> IF o \in set THEN values[o] ELSE Unset]

-----------------------------------------------------------------------------
(* Cli::parse: a flag, else the variable, else the default. Each --allow   *)
(* is split at its commas, as is the variable.                             *)
DefaultPidFile == [dir |-> "~", name |-> "server.pid"]
DefaultLogFile == [dir |-> "~", name |-> "server.log"]

FirstGiven(a, b) == IF a # Unset THEN a ELSE b

Parse(flags, daemon, e) ==
    [connection |-> FirstGiven(flags["connection"], e["connection"]),
     log_file |-> FirstGiven(flags["log_file"], e["log_file"]),
     pid_file |-> FirstGiven(FirstGiven(flags["pid_file"], e["pid_file"]),
                             DefaultPidFile),
     ssh_forward |-> FirstGiven(flags["ssh_forward"], e["ssh_forward"]),
     ssh_forward_port |->
        FirstGiven(flags["ssh_forward_port"], e["ssh_forward_port"]),
     allow |-> IF flags["allow"] # Unset THEN FlattenSeq(flags["allow"])
               ELSE IF e["allow"] # Unset THEN e["allow"] ELSE <<>>,
     daemon |-> daemon]

(* expand_home_path, which fails without HOME. *)
ExpandHomePath(p, e) ==
    IF p.dir # "~" THEN p
    ELSE IF e["home"] = Unset THEN Unset ELSE [p EXCEPT !.dir = e["home"]]

EffectivePidFile(a, e) == ExpandHomePath(a.pid_file, e)
EffectiveLogFile(a, e) ==
    IF a.daemon THEN ExpandHomePath(FirstGiven(a.log_file, DefaultLogFile), e)
                ELSE a.log_file

(* The configuration a server runs with.                                   *)
Effective(a, e) == [a EXCEPT !.pid_file = EffectivePidFile(a, e),
                             !.log_file = EffectiveLogFile(a, e)]

(* The arguments are refused, or a path cannot be expanded. *)
Refused(a, e) ==
    \/ a.connection = Unset \/ EffectivePidFile(a, e) = Unset
    \/ a.daemon /\ EffectiveLogFile(a, e) = Unset

-----------------------------------------------------------------------------
(* The environment start_daemon gives the child, which it runs with the    *)
(* one flag --daemon.                                                      *)
ReadyFile(pidFile) == [pidFile EXCEPT !.name = "server.ready"]

(* Faulty: the paths as they were given, for the child to expand. *)
UnexpandedChildEnv(a, e) ==
    [n \in Names |->
        CASE n = "ready" -> ReadyFile(EffectivePidFile(a, e))
          [] n = "allow" -> IF a.allow = <<>> THEN Unset ELSE a.allow
          [] n \in Options \ {"allow"} -> a[n]
          [] OTHER -> e[n]]

(* Faulty: does not hand on a pid file given by a flag. *)
ChildEnvWithoutPidFile(a, e) ==
    [n \in Names |->
        CASE n = "ready" -> ReadyFile(EffectivePidFile(a, e))
          [] n = "allow" -> IF a.allow = <<>> THEN Unset ELSE a.allow
          [] n \in Options \ {"allow", "pid_file"} -> Effective(a, e)[n]
          [] OTHER -> e[n]]

ChildEnv(a, e) ==
    [n \in Names |->
        CASE n = "ready" -> ReadyFile(EffectivePidFile(a, e))
          [] n = "allow" -> IF a.allow = <<>> THEN Unset ELSE a.allow
          [] n \in Options \ {"allow"} -> Effective(a, e)[n]
          [] OTHER -> e[n]]

(* Faulty: forwarded variables are set last. *)
ForwardedLastEnv(x, names, e) ==
    [n \in Names |-> IF n \in names THEN ClientEnv[n]
                     ELSE IF n = "client" THEN x ELSE e[n]]

(* The environment execute_command gives the command: the server's own,    *)
(* the variables the client forwards, and what it says of itself.          *)
CommandEnv(x, names, e) ==
    [n \in Names |-> IF n = "client" THEN x
                     ELSE IF n \in names THEN ClientEnv[n] ELSE e[n]]

(* The pid file `hostcmd stop` reads. *)
StopPidFile(flag, e) ==
    ExpandHomePath(FirstGiven(FirstGiven(flag, e["pid_file"]),
                              DefaultPidFile), e)

-----------------------------------------------------------------------------
Init ==
    /\ role = "shell" /\ servers = 0 /\ detached = FALSE
    /\ \E set \in SUBSET (Options \cup {"home"}) :
         env = [n \in Names |-> IF n \in set THEN Env[n] ELSE Unset]
    /\ starter = Unset /\ resolved = Unset /\ client = Unset /\ forwarded = {}

(* main and run_server: the launcher goes on to start_daemon, unless it    *)
(* finds a readiness file in its environment.                              *)
RunServer(flags, daemon) ==
    /\ role \in {"shell", "command"} /\ servers < MaxServers
    /\ servers' = servers + 1
    /\ starter' = [env |-> env, pid_file |-> flags["pid_file"]]
    /\ UNCHANGED <<client, forwarded>>
    /\ LET a == Parse(flags, daemon, env) IN
         \/ /\ Refused(a, env) /\ role' = "refused"
            /\ detached' = FALSE /\ UNCHANGED <<env, resolved>>
         \/ /\ ~Refused(a, env) /\ daemon /\ env["ready"] = Unset
            /\ role' = "child" /\ env' = ChildEnv(a, env)
            /\ resolved' = Effective(a, env) /\ detached' = TRUE
         \/ /\ ~Refused(a, env) /\ (daemon => env["ready"] # Unset)
            /\ role' = "server" /\ resolved' = Effective(a, env)
            /\ detached' = FALSE /\ UNCHANGED env

(* The daemon child finds the readiness file and serves. *)
ChildRuns ==
    /\ role = "child"
    /\ LET a == Parse(Given({}, Flag), TRUE, env) IN
         IF Refused(a, env) THEN role' = "refused" /\ UNCHANGED resolved
                            ELSE role' = "server" /\ resolved' = Effective(a, env)
    /\ UNCHANGED <<env, servers, starter, detached, client, forwarded>>

(* A client that can read all it is asked to forward has a command run.    *)
Exec(x, names) ==
    /\ role = "server"
    /\ \A n \in names : ClientEnv[n] # Unset
    /\ role' = "command" /\ env' = CommandEnv(x, names, env)
    /\ client' = x /\ forwarded' = names
    /\ UNCHANGED <<servers, starter, resolved, detached>>

Next ==
    \/ \E set \in SUBSET Options, daemon \in BOOLEAN :
         /\ role = "shell" \/ set \subseteq NestedFlags
         /\ RunServer(Given(set, Flag), daemon)
    \/ ChildRuns
    \/ \E x \in Clients, names \in SUBSET DOMAIN ClientEnv : Exec(x, names)

Spec == Init /\ [][Next]_vars

-----------------------------------------------------------------------------
(* The daemon serves with the configuration its launcher resolved: what    *)
(* was given by flags survives the second run of the program, which has    *)
(* none of them, and so does the meaning of "~" and of defaults.           *)
DaemonKeepsConfiguration ==
    [][role = "child" => role' = "server" /\ resolved' = resolved]_vars

(* A command sees the HOSTCMD_CLIENT_* of its own client: not those the    *)
(* client forwards, nor those of a command that the server is itself.      *)
CommandSeesItsClient == role = "command" => env["client"] = client

(* `hostcmd stop` finds the daemon: run with the same --pid-file where the *)
(* daemon was started, and run without one by a command of the daemon that *)
(* no other pid file was forwarded to, whatever HOME it was given.         *)
StopFindsDaemon ==
    detached =>
        /\ StopPidFile(starter.pid_file, starter.env) = resolved.pid_file
        /\ role = "command" /\ "pid_file" \notin forwarded
             => StopPidFile(Unset, env) = resolved.pid_file
=============================================================================
