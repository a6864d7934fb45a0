----------------------------- MODULE MCStartup -----------------------------
(***************************************************************************)
(* Startup for TLC: each option is given as a flag or not, in the          *)
(* environment or not, with values that differ; paths are in HOME or not.  *)
(***************************************************************************)
EXTENDS Startup

Path(d, n) == [dir |-> d, name |-> n]

FlagValues == [connection |-> "flag", log_file |-> Path("/var", "flag.log"),
               pid_file |-> Path("~", "flag.pid"), ssh_forward |-> "flag",
               ssh_forward_port |-> "22",
               allow |-> <<<<"uname">>, <<"true", "false">>>>]

EnvValues == [connection |-> "env", log_file |-> Path("~", "env.log"),
              pid_file |-> Path("~", "env.pid"), ssh_forward |-> "env",
              ssh_forward_port |-> "2222", allow |-> <<"uname", "env">>,
              home |-> "/home/server"]

ClientValues == [home |-> "/home/client", pid_file |-> Path("/run", "client.pid"),
                 client |-> "inner", other |-> Unset, ready |-> Unset]
=============================================================================
