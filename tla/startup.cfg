SPECIFICATION Spec
CONSTANTS
    Unset = Unset
    Flag <- FlagValues
    Env <- EnvValues
    ClientEnv <- ClientValues
    Clients = {"one", "two"}
    NestedFlags = {"pid_file"}
    MaxServers = 2
INVARIANTS
    CommandSeesItsClient
    StopFindsDaemon
PROPERTIES
    DaemonKeepsConfiguration
CHECK_DEADLOCK FALSE
