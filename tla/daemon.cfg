SPECIFICATION FairSpec
CONSTANTS
    Servers = {"a", "b"}
    Daemons = {"a", "b"}
    Forwarding = {"a"}
    NoServer = "none"
    Empty = "empty"
    MaxStops = 1
INVARIANTS
    IInv
    SuccessfulStartServed
    FailedStartLeavesNoServer
    StoppedServerIsGone
    ReadyFileRemoved
    PidFileNamesNoOther
PROPERTIES
    LauncherReturns
    ForwardEndsServer
