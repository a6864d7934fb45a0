SPECIFICATION Spec
CONSTANTS
    Servers = {"a", "b"}
    Daemons = {"a"}
    Forwarding = {"a"}
    NoServer = "none"
    Empty = "empty"
    MaxStops = 1
INVARIANTS
    PidFileNamesServer
