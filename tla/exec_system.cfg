SPECIFICATION QuietSpec
CONSTANTS
    Programs = {"allowed"}
    NoProgram = "missing"
    AllowedCommands = {}
    Codes = {0}
    ClientFrames = {"exec", "stdin", "eof", "cancel", "close"}
    Faults = {}
    Closable = {}
    ChannelCapacity = 1
    PipeCapacity = 1
    NetCapacity = 1
    MaxIn = 1
    MaxOut = 1
    Command = "allowed"
INVARIANTS
    ExitCodeEndToEnd
PROPERTIES
    StdinEndToEnd
    ImplementsClient
    ImplementsServer
