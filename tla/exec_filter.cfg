SPECIFICATION FilterSpec
CONSTANTS
    Programs = {"allowed"}
    NoProgram = "missing"
    AllowedCommands = {}
    Codes = {0}
    ClientFrames = {"exec", "stdin", "eof", "cancel", "close"}
    Faults = {}
    Closable = {}
    ChannelCapacity = 1
    PipeCapacity = 1
    NetCapacity = 1
    MaxIn = 4
    MaxOut = 4
    Command = "allowed"
PROPERTIES
    FilterCompletes
CHECK_DEADLOCK FALSE
