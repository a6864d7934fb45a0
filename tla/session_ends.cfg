SPECIFICATION DeafSpec
CONSTANTS
    Programs = {"allowed"}
    NoProgram = "missing"
    AllowedCommands = {}
    Codes = {}
    ClientFrames = {"exec", "stdin", "cancel", "close", "bad"}
    Faults = {}
    Closable = {}
    ChannelCapacity = 1
    PipeCapacity = 1
    NetCapacity = 1
    MaxIn = 4
    MaxOut = 2
PROPERTIES
    CancelKillsCommand
    SessionEnds
    CancelHonoured
