SPECIFICATION TerseSpec
CONSTANTS
    Programs = {"allowed"}
    NoProgram = "missing"
    AllowedCommands = {}
    Codes = {3}
    ClientFrames = {"exec"}
    Faults = {"read", "wait"}
    Closable = {"stderr"}
    ChannelCapacity = 2
    PipeCapacity = 1
    NetCapacity = 1
    MaxIn = 0
    MaxOut = 2
INVARIANTS
    IInv
    ExitAfterAllOutput
    AnswerBeforeClose
    NoAbandonedCommand
PROPERTIES
    OutputInOrder
    TerminalFrameIsLast
    NoSignalAfterReap
    ImplementsService
