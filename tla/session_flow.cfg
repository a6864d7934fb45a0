SPECIFICATION OneWaySpec
CONSTANTS
    Programs = {"allowed", "denied"}
    NoProgram = "missing"
    AllowedCommands = {"allowed"}
    Codes = {}
    ClientFrames = {"exec", "stdin", "eof", "cancel", "close", "bad", "other"}
    Faults = {"kill"}
    Closable = {"stdin"}
    ChannelCapacity = 1
    PipeCapacity = 1
    NetCapacity = 1
    MaxIn = 4
    MaxOut = 5
INVARIANTS
    InputInv
    StdinInOrder
    OutputInFlightBounded
PROPERTIES
    EofAfterAllInput
