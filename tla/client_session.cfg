SPECIFICATION FairSpec
CONSTANTS
    Command = "run"
    Codes = {0, 3}
    ChannelCapacity = 1
    NetCapacity = 2
    MaxIn = 3
    MaxOut = 2
INVARIANTS
    IInv
    EofAfterAllStdin
    MirroredInOrder
    SuccessIsReported
PROPERTIES
    StdinForwardedInOrder
    EndsAfterServer
