SPECIFICATION FairSpec
CONSTANTS
    Command = "run"
    Codes = {0, 3}
    ChannelCapacity = 1
    NetCapacity = 2
    MaxIn = 2
    MaxOut = 2
PROPERTIES
    CtrlCExits
