CONSTANTS
    Endpoints <- Nodes
    Other <- Peer
    Senders <- DataSenders
    At <- DataAt
    Kind <- DataKind
    MaxSends <- DataSends
    WriteCapacity = 1
    ConnCapacity = 1
    MayShutdown = {}
SPECIFICATION FairSpec
CHECK_DEADLOCK FALSE
PROPERTY LoopsReturn
