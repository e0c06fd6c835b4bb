CONSTANTS
    Endpoints <- Nodes
    Other <- Peer
    Senders <- AllSenders
    At <- AllAt
    Kind <- AllKind
    MaxSends <- AllSends
    WriteCapacity = 1
    ConnCapacity = 1
    MayShutdown = {"a"}
SPECIFICATION FairSpec
CHECK_DEADLOCK FALSE
INVARIANT FramesConserved
PROPERTIES
    ImplementsFifo
    EverythingDelivered
    SendsReturn
    ShutdownCompletes
