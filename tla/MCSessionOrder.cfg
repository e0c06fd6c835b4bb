CONSTANTS
    Endpoints <- Nodes
    Other <- Peer
    Senders <- OrderSenders
    At <- OrderAt
    Kind <- OrderKind
    MaxSends <- OrderSends
    WriteCapacity = 2
    ConnCapacity = 2
    MayShutdown = {}
SPECIFICATION FairSpec
CHECK_DEADLOCK FALSE
INVARIANT WritesAreSerialized
