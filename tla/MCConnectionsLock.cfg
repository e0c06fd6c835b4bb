CONSTANTS
    Nodes <- TwoNodes
    Calls <- OneCall
    From <- OneFrom
    To <- OneTo
    ByPeer = {}
    Transports = {"quic"}
    MayLose = {}
    MayShutdown = {}
    Messages = {m1}
    REKEY_THRESHOLD = 1
SPECIFICATION NodesSpec
CHECK_DEADLOCK FALSE
PROPERTY ConnectsProceed
