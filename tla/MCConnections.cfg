CONSTANTS
    Nodes <- TwoNodes
    Calls <- TwoCalls
    From <- TwoFrom
    To <- TwoTo
    ByPeer = {"ba"}
    Transports = {"quic", "mock"}
    MayLose = {"ab"}
    MayShutdown = {"A"}
    Messages = {m1, m2}
    REKEY_THRESHOLD = 2
SPECIFICATION MCSpec
CHECK_DEADLOCK FALSE
INVARIANTS
    MapIsSound
    DeadEntriesHaveCause
    KeyUsedOnce
    ForwardSecrecy
    LimitsAgree
PROPERTIES
    ReplacedLoopsEnd
    EndsTogether
    ShutdownCompletes
    LossIsFinal
    ChannelIsFifo
