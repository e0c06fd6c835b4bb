CONSTANTS
    Transports = {"quic", "mock"}
    Majors = {0, 1}
    MaxFrames <- FewFrames
    MisreadLens = {0, 1, 9}
    CustomPolicies <- GrowingPolicy
SPECIFICATION MCSpec
CHECK_DEADLOCK FALSE
INVARIANTS
    HandshakeAgrees
    RetriesFollowPolicy
PROPERTIES
    ConnectionIsFifo
    FramesArrive
