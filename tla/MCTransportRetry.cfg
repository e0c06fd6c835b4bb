CONSTANTS
    Transports = {"quic", "mock"}
    Majors = {0, 1}
    MaxFrames <- FewFrames
    MisreadLens = {0, 1, 9}
    CustomPolicies <- SteepPolicy
SPECIFICATION RetrySpec
CHECK_DEADLOCK FALSE
INVARIANT WaitsWithinLimit
