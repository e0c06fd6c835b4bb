CONSTANTS
    Procs = {p1, p2}
    Keys = {k1, k2}
    Inodes = {i1, i2, i3, i4}
    KeyPaths = {"default", "elsewhere"}
    UserConfig <- User
    Names = {"random1", "random2"}
    Tasks = {t1, t2}
    Peers = {q1, q2, q3}
    max_connections = 1
    MaxBytes = 1
SYMMETRY Symmetry
SPECIFICATION MCSpec
INVARIANTS
    KeyFileIsLastStored
    RunsAsInitialized
    RemovedStaysRemoved
PROPERTIES
    InitKeepsIdentity
