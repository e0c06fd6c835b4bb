SPECIFICATION MeshSpec
CHECK_DEADLOCK FALSE
CONSTANTS
    Nodes <- Three
    Adjacent <- ThreeLine
    Measured <- Along
    MaxMeasurements = 1
    MaxUpdates = 2
    MayLose = {}
    MayRestart = {}
    MaxRestarts = 1
    Tasks = {t1}
    Peers = {p1, p2}
    RemoteLinks = {l1}
    MaxSequence = 3
    Vertices <- Four
    NoNode = NoNode
    start = "s"
    target = "t"
    Links <- FourLinks
    Costs = {0, 1, 3}
    Infinity = 13
PROPERTY UpdatesSpread
