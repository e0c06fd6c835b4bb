SPECIFICATION MCSpec
CONSTANTS
    Nodes <- Three
    Adjacent <- ThreeLine
    Measured <- Along
    MaxMeasurements = 2
    MaxUpdates = 2
    MayLose <- Along
    MayRestart = {"B"}
    MaxRestarts = 1
    Tasks = {t1, t2}
    Peers = {p1, p2}
    RemoteLinks = {l1}
    MaxSequence = 3
    Vertices <- Four
    NoNode = NoNode
    start = "s"
    target = "t"
    Links <- FourLinks
    Costs = {0, 1, 3}
    Infinity = 13
INVARIANTS
    GraphMatchesTrackers
    GraphMatchesGossip
    UpdatesAreOrdered
    ShortestPath
PROPERTIES
    GraphNeverGoesBack
    PictureNeverGoesBack
    UpdatesTakeEffect
    SearchReturns
