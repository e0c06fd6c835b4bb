CONSTANTS
    Nodes <- TwoNodes
    Calls <- ThreeCalls
    Caller <- ThreeCaller
    Callee <- ThreeCallee
    MaxRestarts = 1
    Capacity = 2
    MaxChats = 4
    Topics = {"t1", "t2"}
    Subscribers <- ThreeSubscribers
    Topic <- ThreeTopics
    MaxPublications <- ThreePublications
    p = p
    c = c
    Peers = {p, q}
    Discovered = {p}
    Addrs = {a, b}
    Nobody = Nobody
    Unusable = Unusable
    Callers = {c}
    To <- OneTo
    DEFAULT_TTL = 2
    CmdCapacity = 1
    MaxTime = 2
SPECIFICATION MCSpec
CHECK_DEADLOCK FALSE
INVARIANTS
    AnswerIsOwn
    PendingAccounted
    PrintoutIsGapless
    SubscribersMissNothing
    LookupIsExact
    FailureHasCause
PROPERTIES
    CallsReturn
    ExpiredAreRemoved
    LocalAddressAdvertised
