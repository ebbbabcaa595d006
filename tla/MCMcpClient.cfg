SPECIFICATION FairSpec
CONSTANTS
    c1 = c1
    c2 = c2
    Callers = {c1, c2}
    Method <- MCMethod
    Replies <- MCReplies
    Stdio = TRUE
    Peer = TRUE
    Capacity = 1
    MaxUnsolicited = 2
    MaxWire = 1
INVARIANTS
    OwnResponse
    ChannelOpen
    NoLeak
    ResponseKept
PROPERTY AnswerArrives
