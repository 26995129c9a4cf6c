\* Frames with and without a payload.
CONSTANTS
    a1 = a1
    Reader = Reader
    NoThread = NoThread
    App = {a1}
    Role = "server"
    PeerFrames <- EmptyFrames
    ApiOps = {"TEXT", "PING"}
    Fins = {TRUE}
    CloseCodes = {1000, 1005}
    Active = {}
    CallbackCalls = {}
    Starters = {}
    MaxCalls = 0
    MaxReads = 2
    MaxOpens = 1
SPECIFICATION Spec
INVARIANT Reassembly
CHECK_DEADLOCK FALSE
