\* The object is opened a second time: is there a reader?
CONSTANTS
    a1 = a1
    Reader = Reader
    NoThread = NoThread
    App = {a1}
    Role = "server"
    PeerFrames <- KindFrames
    ApiOps = {"TEXT"}
    Fins = {TRUE}
    CloseCodes = {1000, 1005}
    Active = {a1}
    CallbackCalls = {}
    Starters = {"idle"}
    MaxCalls = 2
    MaxReads = 1
    MaxOpens = 2
SPECIFICATION Spec
INVARIANT ReaderServes
CHECK_DEADLOCK FALSE
