\* An application thread sends while the reader answers a ping.
CONSTANTS
    a1 = a1
    Reader = Reader
    NoThread = NoThread
    App = {a1}
    Role = "server"
    PeerFrames <- KindFrames
    ApiOps = {"TEXT"}
    Fins = {TRUE}
    CloseCodes = {1000, 1005}
    Active = {a1}
    CallbackCalls = {}
    Starters = {}
    MaxCalls = 2
    MaxReads = 1
    MaxOpens = 1
SPECIFICATION Spec
INVARIANT WireIntact
CHECK_DEADLOCK FALSE
