\* The on_error callback of a failed pong closes the connection.
CONSTANTS
    a1 = a1
    Reader = Reader
    NoThread = NoThread
    App = {a1}
    Role = "server"
    PeerFrames <- KindFrames
    ApiOps = {}
    Fins = {TRUE}
    CloseCodes = {1000, 1005}
    Active = {}
    CallbackCalls = {"on_error_pong"}
    Starters = {}
    MaxCalls = 2
    MaxReads = 1
    MaxOpens = 1
SPECIFICATION Spec
INVARIANT NoSelfDeadlock
CHECK_DEADLOCK FALSE
