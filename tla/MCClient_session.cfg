\* A client whose first connect() may fail, used by its own thread and from
\* on_message and on_open, with each kind of server.
CONSTANTS
    a1 = a1
    Reader = Reader
    NoThread = NoThread
    App = {a1}
    Role = "client"
    Attempts <- MCAttempts
    PeerFrames <- ServerFrames
    ApiOps = {"BINARY"}
    Fins = {TRUE}
    CloseCodes = {1000}
    Active = {a1}
    CallbackCalls = {"on_open", "on_message"}
    Starters = {}
    MaxCalls = 1
    MaxReads = 1
    MaxOpens = 2
SPECIFICATION ClientSpec
INVARIANTS NoAbort FramesAfterUpgrade DeflateAgrees CloseEffective
PROPERTIES ConnectReturns ClientEnds CloseReturns ReaderStops CloseNotified
CHECK_DEADLOCK FALSE
