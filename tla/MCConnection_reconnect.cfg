\* The object is opened a second time; a1 sends and closes, callbacks of the
\* reader too, and a1 or a2 opens, reopens or destroys.
CONSTANTS
    a1 = a1
    a2 = a2
    Reader = Reader
    NoThread = NoThread
    App = {a1, a2}
    Role = "server"
    PeerFrames <- KindFrames
    ApiOps = {"TEXT", "PING"}
    Fins = {TRUE}
    CloseCodes = {1000, 1005}
    Active = {a1}
    CallbackCalls = {"on_message", "on_error_read", "on_error_fail"}
    Starters = {"on_message"}
    MaxCalls = 1
    MaxReads = 1
    MaxOpens = 2
SPECIFICATION Spec
INVARIANTS OwnCloseLast CloseCodesValid NoReaderAfterDestroy NoAbort
CHECK_DEADLOCK FALSE
