\* Every sequence of four frames, in and out of fragmented messages.  One
\* application thread opens the connection; all the sending and closing is
\* done by the callbacks.
CONSTANTS
    a1 = a1
    Reader = Reader
    NoThread = NoThread
    App = {a1}
    Role = "server"
    PeerFrames <- SessionFrames
    ApiOps = {"TEXT"}
    Fins = {TRUE}
    CloseCodes = {1000}
    Active = {}
    CallbackCalls = {"on_open", "on_message"}
    Starters = {}
    MaxCalls = 1
    MaxReads = 4
    MaxOpens = 1
SPECIFICATION Spec
INVARIANTS TypeOK WireIntact OnCloseOnce PongsEchoPings ReaderServes Reassembly
PROPERTIES NoMessageAfterClose
CHECK_DEADLOCK FALSE
