\* One task reads, echoes texts and may give up waiting; another one sends and
\* closes.  The peer sends a burst of frames and leaves in the end.
CONSTANTS
    t1 = t1
    t2 = t2
    NoTask = NoTask
    Task = {t1, t2}
    Readers = {t1}
    Callers = {t2}
    Echo = {"TEXT"}
    Cancelled = {t1}
    Fifo = TRUE
    Role = "client"
    Bursts <- SessionBursts
    Ops = {"BINARY", "RAW"}
    CloseCodes = {1005}
    MaxCalls = 1
    MaxBursts = 1
SPECIFICATION LeavingSpec
INVARIANTS TypeOK LockOrder FramesWhole CloseCodesValid NoFrameLost OneReadAhead Reassembly
PROPERTIES SendReturns
CHECK_DEADLOCK FALSE
