\* Two clients, of which c1 may leave at any moment, a stop() at any moment and
\* a second thread in join(); either side may close the session of c1.
CONSTANTS
    c1 = c1
    c2 = c2
    NoConn = NoConn
    Conn = {c1, c2}
    Requests = {"request"}
    Leavers = {c1}
    Closers = {c1}
    Joins = TRUE
SPECIFICATION ResponsiveSpec
INVARIANTS TypeOK StopQuiesces Reachable
PROPERTY StopReturns
CHECK_DEADLOCK FALSE
