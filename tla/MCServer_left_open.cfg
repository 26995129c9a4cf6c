\* stop() while clients connect and fail their handshakes.
CONSTANTS
    c1 = c1
    c2 = c2
    NoConn = NoConn
    Conn = {c1, c2}
    Requests = {"request", "bad"}
    Leavers = {c1, c2}
    Closers = {c1, c2}
    Joins = FALSE
SPECIFICATION Spec
INVARIANT StopClosesAll
CHECK_DEADLOCK FALSE
