\* A call while the transport of a closed connection still closes
CONSTANTS
    r1 = r1  r2 = r2  c1 = c1  c2 = c2  c3 = c3
    None = None
    Calls <- TwoCalls
    Conns <- TwoConns
    JetStream = TRUE
SPECIFICATION Spec
INVARIANT OneOpenConnection
