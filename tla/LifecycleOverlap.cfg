\* Two listen() calls wait for the same close
CONSTANTS
    c1 = c1  c2 = c2  c3 = c3  h1 = h1  h2 = h2
    None = None
    Conns <- TwoConns
    Handlers <- OneHandler
    MaxListens = 3
    JetStream = TRUE
    OverlappingListens = TRUE
SPECIFICATION Spec
INVARIANT OneOpenConnection
