\* close() while a listen() waits for an earlier close
CONSTANTS
    c1 = c1  c2 = c2  c3 = c3  h1 = h1  h2 = h2
    None = None
    Conns <- TwoConns
    Handlers <- OneHandler
    MaxListens = 2
    JetStream = TRUE
    OverlappingListens = FALSE
SPECIFICATION Spec
INVARIANT ClosedListenRejects
