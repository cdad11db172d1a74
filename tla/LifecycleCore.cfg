\* Without JetStream: core subscriptions only, up to three listen() calls
CONSTANTS
    c1 = c1  c2 = c2  c3 = c3  h1 = h1  h2 = h2
    None = None
    Conns <- ThreeConns
    Handlers <- OneHandler
    MaxListens = 3
    JetStream = FALSE
    OverlappingListens = FALSE
SPECIFICATION Spec
SYMMETRY Symmetry
PROPERTIES
    OneSession
