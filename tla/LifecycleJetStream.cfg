\* With JetStream: streams and consumers are set up over the connection.  The process
\* makes progress; NATS need not return
CONSTANTS
    c1 = c1  c2 = c2  c3 = c3  h1 = h1  h2 = h2
    None = None
    Conns <- TwoConns
    Handlers <- TwoHandlers
    MaxListens = 2
    JetStream = TRUE
    OverlappingListens = FALSE
SPECIFICATION LiveSpec
INVARIANTS
    TypeOK
    OneOpenConnection
    ClientIsCurrent
    BoundToClient
    OneAttempt
    TimerIsHeld
    StatusIsAccurate
    ShutdownHasConnection
PROPERTIES
    NoBindAfterClose
    DrainsOnlyWhileUp
    OneSession
    CloseCompletes
    ListenAnswered
    Recovers
