\* Calls and close() at any time; promises settle, and NATS answers or nats.js gives up
CONSTANTS
    r1 = r1  r2 = r2  c1 = c1  c2 = c2  c3 = c3
    None = None
    Calls <- TwoCalls
    Conns <- ThreeConns
    JetStream = TRUE
SPECIFICATION LiveSpec
INVARIANTS
    TypeOK
    OneAttempt
    NoLeakWithoutOverlap
PROPERTIES
    CallsEnd
    CloseCompletes
