\* A request beside a core event or a JetStream message, handlers that return values or
\* streams, start hooks that misbehave, and close() at any time
CONSTANTS
    m1 = m1  m2 = m2
    Msgs <- TwoMessages
    Arrivals <- BesideARequest
    MaxPackets = 2
SPECIFICATION LiveSpec
INVARIANTS
    QuietMeansAnswered
    UnlockedOnce
    EndHookOnce
PROPERTIES
    SettlesOnce
    CloseGetsQuiet
CHECK_DEADLOCK FALSE
