\* One handler at a time and three deliveries of a message, which wait for the handler
\* together; handlers end and NATS returns at last
CONSTANTS
    m1 = m1  m2 = m2  g1 = g1  g2 = g2
    None = None
    Messages <- OneMessage
    Loops <- TwoLoops
    MaxHandlers = 1
    MaxMessages = 2
    MaxDeliver = 3
    MaxValues <- FirstStreams
    MaxDeliveries = 20
SPECIFICATION LiveSpec
INVARIANTS
    MutexBalanced
    LoopLimit
    OneLoopPulls
    BacksOff
PROPERTIES
    NoHandlerAfterClose
    HandlesOnce
    EventuallySettled
