\* The limit of the handlers of one consumer, across its loops
CONSTANTS
    m1 = m1  m2 = m2  g1 = g1  g2 = g2
    None = None
    Messages <- TwoMessages
    Loops <- TwoLoops
    MaxHandlers = 1
    MaxMessages = 0
    MaxDeliver = 2
    MaxValues <- NoStreams
    MaxDeliveries = 20
SPECIFICATION Spec
INVARIANT HandlerLimit
