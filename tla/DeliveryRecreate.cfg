SPECIFICATION FairSpec
CONSTANTS
    k1 = k1
    k2 = k2
    c1 = c1
    c2 = c2
    Queues = {q1}
    ConsumerTags = {c1, c2}
    Messages = {m1, m2}
    NoConsumer = NoConsumer
    Conns = {k1}
    NoAck = {}
    Prefetch = 1
    Mortal = {}
    MaxQueues = 2
    MaxRounds = 2
    ConnOf <- OneConn
    Ops <- OpsRecreating
    MaxOps <- Six
INVARIANT NoCrossQueue
PROPERTY QueuedIsDelivered
CHECK_DEADLOCK FALSE
