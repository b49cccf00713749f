SPECIFICATION Spec
CONSTANTS
    k1 = k1
    k2 = k2
    c1 = c1
    c2 = c2
    Queues = {q1}
    ConsumerTags = {c1, c2}
    Messages = {m1, m2}
    NoConsumer = NoConsumer
    Conns = {k1, k2}
    NoAck = {c2}
    Prefetch = 1
    Mortal = {k1}
    MaxQueues = 1
    MaxRounds = 2
    ConnOf <- TwoConns
    MaxOps <- FourAndThree
    Ops <- OpsConsuming
INVARIANT NoDuplicate
INVARIANT NoDeliveryAfterTold
INVARIANT NoLoss
CHECK_DEADLOCK FALSE
