SPECIFICATION Spec
CONSTANTS
    Queues = {q1, q2}
    ConsumerTags = {c1}
    Messages = {m1}
    NoConsumer = NoConsumer
    Prefetches = {1}
    MaxTag = 2
    Handler = Handler
INVARIANT TypeOK
INVARIANT IndexConsistent
INVARIANT NoInheritedDelivery
PROPERTY SettledTagStaysSettled
PROPERTY PrefetchRespected
