SPECIFICATION FairSpec
CONSTANTS
    Pushers = {p1, p2}
    Loop = Loop
    Messages = {m1, m2, m3}
    m1 = m1
    Prio <- PrioOf
    MaxPriority = 1
    MaxLength = 0
    Capacity = 1
    MaxChanges = 3
    MaxBacks = 1
PROPERTY Drained
CHECK_DEADLOCK FALSE
