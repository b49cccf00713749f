SPECIFICATION Spec
CONSTANTS
    Pushers = {p1, p2}
    Loop = Loop
    Messages = {m1, m2, m3, m4, m5}
    m1 = m1
    Prio <- PrioOf
    MaxPriority = 0
    MaxLength = 2
    Capacity = 5
    MaxChanges = 3
    MaxBacks = 1
INVARIANT TypeOK
INVARIANT CountExact
INVARIANT LengthBounded
PROPERTY EvictsForOne
CHECK_DEADLOCK FALSE
