SPECIFICATION Spec
CONSTANTS
    c1 = c1
    Conns = {c1}
    q = q
    dlq = dlq
    Queues = {q, dlq}
    Admin = Admin
    DeadLetterTo <- ToDlq
    Limited = {q}
    Expiring = {q}
    Active = {c1, Admin}
    MaxHops = 1
    None = None
INVARIANT NoDeadlock
CHECK_DEADLOCK FALSE
