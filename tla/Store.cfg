SPECIFICATION Spec
CONSTANTS
    Procs = {p1, p2}
    q = q
    x = x
    Files = {q, x}
    Exchanges = {x}
    Items = {i1, i2}
    Missing = Missing
    Torn = Torn
    Stripes = {s1, s2}
    s1 = s1
    s2 = s2
    StripeOf <- TwoStripes
    NoProc = NoProc
    MaxOps = 4
    MaxCrashes = 1
INVARIANT KeptSurvives
INVARIANT NeverRefused
PROPERTY ImplementsInterface
CHECK_DEADLOCK FALSE
