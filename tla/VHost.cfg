SPECIFICATION Spec
CONSTANTS
    Clients = {c1}
    Admin = admin
    Default = default
    e1 = e1
    q1 = q1
    q2 = q2
    m1 = m1
    ExNames = {e1}
    QNames = {q1, q2}
    BindKeys <- TwoKeys
    Words = {q1, q2}
    Star = Star
    Hash = Hash
    EmptyWord = EmptyWord
    MaxWords = 4
    Msgs = {m1}
    KeyOf <- OneKey
    ExchangeKinds <- SomeExchanges
    QueueKinds <- SomeQueues
    None = None
    Capacity = 1
    MaxBorn = 3
    MaxRequests = 5
    MaxCrashes = 1
INVARIANTS
    BindingsLive
    RegistrySurvives
    HeldOnDisk
    SettledStaysSettled
    AutoDeleteHappens
    MatchesAsMeant
CHECK_DEADLOCK FALSE
