SPECIFICATION Spec
CONSTANTS
    Messages = {m1, m2}
    Mandatory = {m1}
    Topic = FALSE
    MaxBuffer = 2
    MaxTag = 1
    MaxTxns = 2
    MaxChanges = 1
INVARIANT DiscardedHasNoEffect
INVARIANT CommittedOnce
INVARIANT CommitOkIsComplete
CHECK_DEADLOCK FALSE
