SPECIFICATION MCSpec
CONSTANTS
    raw = raw  dlq = dlq  a1 = a1  a2 = a2  w1 = w1  w2 = w2
    Topic = {raw, dlq}
    Admin = {a1, a2}
    Inits = {a1}
    MaxAttempts = 2
    MaxAdminFaults = 2
    MaxEvent = 2
    Legacy = 1
    Writer = {w1, w2}
    BatchSize = 2
    MaxUpsets = 1
CHECK_DEADLOCK FALSE
INVARIANTS
    TaTypeOK
    MmTypeOK
    ReadyIsReal
    EveryDocExpires
    PollingPrepared
    StartsGoOn
    RestoreComplete
PROPERTIES
    TopicsConverge
    PreparationConverges
