SPECIFICATION Spec
CONSTANTS
    w1 = w1  w2 = w2  a1 = a1  e1 = e1  e2 = e2
    Worker = {w1, w2}
    NoWorker = NoWorker
    Aircraft = {a1}
    EventId = {e1, e2}
    NoId = NoId
    Payload <- MCPayload
    MaxAttempts = 2
    MaxLog = 3
    MaxFaults = 2
SYMMETRY MCSymmetry
INVARIANTS TypeOK CommittedSettled StoreIsPrefix DlqOnlyPermanent
PROPERTIES ImplementsPromise StoreAdvances
CHECK_DEADLOCK FALSE
