SPECIFICATION FairSpec
CONSTANTS
    w1 = w1  w2 = w2  a1 = a1  e1 = e1  e2 = e2
    Worker = {w1, w2}
    NoWorker = NoWorker
    Aircraft = {a1}
    EventId = {}
    NoId = NoId
    Payload <- MCPayloadLive
    MaxAttempts = 2
    MaxLog = 2
    MaxFaults = 2
PROPERTIES BacklogDrains StopEnds
CHECK_DEADLOCK FALSE
