SPECIFICATION FairSpec
CONSTANTS
    a1 = a1
    Aircraft = {a1}
    Time = {1, 2}
    MaxLog = 2
    MaxFaults = 2
INVARIANTS TypeOK PendingHasFlush SnapshotKeepsReceived
PROPERTIES ShownNeverRegresses ReceivedIsShown
CHECK_DEADLOCK FALSE
