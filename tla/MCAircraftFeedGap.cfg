SPECIFICATION FairSpec
CONSTANTS
    a1 = a1
    Aircraft = {a1}
    Time = {1, 2}
    MaxLog = 1
    MaxFaults = 0
PROPERTY GapIsClosed
CHECK_DEADLOCK FALSE
