SPECIFICATION FairSpec
CONSTANTS
    s1 = s1  s2 = s2
    Socket = {s1}
    BatchMax = 2
    MaxLog = 2
    MaxFaults = 2
PROPERTY BroadcastAddressesAllOpen
CHECK_DEADLOCK FALSE
