SPECIFICATION FairSpec
CONSTANTS
    s1 = s1  s2 = s2
    Socket = {s1}
    BatchMax = 2
    MaxLog = 3
    MaxFaults = 2
PROPERTIES StartSkipsNothing ImplementsPromise EventsPublished StopEnds
CHECK_DEADLOCK FALSE
