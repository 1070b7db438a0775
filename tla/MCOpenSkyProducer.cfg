SPECIFICATION FairSpec
CONSTANTS
    Lifetimes <- MCLifetimes
    Margin = 2 Floor = 2 RequestTime = 1 Interval = 1 DefaultRetry = 3
    MaxPolls = 2 MaxRecords = 2 QueueSize = 2 MaxFaults = 1
INVARIANTS TypeOK NoExpiredToken RetryUsesNewToken RateLimitRespected DeliveredHonest
PROPERTIES StopEnds
