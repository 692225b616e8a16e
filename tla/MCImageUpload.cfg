SPECIFICATION FairSpec
CONSTANTS
    Image = {i1}
    MaxJobs = 2
    Server = {s1, s2}
    MaxImageBytes = 1
    MaxAttempts = 2
    MaxFaults = 1
    None = None
CHECK_DEADLOCK FALSE
INVARIANTS
    TypeOK
    PendingWatched
    ReferencedStored
PROPERTIES
    RetryIsQueue
    RetrySettles
