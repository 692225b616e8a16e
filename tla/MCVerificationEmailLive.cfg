SPECIFICATION FairSpec
CONSTANTS
    Email = {e1}
    Purpose = {"password_reset"}
    Code = {c1}
    None = None
    Worker = {w1, w2}
    Orphan = Orphan
    TTL = 2
    Cooldown = 1
    Window = 1
    MaxSends = 1
    MaxFailed = 2
    Batch = 1
    Lease = 2
    BatchWindow = 1
    MaxAttempts = 2
    RetryBase = 1
    RetryCap = 1
    MaxDeliveries = 2
    MaxCrashes = 1
INVARIANTS
    SingleSender
    GuessBudget
PROPERTIES
    PlaintextGone
    Settles
