SPECIFICATION Spec
CONSTANTS
    Email = {e1}
    Purpose = {"registration", "password_reset"}
    Code = {c1, c2}
    None = None
    Worker = {w1, w2}
    Orphan = Orphan
    TTL = 2
    Cooldown = 1
    Window = 1
    MaxSends = 1
    MaxFailed = 1
    Batch = 2
    Lease = 1
    BatchWindow = 1
    MaxAttempts = 1
    RetryBase = 1
    RetryCap = 1
    MaxDeliveries = 2
    MaxCrashes = 1
SYMMETRY Interchangeable
INVARIANTS
    TypeOK
    PlaintextCurrent
PROPERTIES
    OutboxIsQueue
