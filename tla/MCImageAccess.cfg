SPECIFICATION Spec
CONSTANTS
    Image = {i1}
    Worker = {w1, w2}
    Job = {j1, j2}
    None = None
    Orphan = Orphan
    Lease = 1
    ACLWindow = 0
    UnknownGrace = 1
    PendingTimeout = 1
    MaxACLAttempts = 1
    MaxSubmissions = 2
    MaxPollFailures = 1
    MaxUnknownChecks = 1
    FixedDelay = 1
    BackoffBase = 1
    BackoffCap = 1
    LateACL = FALSE
    Issued = {"pass", "block"}
    MaxGen = 2
    MaxCrashes = 1
SYMMETRY Interchangeable
INVARIANTS
    ACLConverged
    BlockedNotServed
PROPERTIES
    DeliveryIsQueue
    NoBlindReplay
