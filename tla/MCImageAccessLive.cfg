SPECIFICATION FairSpec
CONSTANTS
    Image = {i1}
    Worker = {w1}
    Job = {j1}
    None = None
    Orphan = Orphan
    Lease = 2
    ACLWindow = 1
    UnknownGrace = 2
    PendingTimeout = 2
    MaxACLAttempts = 2
    MaxSubmissions = 2
    MaxPollFailures = 2
    MaxUnknownChecks = 2
    FixedDelay = 1
    BackoffBase = 1
    BackoffCap = 2
    LateACL = TRUE
    Issued = {"pass", "block"}
    MaxGen = 2
    MaxCrashes = 1
INVARIANTS
    TypeOK
PROPERTIES
    Settles
