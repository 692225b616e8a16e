SPECIFICATION Spec
CONSTANTS
    Post = {p1, p2}
    Image = {i1, i2}
    Tx = {t1, t2}
    Job = {j1}
    Operation = {"create", "update", "delete", "restorePost", "callback"}
    MaxRev = 2
    MaxTx = 4
    None = None
SYMMETRY Interchangeable
CHECK_DEADLOCK FALSE
INVARIANTS
    NoWaitCycle
PROPERTIES
    PublishedPassed
