SPECIFICATION Spec
CONSTANTS
    Post = {p1, p2}
    Image = {i1}
    Tx = {t1, t2}
    Job = {j1}
    Operation = {"create", "draft", "repeat", "update", "delete", "restoreHistory", "restorePost", "callback", "reviewPost", "reviewImage"}
    MaxRev = 2
    MaxTx = 4
    None = None
SYMMETRY Interchangeable
CHECK_DEADLOCK FALSE
INVARIANTS
    TypeOK
    DeletionBlocksOrphans
    ReadyWhileReferenced
    BlockedStaysBlocked
