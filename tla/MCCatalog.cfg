SPECIFICATION Spec
CONSTANTS
    Name = {a, b}
    Tag = {1, 2}
    Item = {1, 2, 3}
    Sugg = {1, 2, 3}
    Post = {1, 2}
    Tx = {t1, t2}
    MaxRequests = 2
    None = None
SYMMETRY Interchangeable
CHECK_DEADLOCK FALSE
INVARIANTS
    TypeOK
    SnapshotCurrent
    OrderedNeverCircle
