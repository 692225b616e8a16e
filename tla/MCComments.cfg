SPECIFICATION Spec
CONSTANTS
    Comment = {1, 2, 3}
    User = {u1, u2}
    Owner = u1
    Reader = u2
    Tx = {t1, t2}
    Post = Post
    MaxRev = 2
    MaxRequests = 2
    None = None
SYMMETRY Interchangeable
CHECK_DEADLOCK FALSE
INVARIANTS
    TypeOK
    CountsExact
    VerdictCurrent
    CirclesNeedReply
    PagesExact
