SPECIFICATION Spec
SYMMETRY Interchangeable

CONSTANTS
    User = {u1, u2}
    Admin = u1
    AdminName = n1
    AdminPassword = p1
    Session = {s1, s2}
    Name = {n1, n2, n3}
    Password = {p1, p2}
    Role = {"super_admin"}
    Tx = {t1, t2}
    SessionTTL = 2
    TouchEvery = 1
    Cooldown = 1
    MaxTime = 2
    MaxReviews = 1
    MaxRequests = 3
    None = None

INVARIANTS
    TypeOK
    SessionProvesPassword
    BannedHasNoSession
    CirclesNeedActorOrRevocation
PROPERTIES
    NamesStand
CHECK_DEADLOCK FALSE
