\* Tenants made twice, and a caller that pages through changing documents.
SPECIFICATION ApiSpec
CONSTANTS
    a = a  b = b  c = c  t1 = t1  t2 = t2  c1 = c1  c2 = c2
    Nil = Nil
    TenantIds = {t1, t2}
    TenantNames = {"portal", "other"}
    ApiKeys = {"k1", "k2"}
    Creators = {c1, c2}
    CallerKey = "k1"
    Documents = {a, b, c}
    MaxClock = 1
    MaxChanges = 1
    PageLimit = 1
CHECK_DEADLOCK FALSE
SYMMETRY Symmetric
INVARIANTS
    PortalKeepsItsTenant
    MissesBounded
