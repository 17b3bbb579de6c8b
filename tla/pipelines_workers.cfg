\* Two workers and two handlers on two ids: uploads, triggers, deletes, one retry.
SPECIFICATION Spec
CONSTANTS
    d1 = d1  d2 = d2  n1 = n1  a = a  b = b
    c1 = c1  c2 = c2  w1 = w1  w2 = w2
    Nil = Nil  Gone = Gone
    DocIds = {d1, d2}
    DocNames = {n1}
    Contents = {a, b}
    LocalDocs = {}
    Callers = {c1, c2}
    Workers = {w1, w2}
    S3Refuses = TRUE
    MaxRetries = 1
    MaxCalls = 2
    MaxCrashes = 0
SYMMETRY Interchangeable
INVARIANTS
    TypeOK
    PendingIsCovered
    ResultsBacked
    AnnouncedIsThere
PROPERTIES
    PipelinesIndependent
CHECK_DEADLOCK FALSE
