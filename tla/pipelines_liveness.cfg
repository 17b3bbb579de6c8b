\* Fair handlers and worker: an S3 and a local document, one retry, one crash.
SPECIFICATION FairSpec
CONSTANTS
    d1 = d1  d2 = d2  n1 = n1  a = a  b = b
    c1 = c1  c2 = c2  w1 = w1  w2 = w2
    Nil = Nil  Gone = Gone
    DocIds = {d1, d2}
    DocNames = {n1}
    Contents = {a}
    LocalDocs = {d1}
    Callers = {c1, c2}
    Workers = {w1}
    S3Refuses = TRUE
    MaxRetries = 1
    MaxCalls = 2
    MaxCrashes = 1
PROPERTIES
    Settles
    KeepsLedger
CHECK_DEADLOCK FALSE
