\* One upload whose worker stops after its commit.
SPECIFICATION Spec
CONSTANTS
    d1 = d1  d2 = d2  n1 = n1  a = a  b = b
    c1 = c1  c2 = c2  w1 = w1  w2 = w2
    Nil = Nil  Gone = Gone
    DocIds = {d1}
    DocNames = {n1}
    Contents = {a}
    LocalDocs = {}
    Callers = {c1, c2}
    Workers = {w1}
    S3Refuses = FALSE
    MaxRetries = 0
    MaxCalls = 1
    MaxCrashes = 1
INVARIANTS
    OutcomeIsNotified
CHECK_DEADLOCK FALSE
