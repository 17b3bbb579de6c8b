\* One upload whose provider never answers; ocr_max_retries as in app/config.py.
SPECIFICATION Spec
CONSTANTS
    d1 = d1  d2 = d2  n1 = n1  a = a  b = b
    c1 = c1  c2 = c2  w1 = w1  w2 = w2
    Nil = Nil  Gone = Gone
    DocIds = {d1}
    DocNames = {n1}
    Contents = {a}
    LocalDocs = {}
    Callers = {c1, c2}
    Workers = {w1}
    S3Refuses = FALSE
    MaxRetries = 3
    MaxCalls = 1
    MaxCrashes = 0
PROPERTIES
    FailedAfterRetries
CHECK_DEADLOCK FALSE
