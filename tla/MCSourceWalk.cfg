SPECIFICATION Spec
CONSTANTS
    n1 = n1
    n2 = n2
    n3 = n3
    n4 = n4
    t1 = t1
    t2 = t2
    Notice = {n1, n2, n3, n4}
    Token = {t1, t2}
    None = None
    PageRecords = 2
    MaxNotices = 3
    MaxPages = 3
    MaxTries = 3
    Seconds = 4
    Base = 1
    Longest = 2
    RetryAfter <- MCRetryAfter
SYMMETRY Symmetry
INVARIANTS
    TypeOK
    CompleteIsSnapshot
    EvidenceAddsUp
PROPERTIES
    TimeIsKept
