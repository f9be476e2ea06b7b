SPECIFICATION IRetrySpec
CONSTANTS
    s1 = s1
    s2 = s2
    p1 = p1
    k1 = k1
    k2 = k2
    Package = {p1}
    Session = {s1, s2}
    Archive = {"whole"}
    Notice <- MCNotice
    Contract = {k1, k2}
    Unreadable = Unreadable
    None = None
    Members <- WholeMembers
    References <- WholeReferences
    Requests <- Versions
    LegacyCaptures = {}
    Swaps = {}
    Answers <- WholeAnswer
    Misfiled <- MCMisfiled
    Inspected = {"whole"}
    Served = {"whole"}
    MaxCaptures = 3
    MaxAttempts = 3
    MaxRuns = 3
    MaxCrashes = 1
    MaxFaults = 1
    MaxSwaps = 0
INVARIANTS
    SuccessIsTrue
PROPERTIES
    RetriesSeal
    PackageComesFree
