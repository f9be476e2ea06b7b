SPECIFICATION ISpec
CONSTANTS
    s1 = s1
    s2 = s2
    p1 = p1
    k1 = k1
    k2 = k2
    Package = {p1}
    Session = {s1}
    Archive = {"whole"}
    Notice <- MCNotice
    Contract = {k1}
    Unreadable = Unreadable
    None = None
    Members <- WholeMembers
    References <- WholeReferences
    Requests <- MCRequests
    LegacyCaptures = {}
    Swaps = {}
    Answers <- WholeAnswer
    Misfiled <- MCMisfiled
    Inspected = {"whole"}
    Served = {"whole"}
    MaxCaptures = 2
    MaxAttempts = 2
    MaxRuns = 1
    MaxCrashes = 1
    MaxFaults = 1
    MaxSwaps = 0
INVARIANTS
    PhaseIsDurablyTrue
