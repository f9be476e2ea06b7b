SPECIFICATION ISpec
CONSTANTS
    s1 = s1
    s2 = s2
    p1 = p1
    k1 = k1
    k2 = k2
    Package = {p1}
    Session = {s1, s2}
    Archive <- MCArchive
    Notice <- MCNotice
    Contract = {k1, k2}
    Unreadable = Unreadable
    None = None
    Members <- MCMembers
    References <- MCReferences
    Requests <- MCRequests
    LegacyCaptures = {}
    Swaps <- MCSwaps
    Answers <- MCAnswers
    Misfiled <- MCMisfiled
    Inspected <- MCArchive
    Served = {"whole"}
    MaxCaptures = 2
    MaxAttempts = 2
    MaxRuns = 2
    MaxCrashes = 1
    MaxFaults = 0
    MaxSwaps = 1
SYMMETRY Sessions
INVARIANTS
    ITypeOK
    RunsCarryEvidence
    OneOpenRun
    CheckpointIsEvidence
    CompletedIsSealed
    CurrentIsCertified
PROPERTIES
    CheckpointMovesForward
    RunsEndOnce
