SPECIFICATION VSpec
CONSTANTS
    s1 = s1
    s2 = s2
    p1 = p1
    k1 = k1
    Package = {p1}
    Session = {s1, s2}
    Archive <- MCArchive
    Notice <- MCNotice
    Contract = {k1}
    Unreadable = Unreadable
    None = None
    Members <- MCMembers
    References <- MCReferences
    Requests <- MCRequests
    LegacyCaptures = {}
    Swaps <- Corrected
    Answers <- MCAnswers
    Misfiled <- MCMisfiled
    MaxCaptures = 2
    MaxAttempts = 2
    MaxCrashes = 1
    MaxFaults = 1
    MaxSwaps = 1
SYMMETRY Sessions
INVARIANTS
    CoverageIsLatestVerdict
    VerifiedEvidenceHolds
    VerdictOnThePublished
    PackageWorkIsExclusive
PROPERTIES
    HistoryIsKept
    ReadersSeeCertifiedEditions
