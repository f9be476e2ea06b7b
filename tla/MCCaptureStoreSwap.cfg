SPECIFICATION Spec
CONSTANTS
    s1 = s1
    s2 = s2
    p1 = p1
    k1 = k1
    k2 = k2
    Package = {p1}
    Session = {s1}
    Archive <- MCArchive
    Notice <- MCNotice
    Contract = {k1, k2}
    Unreadable = Unreadable
    None = None
    Members <- MCMembers
    References <- MCReferences
    Requests <- OneRequest
    LegacyCaptures = {}
    Swaps <- ReturningSwaps
    MaxCaptures = 2
    MaxCrashes = 1
    MaxFaults = 0
    MaxSwaps = 2
INVARIANT
    PublishedIsWholeArtifact
CHECK_DEADLOCK FALSE
