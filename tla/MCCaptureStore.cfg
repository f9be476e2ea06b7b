SPECIFICATION Spec
CONSTANTS
    s1 = s1
    s2 = s2
    p1 = p1
    k1 = k1
    k2 = k2
    Package = {p1}
    Session = {s1, s2}
    Archive <- MCArchive
    Notice <- MCNotice
    Contract = {k1, k2}
    Unreadable = Unreadable
    None = None
    Members <- MCMembers
    References <- MCReferences
    Requests <- MCRequests
    LegacyCaptures <- MCLegacy
    Swaps <- ForwardSwaps
    MaxCaptures = 3
    MaxCrashes = 1
    MaxFaults = 1
    MaxSwaps = 1
SYMMETRY Sessions
INVARIANTS
    TypeOK
    WorkIsExclusive
    PublishedIsWholeArtifact
PROPERTIES
    PointerMovesForward
    SettledIsLeftAlone
    ReadersSeeWholeEditions
\* The file may be gone for good once the bound on replacements is spent: then
\* no load can start any more.
CHECK_DEADLOCK FALSE
