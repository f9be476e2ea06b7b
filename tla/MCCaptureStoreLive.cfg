SPECIFICATION RetrySpec
CONSTANTS
    s1 = s1
    s2 = s2
    p1 = p1
    k1 = k1
    k2 = k2
    Package = {p1}
    Session = {s1, s2}
    Archive = {"whole"}
    Notice <- MCNotice
    Contract = {k1}
    Unreadable = Unreadable
    None = None
    Members <- WholeMembers
    References <- WholeReferences
    Requests <- TwoSizes
    LegacyCaptures = {}
    Swaps = {}
    MaxCaptures = 2
    MaxCrashes = 2
    MaxFaults = 2
    MaxSwaps = 0
PROPERTIES
    OnlyDefectsCondemn
    RetriesPublish
