SPECIFICATION Spec
CONSTANTS
    Archives <- MCArchives
    Limits <- MCLimits
    OtherLimits <- MCOtherLimits
    Body <- MCBody
    Length <- MCLength
    Packages = {1, 2, 3}
    None = None
    MaxAttempts = 3
    MaxArtifactBytes = 2
    MaxTotalBytes = 4
    MaxDeaths = 1
    MaxUnremoved = 0
INVARIANTS
    PartialIsDeleted
