SPECIFICATION Spec
CONSTANTS
    Archives <- MCArchives
    Limits <- MCLimits
    OtherLimits <- MCOtherLimits
    Body <- MCBody
    Length <- MCLength
    Packages = {1, 2, 3}
    None = None
    MaxAttempts = 3
    MaxArtifactBytes = 2
    MaxTotalBytes = 4
    MaxDeaths = 2
    MaxUnremoved = 1
INVARIANTS
    TypeOK
    DestinationIsWhole
    TransferIsBounded
    LitterHasCause
    VerdictsAreExact
