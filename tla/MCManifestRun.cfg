SPECIFICATION Spec
CONSTANTS
    Documents <- MCDocuments
    None = None
    Migrators = {"newest", "older"}
    UpTo <- MCUpTo
    Versions = 2
    MaxUpgrades = 2
    MaxEdits = 1
    MaxRetired = 1
    MaxLosses = 1
CHECK_DEADLOCK FALSE
INVARIANTS
    TypeOK
    SchemaIsPrefix
    ReportIsTrue
    WorkIsPlanned
PROPERTIES
    SuccessIsConfirmed
    RunEnds
