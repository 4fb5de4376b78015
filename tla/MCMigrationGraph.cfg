SPECIFICATION Spec
CONSTANTS
    Ids     <- MCIds
    MaxDeps = 2
    Inputs  <- MCInputs
    Matches <- MCMatches
INVARIANTS
    OrderExistsExactlyWhenWellFormed
    OrderIsLinearExtension
PROPERTIES
    NewestMigrationOnlyExtendsTheOrder
    PrefixIsNeverRetargeted
CHECK_DEADLOCK FALSE
