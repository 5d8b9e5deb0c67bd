\* Four repositories in three folders: one of every lockfile, the others of a few files.
SPECIFICATION SupplySpec
CONSTANTS
    Strays = 1
    Deps <- MCDeps
    Contents <- MCContents
    Lowered <- MCLowered
    Underscored <- MCUnderscored
    Alias <- MCAlias
    Scans <- MCScans
INVARIANTS VulnerableReported ResolvedIsReported ClosestIsUsed AnswersAreOwn
CHECK_DEADLOCK FALSE
