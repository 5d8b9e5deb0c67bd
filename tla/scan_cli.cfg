SPECIFICATION Spec
CONSTANTS
    Targets = 1
    ReturnCodes <- MCReturnCodes
    Jobs <- MCJobs
    Within <- MCWithin
INVARIANTS RepositoryRestored ReportsWhatIsNew CleanExitHidesNothing JoinIsExact
PROPERTIES ResultsAreVouched FixesTheReported
CHECK_DEADLOCK FALSE
