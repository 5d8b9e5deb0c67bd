SPECIFICATION Spec
CONSTANTS
    Targets = 1
    ReturnCodes <- MCReturnCodes
    Jobs <- MCJobs
    Within <- MCWithin
INVARIANT InnerErrorsKept
CHECK_DEADLOCK FALSE
