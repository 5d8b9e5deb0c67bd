SPECIFICATION Spec
CONSTANTS
    MaxFetchAttempt = 2
    MinFetchDepth = 0
    Distances = {1, 4, 100}
    TryUntil = 4
    SlowAfter = 2
    SlowSleep = 3
    Replies <- MCReplies
    Jobs <- MCJobs
    Found <- MCFound
    Answers <- MCAnswers
    ErrorCodes = {2, 7}
INVARIANT AdminSuppressionHonoured
CHECK_DEADLOCK FALSE
