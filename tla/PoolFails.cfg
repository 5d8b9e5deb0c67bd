\* Exceptions anywhere; whole domains and jobs that share one, with a weight that is rejected while jobs are in flight or none.
SPECIFICATION Spec
CONSTANTS
    w1 = w1
    w2 = w2
    Workers = {w1, w2}
    N = 3
    Weights <- AnyWeights
    MaxCapacity = 10
    MaxFibers = 2
    NoJob = NoJob
    NoHome = NoHome
    AsyncPoints = {"fn", "resolved", "loop"}
    MaxAsync = 2
    MaxSuspends = 1
INVARIANTS NoJobOutlivesMap CapacityAccounts
PROPERTIES ResolvedOnce MapTerminates
CHECK_DEADLOCK FALSE
