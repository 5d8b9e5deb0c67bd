\* Concurrent.map as the engine uses it: exceptions land only during a job.
SPECIFICATION Spec
CONSTANTS
    w1 = w1
    w2 = w2
    Workers = {w1, w2}
    N = 3
    Weights <- WholeDomains
    MaxCapacity = 10
    MaxFibers = 2
    NoJob = NoJob
    NoHome = NoHome
    AsyncPoints = {"fn"}
    MaxAsync = 2
    MaxSuspends = 2
INVARIANTS NoLostJob OneJobPerDomain
PROPERTIES Implements
CHECK_DEADLOCK FALSE
