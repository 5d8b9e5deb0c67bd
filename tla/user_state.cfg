\* Commands side by side, each of which can be killed.
SPECIFICATION Spec
CONSTANTS
    p1 = p1
    p2 = p2
    Procs = {p1, p2}
    Before = Before
    None = None
    good = good
    other = other
    bad = bad
    ValidTokens = {good, other}
    Jobs <- Pairs
    Starts <- EarlierRuns
    MaxPolls = 2
INVARIANTS WholeDocumentsUsed OnlyCheckedBinariesRun
PROPERTIES SavedSettingsKept
CHECK_DEADLOCK FALSE
