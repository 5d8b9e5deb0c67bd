\* Both kinds of alarm, in the rules only or also in handlers and the scheduler; two targets share a file.
SPECIFICATION Spec
CONSTANTS
    fa = fa
    fb = fb
    NTargets = 3
    NRules <- FewRules
    File <- SharedFile
    Configs <- AllConfigs
    Threshold = 2
    MaxMatchPerFile = 2
    MaxMatches = 1
INVARIANTS TimersAreScoped RulesAccounted ProgressPerTarget OneResultPerTarget
PROPERTIES ScanEnds
CHECK_DEADLOCK FALSE
