\* Three documents, eight rules, six files, three of which may go at any time.
SPECIFICATION Spec
CONSTANTS
    Docs = {"d1", "d2", "d3"}
    About <- MCAbout
    Files = {"main", "script", "hidden", "odd", "large", "linked"}
    File <- MCFile
    Jobs <- MCJobs
INVARIANTS NoRuleLost AccountedFor PrintedIsRun
CHECK_DEADLOCK FALSE
