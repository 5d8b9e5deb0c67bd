\* Clients that wait, that wait for the rules only, and that never wait.
SPECIFICATION Spec
CONSTANTS
    fa = fa
    fb = fb
    Files = {fa, fb}
    Committed <- OneCommitted
    Loaded = {}
    Configs <- Clients
    MaxVersion = 2
    MaxRules = 2
    MaxReplies = 2
INVARIANTS DocumentsAreCurrent OpenDocumentsAgree
PROPERTY RepliesEnd
CHECK_DEADLOCK FALSE
