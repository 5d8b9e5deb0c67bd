\* Tool calls one after the other or at once, and hooks one at a time or at once.
SPECIFICATION Spec
CONSTANTS
    a = a
    b = b
    other = other
    name = name
    second = second
    NoCall = NoCall
    Hooks = {1, 2, 3, 4}
    Limit = 2
    Paths = {a, b, other}
    BaseName <- Names
    Calls = {1, 2, 3}
    Jobs <- AllJobs
INVARIANTS AnswersAreOwn NothingLeftBehind EditsAreScanned
CHECK_DEADLOCK FALSE
