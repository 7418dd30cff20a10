SPECIFICATION Spec
CONSTANTS
    a = a
    b = b
    Attributes <- MCAttributes
    Word <- MCWord
    Words <- MCWords
    Threads = {t1, t2}
    Tables = {1, 2, 3, 4}
    MaxCalls = 3
    MaxFailures = 1
    MaxCrashes = 3
    MaxResets = 1
INVARIANT FileFollowsList
PROPERTY ListIsRestored
CHECK_DEADLOCK FALSE
