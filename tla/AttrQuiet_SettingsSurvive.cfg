SPECIFICATION Spec
CONSTANTS
    a = a
    b = b
    Attributes <- MCAttributes
    Word <- MCWord
    Words <- MCWords
    Threads = {t1}
    Tables = {1, 2}
    MaxCalls = 3
    MaxFailures = 0
    MaxCrashes = 2
    MaxResets = 1
INVARIANT SettingsSurvive
CHECK_DEADLOCK FALSE
