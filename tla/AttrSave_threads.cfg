SPECIFICATION Spec
CONSTANTS
    NoThread = NoThread
    Setters = {s1, s2}
    Savers = {f1}
    Worker = w
    SaverCalls = {"force", "load", "reset"}
    MaxSets = 2
    MaxSaves = 1
\* The calls of each thread are bounded: when they are made the system stops.
CHECK_DEADLOCK FALSE
INVARIANTS
    MutexHeld
    LostOnlyIfMissed
    CleanMeansSaved
    SomeoneGoesOn
PROPERTIES
    CallsReturn
    ValuesReachFile
    FileNeverGoesBack
