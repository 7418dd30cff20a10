SPECIFICATION Spec
CONSTANTS
    NoThread = NoThread
    Setters = {s1}
    Savers = {}
    Worker = w
    SaverCalls = {}
    MaxSets = 2
    MaxSaves = 2
CHECK_DEADLOCK FALSE
PROPERTIES
    SleepEnds
