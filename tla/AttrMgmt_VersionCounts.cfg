SPECIFICATION Spec
CONSTANTS
    Attributes = {a, version}
    Version = version
    Readable = {a}
    Writable = {a}
    Fits = {a, version}
    NotifyUnchanged = {}
    Values = {0, 1}
    Firmware = {f1}
    Incrementers = {f1}
    Server = server
    NoThread = none
    MaxLinks = 1
    MaxSessions = 1
    MaxRequests = 1
    MaxCalls = 1
INVARIANT VersionCounts
CHECK_DEADLOCK FALSE
