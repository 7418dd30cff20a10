SPECIFICATION FairSpec
CONSTANTS
    Attributes = {a, version}
    Version = version
    Readable = {a}
    Writable = {a}
    Fits = {a, version}
    NotifyUnchanged = {}
    Values = {0, 1}
    Firmware = {f1}
    Incrementers = {f1}
    Server = server
    NoThread = none
    MaxLinks = 1
    MaxSessions = 2
    MaxRequests = 2
    MaxCalls = 2
INVARIANTS
    SubscriberIsCurrent
    NotifyOffWhenClosed
PROPERTY EveryRequestAnswered
CHECK_DEADLOCK FALSE
