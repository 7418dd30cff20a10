SPECIFICATION Spec
CONSTANTS
    Ids <- MCIds
    Table <- MCTable
    Raw <- MCRaw
    IdSpan <- MCIdSpan
    INVALID_PARAM_ID <- MCInvalid
    config_version = 2
    factory_reset_enable = 3
    dump_path = "/a"
    load_path = "/a"
    AttributePath = "/attr"
    TooLong = "long"
    Paths <- MCPaths
    StartFiles <- MCStartFiles
    USER_FILE_NAME = TRUE
    Requests <- MCRequests
    Commands <- MCCommands
    MaxRequests = 2
    MaxCommands = 1
    MaxSets = 1
INVARIANTS
    MessagesAreUnderstood
    RefusedMeansUntouched
    TextsAreFreed
    AttributeFileHolds
    DumpIsSnapshot
    DumpLoadsBack
CHECK_DEADLOCK FALSE
