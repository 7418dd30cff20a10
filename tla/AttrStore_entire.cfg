SPECIFICATION Spec
CONSTANTS
    Ids <- MCIds
    Table <- MCTable
    UnknownKey <- MCUnknownKey
    Raw <- MCRaw
    LoadFiles <- MCLoadFiles
    InitFiles <- MCInitFiles
    VALIDATE_ENTIRE_FILE = TRUE
    VALIDATE_ENTIRE_FILE_ON_INIT = FALSE
INVARIANTS
    NoStaleBits
    AllOrNothing
    LegalValues
    RestartKeepsValues
    BroadcastFits
    FeedbackAgrees
PROPERTIES
    FilesRespectWritable
    ImplementsPersistentMap
