CONSTANTS
    CLUSTER_MAP_SIZE = 6
    TABLE_LENGTH = 3
    FRAGMENT_CTR_SIZE = 256
    MAX_FILE_CLUSTERS = 2
    BufferSizes = {8}
    Names = {a, b}
    Exts = {NoExt}
    NoExt = NoExt
    NoName = NoName
    RootName = RootName
    Smashed = Smashed
    FirstWord <- MCNowhere
    Contents = {u}
    NoData = NoData
    Breaches = {"moved"}
    LimitsOnce = TRUE
    Risks = {"torn", "itself"}
    MaxFailures = 1
    MaxCalls = 5
SPECIFICATION PowerSpec
INVARIANTS
    Settled FilesWhole NothingShared OneTorn LostOnlyByMove
PROPERTIES
    OneAtATime
SYMMETRY Symmetry
VIEW View
CHECK_DEADLOCK FALSE
