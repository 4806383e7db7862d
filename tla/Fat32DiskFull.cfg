CONSTANTS
    CLUSTER_MAP_SIZE = 5
    TABLE_LENGTH = 3
    FRAGMENT_CTR_SIZE = 256
    MAX_FILE_CLUSTERS = 1
    BufferSizes = {1, 8}
    Names = {a, b}
    Exts = {NoExt}
    NoExt = NoExt
    NoName = NoName
    RootName = RootName
    Smashed = Smashed
    FirstWord <- MCNowhere
    Contents = {u}
    NoData = NoData
    Breaches = {"disk_full"}
    LimitsOnce = FALSE
    x = x
SPECIFICATION Spec
INVARIANTS
    ClustersUnshared
