CONSTANTS
    CLUSTER_MAP_SIZE = 5
    TABLE_LENGTH = 2
    FRAGMENT_CTR_SIZE = 1
    MAX_FILE_CLUSTERS = 2
    BufferSizes = {2}
    Names = {a}
    Exts = {NoExt}
    NoExt = NoExt
    NoName = NoName
    RootName = RootName
    Smashed = Smashed
    FirstWord <- MCToRoot
    Contents = {u}
    NoData = NoData
    Breaches = {"disk_full", "table_full", "long_file", "name_clash", "moved", "stale", "astray"}
    LimitsOnce = TRUE
    x = x
SPECIFICATION Spec
INVARIANTS
    TypeOK FatCoherent
VIEW CodeView
