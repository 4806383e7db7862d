CONSTANTS
    CLUSTER_MAP_SIZE = 6
    TABLE_LENGTH = 3
    FRAGMENT_CTR_SIZE = 256
    MAX_FILE_CLUSTERS = 2
    BufferSizes = {1, 8}
    Names = {a}
    Exts <- MCExts
    NoExt = NoExt
    NoName = NoName
    RootName = RootName
    Smashed = Smashed
    FirstWord <- MCNowhere
    Contents = {u, w}
    NoData = NoData
    Breaches = {}
    LimitsOnce = FALSE
    x = x
SPECIFICATION Spec
INVARIANTS
    UniqueNames FileIntact NoDangling NoSharing NoLeak EmptyFlag NoHang
PROPERTIES
    FilesUndisturbed DirsVanishEmpty ImplementsStore
VIEW View
