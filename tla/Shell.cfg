CONSTANTS
    DirIds = {1, 2, 3}
    Root = 1
    Slots = {1, 2, 3, 4}
    NoName <- MCNone
    NoExt <- MCNone
    NoData <- MCNone
    Lines <- MCLines
    MaxLines = 3
    BUFFER_CLUSTERS = 2
    SHOWN_CLUSTERS = 1
    PATH_LENGTH = 9
    shell <- MCShellName
    oshiete <- MCOshiete
    os <- MCOs
    Text = t1
    ShellData <- MCShellData
    Junk = Junk
    sh = sh
    osh = osh
    n = n
    x = x
    s1 = s1
    s2 = s2
    t1 = t1
SPECIFICATION Spec
VIEW View
INVARIANTS
    TypeOK
    CwdIsPath
PROPERTIES
    OthersUntouched
    FilesKept
    LsShowsHere
    WhereisByPrefix
    RemovesAll
    StrparseSplits
CHECK_DEADLOCK FALSE
