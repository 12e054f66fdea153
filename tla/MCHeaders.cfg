\* Headers over a search path of two directories, in two vocabularies.
CONSTANTS
    FileNames <- MCNames
    Paths <- MCPaths
    Dirs = {"inc", "sys"}
    SearchPaths <- MCSearchPaths
    DirPart <- MCDirPart
    NoDir = "none"
    Absolute = {"/inc/a.h"}
    Joined <- MCJoined
    OnDisk <- MCOnDisk
    NoFile = "null"
    Names = {"X", "Y"}
    NoName = ""
    Predefined = {}
    Lines <- HeaderLines
    MainFiles = {"m.cpp"}
    HasHeaders = TRUE
    MaxCond = 1
    MaxDepth = 4
    MaxID = 3
SPECIFICATION HeaderSpec
INVARIANTS NoCircularHeader OpenHeadersResolve PendingGuardIsRecorded OpenIDsDistinct
