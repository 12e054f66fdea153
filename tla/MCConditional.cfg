\* A file and a header, every conditional directive, sections nested three deep.
CONSTANTS
    FileNames = {"m.cpp", "a.h"}
    Paths = {"m.cpp", "a.h", "/inc/a.h", "nowhere"}
    Dirs = {"inc"}
    SearchPaths <- OneSearchPath
    DirPart <- OneDirPart
    NoDir = "none"
    Absolute = {}
    Joined <- OneJoined
    OnDisk = {"/inc/a.h"}
    NoFile = "null"
    Names = {"X", "Y"}
    NoName = ""
    Predefined = {"Y"}
    Lines <- ConditionalLines
    MainFiles = {"m.cpp"}
    HasHeaders = TRUE
    MaxCond = 3
    MaxDepth = 2
    MaxID = 1
SPECIFICATION Spec
INVARIANTS TypeOK SkippingIsInherited AtMostOneGroup ElseCompletes
PROPERTIES ImplementsSections TextOnlyWhileReading
