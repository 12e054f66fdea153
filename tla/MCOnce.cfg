\* A header that starts with #pragma once.
CONSTANTS
    FileNames <- MCNames
    Paths <- MCPaths
    Dirs = {"inc", "sys"}
    SearchPaths <- MCSearchPaths
    DirPart <- MCDirPart
    NoDir = "none"
    Absolute = {"/inc/a.h"}
    Joined <- MCJoined
    OnDisk <- MCOnDisk
    NoFile = "null"
    Names = {"X"}
    NoName = ""
    Predefined = {}
    Lines <- OnceLines
    MainFiles = {"m.cpp"}
    HasHeaders = TRUE
    MaxCond = 1
    MaxDepth = 3
    MaxID = 2
SPECIFICATION Spec
PROPERTIES OnceIncluded
