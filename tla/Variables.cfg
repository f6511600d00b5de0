SPECIFICATION Spec
CONSTANTS
    Names = {"PATH", "V", "1x"}
    Identifiers = {"PATH", "V"}
    Values = {"ab", "b", ""}
    Empty = ""
    Commands = {"c"}
    Dirs = {"a", "b", "o"}
    PathDirs <- MCPathDirs
    Prefixes <- MCPrefixes
    PinPaths <- MCPinPaths
    MaxDepth = 1
    Absent = Absent
    Null = Null
    NoPath = NoPath
INVARIANTS
    TypeOK
    CacheFollowsPath
    TemporariesUndone
PROPERTIES
    ExportSticks
    ImplementsEnvironment
