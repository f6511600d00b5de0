SPECIFICATION Spec
CONSTANTS
    Lines <- ReaderLines
    MaxLines = 5
    Sources = {"terminal", "stream", "command"}
INVARIANTS
    TypeOK
    ScannerAgrees
    OwnBody
    NothingLeft
