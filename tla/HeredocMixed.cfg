SPECIFICATION FairSpec
CONSTANTS
    Lines <- MixedLines
    MaxLines = 5
    Sources = {"terminal", "stream", "command"}
INVARIANTS
    OwnBody
PROPERTIES
    EndOfInputEnds
