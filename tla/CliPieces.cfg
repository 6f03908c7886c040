SPECIFICATION FairSpec
CONSTANTS
    Chunks <- MCPieces
    StdioMax = 2
    HexMax = 3
    MaxWrites = 4
    MaxData = 1
INVARIANTS TypeOK WordsKept EofAfterWords
PROPERTIES EofStops SignalStops DeviceServed
