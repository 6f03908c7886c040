SPECIFICATION FairSpec
CONSTANTS
    Chunks <- MCPrinted
    StdioMax = 8
    HexMax = 4
    MaxWrites = 1
    MaxData = 0
PROPERTY PastedIsHandled
