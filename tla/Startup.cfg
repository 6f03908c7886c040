SPECIFICATION FairSpec
CONSTANTS
    Commands <- MCCommands
    Invocations <- MCInvocations
    RAW_MAX = 2
    StdioMax = 3
    OutputMax = 2
    MaxBytes = 3
    MaxWrites = 1
    MaxServices = 2
    MaxSerial = 2
INVARIANTS TypeOK GivesUpForAReason DriverChosen Closed
PROPERTIES TtyKeepsPromise TtyDataArrives Exits
