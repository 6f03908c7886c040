SPECIFICATION FairSpec
CONSTANTS
    Packets <- MCPackets
    Commands <- MCCommands
    CHUNK = 2
    Faults = {"prime", "rearm", "read", "write"}
    MaxPackets = 3
    MaxWrites = 1
    MaxFailed = 2
INVARIANTS TypeOK DataInOrder WholeOrError
PROPERTIES ListensOn DataArrives UsbKeepsPromise
