SPECIFICATION Spec
CONSTANTS
    USM_AGG_MAX = 12
    RR_MAX_PULSES = 2
    UIRT_UIR_CODE_LEN = 3
    IrCodes <- MCShortCodes
    MaxCodes = 2
    Quiet = FALSE
    Apart = FALSE
    Commands = {1, 33, 35, 36}
    Frequencies <- MCFrequencies
    Faults = {"alloc", "write"}
    Toggle = TRUE
    AnyCut = FALSE
    MaxRead = 8
    MaxCmds = 2
    MaxShown = 0
INVARIANT AggResidue
