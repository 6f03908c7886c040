SPECIFICATION Spec
CONSTANTS
    USM_AGG_MAX = 12
    RR_MAX_PULSES = 2
    UIRT_UIR_CODE_LEN = 3
    IrCodes <- MCRaw2Codes
    MaxCodes = 2
    Quiet = TRUE
    Apart = TRUE
    Commands = {36}
    Frequencies <- MCFrequencies
    Faults = {}
    Toggle = FALSE
    AnyCut = TRUE
    MaxRead = 8
    MaxCmds = 1
    MaxShown = 0
INVARIANTS Raw2Paired
