SPECIFICATION Spec
CONSTANTS
    USM_AGG_MAX = 12
    RR_MAX_PULSES = 2
    UIRT_UIR_CODE_LEN = 3
    IrCodes <- MCShortCodes
    MaxCodes = 1
    Quiet = FALSE
    Apart = FALSE
    Commands = {56}
    Frequencies <- MCFrequencies
    Faults = {}
    Toggle = FALSE
    AnyCut = FALSE
    MaxRead = 8
    MaxCmds = 1
    MaxShown = 0
PROPERTIES ReplyPassedThrough
