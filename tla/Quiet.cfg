SPECIFICATION FairSpec
CONSTANTS
    USM_AGG_MAX = 32
    RR_MAX_PULSES = 2
    UIRT_UIR_CODE_LEN = 3
    IrCodes <- MCIrCodes
    MaxCodes = 2
    Quiet = TRUE
    Apart = TRUE
    Commands = {0, 32, 33, 35, 36, 56}
    Frequencies <- MCFrequencies
    Faults = {}
    Toggle = FALSE
    AnyCut = FALSE
    MaxRead = 9
    MaxCmds = 3
    MaxShown = 8
INVARIANTS TypeOK ReplyAwaited NothingUndefined Raw2Paired
PROPERTIES LinkImplemented EverythingShown CallbackReturns
