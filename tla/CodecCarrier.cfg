SPECIFICATION Spec
CONSTANTS
    Codes <- MCOtherCarriers
    Words = {}
    OUT_MAX = 512
    HEX_MAX = 1025
    DEBUG_MAX = 1024
    RP_MAX_PULSES = 128
INVARIANT DurationsKept
