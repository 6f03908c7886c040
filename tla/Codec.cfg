SPECIFICATION Spec
CONSTANTS
    Codes <- MCCodes
    Words <- MCWords
    OUT_MAX = 512
    HEX_MAX = 1025
    DEBUG_MAX = 1024
    RP_MAX_PULSES = 128
INVARIANTS TypeOK UndefinedOnly CommandTrue Checked PastedAgain DurationsKept
