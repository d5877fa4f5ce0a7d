SPECIFICATION CallsSpec
CONSTANTS
    CodeBytes = 4
    Program <- MCRegisterProgram
    StackWords = 4
    Loaded = {0, 1}
    EffectiveOffsets = {8}
    ComputedFlags <- MCComputedFlags
    ComputedCounts = {1}
    ScanStops = {0}
INVARIANT AssertsHold
CHECK_DEADLOCK FALSE
