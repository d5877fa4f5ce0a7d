SPECIFICATION CallsSpec
CONSTANTS
    CodeBytes = 18
    Program <- MCProgram
    StackWords = 4
    Loaded = {0, 1}
    EffectiveOffsets = {8, 65535}
    ComputedFlags <- MCComputedFlags
    ComputedCounts = {1}
    ScanStops = {0}
INVARIANTS PrefixesAgree TraceIsGapless StackHoldsEntries
PROPERTY ImplementsCallStack
CHECK_DEADLOCK FALSE
VIEW Live
CONSTRAINT Followed
