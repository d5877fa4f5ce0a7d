SPECIFICATION SeriesSpec
CONSTANTS
    Tests = 4
    Rows = 2
    Cols = 2
    MaxRows = 3
    TryRenewFor = 2
    LargestTicks = 9
    Target <- MCTarget
    BlockTicks <- MCBlockTicks
    LongestBlock = 2
    OtherTicks <- MCOtherTicks
    LongestRest = 1
    BlockFaults <- MCBlockFaults
INVARIANTS
    TimesAddUp
    UnitsAddUp
    CrashNeedsError
    RunIsBounded
    TableIsAsReported
