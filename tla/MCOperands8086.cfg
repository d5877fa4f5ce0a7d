SPECIFICATION Spec
CONSTANTS
    Contents <- MCContents
    Instructions <- MCInstructions
    Starts <- MCStarts
    Follows <- MCFollows
INVARIANTS
    ResultsDepartWhereKnown
    FlagsDepartWhereKnown
    TransfersDepartWhereKnown
    TraceDepartsWhereKnown
    JumpsCompareOperands
    ChainsCompute
CHECK_DEADLOCK FALSE
