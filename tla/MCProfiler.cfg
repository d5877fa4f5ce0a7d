\* Four scopes, three of them open at a time: enough for a block open in
\* itself with another between.
SPECIFICATION Spec
CONSTANTS
    NBlocks = 3
    PfBlocks <- MCPfBlocks
    Calls <- MCCalls
    MaxDepth = 3
    MaxHits = 4
    MaxCounter = 2
INVARIANTS
    SharesAddUp
PROPERTIES
    ImplementsStopwatch
