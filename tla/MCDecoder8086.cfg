SPECIFICATION Spec
CONSTANTS
    Omissions = {{}, {"aam", "aad", "mov"}}
    Streams <- MCStreams
    Executions <- MCExecutions
INVARIANTS
    TableFindsEncoding
    DecodesAsManual
    AcceptedWhereLegal
    ClocksDepartWhereKnown
CHECK_DEADLOCK FALSE
