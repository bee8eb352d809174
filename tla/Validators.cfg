CONSTANTS
    LimitValues <- MCLimitValues
    MaxListLen <- MCMaxListLen
    OldAttempts <- MCOldAttempts
SPECIFICATION Spec
\* Each behaviour is one call of a method that returns; nothing follows it.
CHECK_DEADLOCK FALSE
INVARIANTS
    TypeOK
    AcceptsExactlySchema
    ReportsEachViolatedField
    DecodeReplaces
