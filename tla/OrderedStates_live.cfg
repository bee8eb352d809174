\* Liveness and refinement: no SYMMETRY, which TLC does not support soundly
\* for temporal properties.
CONSTANTS
    a = a
    b = b
    c = c
    NoName = NoName
    Names <- MCNames
SPECIFICATION FairSpec
\* OrderedStates returns; the run ends in the returned state.
CHECK_DEADLOCK FALSE
PROPERTY
    RefinesContract
