CONSTANTS
    a = a
    b = b
    c = c
    NoName = NoName
    Names <- MCNames
SYMMETRY MCSymmetry
SPECIFICATION Spec
\* OrderedStates returns: every behaviour ends once result is set.
CHECK_DEADLOCK FALSE
INVARIANT OrderRespectsNext
