------------------------- MODULE MC_OrderedStates -------------------------
(* Three state names as model values, the empty Next as a fourth one.     *)
EXTENDS OrderedStates, TLC

CONSTANTS a, b, c

MCNames == {a, b, c}

MCSymmetry == Permutations(MCNames)
=============================================================================
