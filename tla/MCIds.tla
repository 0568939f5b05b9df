------------------------------- MODULE MCIds -------------------------------
(* Three members, ranges of two ids, up to five ranges: a member can hold a   *)
(* rest of an old range while others reserve, fail and reserve again.        *)
EXTENDS IdAllocator, TLC

CONSTANTS m1, m2, m3

MCMembers == {m1, m2, m3}
Symmetry == Permutations(MCMembers)
=============================================================================
