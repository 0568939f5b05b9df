---------------------------- MODULE MCOperators ----------------------------
(* One region, four stores, two heartbeat streams.  The region starts with a  *)
(* replica too few, as many as it should have, or one too many.               *)
EXTENDS Operators, TLC

Sets == {ss \in SUBSET Stores : Cardinality(ss) >= 2}
Symmetry == Permutations(Dispatchers) \cup Permutations(Stores)
=============================================================================
