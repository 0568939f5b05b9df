----------------------------- MODULE CommittedLog -----------------------------
(***************************************************************************)
(* What a Raft group promises its clients: one sequence of committed       *)
(* entries that only ever grows at its end.                                *)
(***************************************************************************)
EXTENDS Sequences, Integers

VARIABLE chosen

Init == chosen = << >>

Next ==
    /\ Len(chosen') > Len(chosen)
    /\ SubSeq(chosen', 1, Len(chosen)) = chosen

Spec == Init /\ [][Next]_chosen

=============================================================================
