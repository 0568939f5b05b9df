---------------------------- MODULE MCReplication ----------------------------
(***************************************************************************)
(* A leader of term 3 and a follower whose logs hold up to two entries of  *)
(* terms 1 and 2 each, and differ in every way an election can leave them. *)
(***************************************************************************)
EXTENDS Replication

E1 == [term |-> 1, data |-> NoData, type |-> "EntryNormal"]

E2 == [term |-> 2, data |-> NoData, type |-> "EntryNormal"]

OldLogs == {<< >>, <<E1>>, <<E2>>, <<E1, E1>>, <<E1, E2>>, <<E2, E2>>}

=============================================================================
