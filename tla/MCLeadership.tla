---------------------------- MODULE MCLeadership ----------------------------
(***************************************************************************)
(* Two members and two leases, for TLC.  View drops what no later step     *)
(* reads: the times of a lease that is closed, and of one etcd has ended.  *)
(***************************************************************************)
EXTENDS Leadership, TLC

Symmetry == Permutations(Member)

View ==
    <<now, key, campaigns, renewals,
      [l \in 1 .. Len(leases) |->
         [leases[l] EXCEPT !.deadline = IF leases[l].live /\ @ >= now THEN @ ELSE 0,
                           !.expire = IF @ >= now THEN @ ELSE ZeroTime]]>>

=============================================================================
