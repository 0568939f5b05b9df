----------------------------- MODULE LeaderLease -----------------------------
(***************************************************************************)
(* What the scheduler's leadership promises, without time: a member that   *)
(* has won the leader key and finds its lease unexpired still has the key, *)
(* so no other member has won since.                                       *)
(*                                                                         *)
(* Of a lease that was closed it promises less: an answer of KeepAliveOnce *)
(* that is stored late makes it look unexpired again, but not once etcd    *)
(* has ended it for its age.                                               *)
(***************************************************************************)
EXTENDS Integers, Sequences, FiniteSets

CONSTANTS Member,  \* the scheduler servers
          None     \* no member: the leader key does not exist

ASSUME MemberAssumption == None \notin Member

VARIABLES
    key,   \* the leader key in etcd: who put it, with which lease
    lease  \* lease[l]: a LeaderLease, whether it looks unexpired (valid), and
           \* whether its member was granted it, has won with it, has closed it
           \* since, or can do nothing with it any more (phase)

leaseVars == <<key, lease>>

NoKey == [member |-> None, lease |-> 0]

LeaseInit ==
    /\ key = NoKey
    /\ lease = << >>

\* LeaderLease.Grant
Grant(m) ==
    /\ lease' = Append(lease, [member |-> m, valid |-> TRUE, phase |-> "granted"])
    /\ UNCHANGED key

\* The transaction of Member.CampaignLeader puts the key; if its answer is an
\* error the member does not know.
Win(l, answered) ==
    /\ key = NoKey
    /\ lease[l].phase = "granted"
    /\ key' = [member |-> lease[l].member, lease |-> l]
    /\ lease' = [lease EXCEPT ![l].phase = IF answered THEN "won" ELSE @]

KeyWithout(l) == IF key.lease = l THEN NoKey ELSE key

\* LeaderLease.Close; revoking the lease may fail.
CloseLease(l, revoked) ==
    /\ lease' = [lease EXCEPT ![l].valid = FALSE,
                              ![l].phase = IF @ = "won" THEN "closed" ELSE "lost"]
    /\ key' = IF revoked THEN KeyWithout(l) ELSE key

\* Time passes; LeaderLease.IsExpired.
Lapse(S) ==
    /\ S # {}
    /\ lease' = [l \in 1 .. Len(lease) |->
                   IF l \in S THEN [lease[l] EXCEPT !.valid = FALSE] ELSE lease[l]]
    /\ UNCHANGED key

\* LeaderLease.KeepAlive stores a later expiry.
Extend(l) ==
    /\ \/ lease[l].phase = "closed"
       \/ lease[l].phase = "won" /\ key.lease = l
    /\ lease' = [lease EXCEPT ![l].valid = TRUE]
    /\ UNCHANGED key

\* etcd ends a lease for its age, and with it the key.
EndLease(l) ==
    /\ lease[l].phase \in {"won", "closed"} => ~lease[l].valid
    /\ lease' = [lease EXCEPT ![l].phase = "lost"]
    /\ key' = KeyWithout(l)

\* Mutant of DeleteKey: whoever has put the key.
DeleteKeyBlindly ==
    /\ key # NoKey
    /\ key' = NoKey
    /\ UNCHANGED lease

\* Member.CheckLeader deletes a key that was left by an earlier campaign.
DeleteKey ==
    /\ key # NoKey
    /\ lease[key.lease].phase # "won"
    /\ key' = NoKey
    /\ UNCHANGED lease

\* The process of a member ends.
Crash(m) ==
    /\ lease' = [l \in 1 .. Len(lease) |->
                   IF lease[l].member = m
                   THEN [member |-> m, valid |-> FALSE, phase |-> "lost"]
                   ELSE lease[l]]
    /\ UNCHANGED key

LeaseNext ==
    \/ \E m \in Member : Grant(m)
    \/ \E l \in 1 .. Len(lease), answered \in BOOLEAN : Win(l, answered)
    \/ \E l \in 1 .. Len(lease), revoked \in BOOLEAN : CloseLease(l, revoked)
    \/ \E S \in SUBSET (1 .. Len(lease)) : Lapse(S)
    \/ \E l \in 1 .. Len(lease) : Extend(l)
    \/ \E l \in 1 .. Len(lease) : EndLease(l)
    \/ DeleteKey
    \/ \E m \in Member : Crash(m)

LeaseSpec == LeaseInit /\ [][LeaseNext]_leaseVars

\* The lease of a leader guards the key: while a member that won finds its
\* lease unexpired, the key is still the one it put.
LeaseGuardsKey ==
    \A l \in 1 .. Len(lease) :
        lease[l].phase = "won" /\ lease[l].valid =>
            key = [member |-> lease[l].member, lease |-> l]

=============================================================================
