----------------------------- MODULE Leadership -----------------------------
(***************************************************************************)
(* The leadership of the scheduler: Server.leaderLoop and campaignLeader   *)
(* over member/leader.go and member/lease.go.                              *)
(*                                                                         *)
(* The members share etcd, which keeps the leader key and leases, and a    *)
(* clock that runs at the same speed for everyone: leases are measured     *)
(* with the monotonic clock.  A request to etcd takes up to MaxDelay; its  *)
(* start is chosen when etcd handles it.                                   *)
(***************************************************************************)
EXTENDS Integers, Sequences, FiniteSets

CONSTANTS Member,    \* the scheduler servers
          None,      \* no member: the leader key does not exist
          TTL,       \* Config.LeaderLease
          MaxDelay,  \* the longest way of a request to etcd
          MaxNow,    \* the time at which the model stops
          MaxLease,  \* leases granted in all
          MaxRenewal \* answers of KeepAliveOnce on their way

ASSUME LeadershipAssumption ==
    /\ None \notin Member
    /\ TTL \in Nat \ {0}
    /\ {MaxDelay, MaxNow, MaxLease, MaxRenewal} \subseteq Nat

VARIABLES
    now,       \* the time
    key,       \* the leader key: who put it, with which lease
    leases,    \* leases[l]: a lease in etcd and the LeaderLease that uses it; its
               \* phase is that of LeaderLease
    campaigns, \* campaigns[m]: where member m is in leaderLoop
    renewals   \* answers of KeepAliveOnce on their way: [lease, start]

vars == <<now, key, leases, campaigns, renewals>>

\* time.Time{}: every time of the model is after it.
ZeroTime == -MaxDelay - 1

NoKey == [member |-> None, lease |-> 0]

Init ==
    /\ now = 0
    /\ key = NoKey
    /\ leases = << >>
    /\ campaigns = [m \in Member |-> [phase |-> "check", lease |-> 0]]
    /\ renewals = {}

-----------------------------------------------------------------------------
(* etcd *)

Tick ==
    /\ now < MaxNow
    /\ now' = now + 1
    /\ UNCHANGED <<key, leases, campaigns, renewals>>

KeyWithout(l) == IF key.lease = l THEN NoKey ELSE key

\* etcd ends a lease some time after its deadline, and with it the key.
EndLease(l) ==
    /\ leases[l].live
    /\ now > leases[l].deadline
    /\ leases' = [leases EXCEPT ![l].live = FALSE, ![l].phase = "lost"]
    /\ key' = KeyWithout(l)
    /\ UNCHANGED <<now, campaigns, renewals>>

-----------------------------------------------------------------------------
(* member/lease.go *)

\* Mutant of ExpireTime: measured from the answer, not from the request.
ExpireTimeFromAnswer(start) == now + TTL

ExpireTime(start) == start + TTL

\* time.Now().After(expireTime)
IsExpired(l) == now > leases[l].expire

\* KeepAliveOnce, sent by keepAliveWorker, reaches etcd.
Renew(l, start) ==
    /\ Cardinality(renewals) < MaxRenewal
    /\ leases[l].live
    /\ leases[l].phase = "won"
    /\ leases' = [leases EXCEPT ![l].deadline = now + TTL]
    /\ renewals' = renewals \cup {[lease |-> l, start |-> start]}
    /\ UNCHANGED <<now, key, campaigns>>

\* KeepAlive takes an answer from timeCh.  Its select may prefer timeCh to a
\* context that is cancelled, so this also happens after Close.
StoreRenewal(r) ==
    LET expire == ExpireTime(r.start) IN
    /\ leases' = IF expire > leases[r.lease].maxExpire
                 THEN [leases EXCEPT ![r.lease].maxExpire = expire,
                                     ![r.lease].expire = expire]
                 ELSE leases
    /\ renewals' = renewals \ {r}
    /\ UNCHANGED <<now, key, campaigns>>

\* The answer is lost, or comes after KeepAlive has returned.
LoseRenewal(r) ==
    /\ renewals' = renewals \ {r}
    /\ UNCHANGED <<now, key, leases, campaigns>>

-----------------------------------------------------------------------------
(* Server.leaderLoop *)

Enter(m, phase) == campaigns' = [campaigns EXCEPT ![m].phase = phase]

\* CheckLeader deletes the key if it is the member's own.  WatchLeader then
\* waits until the key is deleted or the watch is cancelled.
CheckLeader(m) ==
    /\ campaigns[m].phase = "check"
    /\ key' = IF key.member = m THEN NoKey ELSE key
    /\ Enter(m, "campaign")
    /\ UNCHANGED <<now, leases, renewals>>

\* Another member is etcd's leader, or no lease is granted: check again.
SkipCampaign(m) ==
    /\ campaigns[m].phase = "campaign"
    /\ Enter(m, "check")
    /\ UNCHANGED <<now, key, leases, renewals>>

\* LeaderLease.Grant
Grant(m, start) ==
    /\ campaigns[m].phase = "campaign"
    /\ Len(leases) < MaxLease
    /\ leases' = Append(leases, [member |-> m, live |-> TRUE,
                                 deadline |-> now + TTL,
                                 expire |-> ExpireTime(start),
                                 maxExpire |-> ZeroTime, phase |-> "granted"])
    /\ campaigns' = [campaigns EXCEPT ![m] = [phase |-> "granted",
                                              lease |-> Len(leases) + 1]]
    /\ UNCHANGED <<now, key, renewals>>

\* The condition of the transaction: the key does not exist.  etcd refuses a
\* put with a lease that has ended.
CampaignWins(l) == key = NoKey /\ leases[l].live

\* Member.CampaignLeader.  If the answer is an error the transaction may have
\* been executed all the same.  The winner starts KeepAlive.
CampaignLeader(m, answered) ==
    LET l == campaigns[m].lease
        won == CampaignWins(l) /\ answered
    IN
    /\ campaigns[m].phase = "granted"
    /\ key' = IF CampaignWins(l) THEN [member |-> m, lease |-> l] ELSE key
    /\ Enter(m, IF won THEN "elected" ELSE "close")
    /\ leases' = [leases EXCEPT ![l].phase = IF won THEN "won" ELSE @]
    /\ UNCHANGED <<now, renewals>>

\* campaignLeader leaves its loop: the lease is expired, etcd's leader has
\* changed, the timestamp could not be saved or the server is closed.
Resign(m) ==
    /\ campaigns[m].phase = "elected"
    /\ Enter(m, "close")
    /\ UNCHANGED <<now, key, leases, renewals>>

\* LeaderLease.Close, after the context of KeepAlive is cancelled; revoking
\* the lease may fail.
Close(m, revoked) ==
    LET l == campaigns[m].lease IN
    /\ campaigns[m].phase = "close"
    /\ leases' = [leases EXCEPT ![l].expire = ZeroTime,
                                ![l].phase = IF @ = "won" THEN "closed" ELSE "lost",
                                ![l].live = @ /\ ~revoked]
    /\ key' = IF revoked THEN KeyWithout(l) ELSE key
    /\ Enter(m, "check")
    /\ UNCHANGED <<now, renewals>>

\* The process ends and is started again.
Crash(m) ==
    /\ campaigns' = [campaigns EXCEPT ![m] = [phase |-> "check", lease |-> 0]]
    /\ leases' = [l \in 1 .. Len(leases) |->
                    IF leases[l].member = m
                    THEN [leases[l] EXCEPT !.phase = "lost", !.expire = ZeroTime]
                    ELSE leases[l]]
    /\ renewals' = {r \in renewals : leases[r.lease].member # m}
    /\ UNCHANGED <<now, key>>

Next ==
    \/ Tick
    \/ \E l \in 1 .. Len(leases) : EndLease(l)
    \/ \E l \in 1 .. Len(leases), d \in 0 .. MaxDelay : Renew(l, now - d)
    \/ \E r \in renewals : StoreRenewal(r)
    \/ \E r \in renewals : LoseRenewal(r)
    \/ \E m \in Member : CheckLeader(m)
    \/ \E m \in Member : SkipCampaign(m)
    \/ \E m \in Member, d \in 0 .. MaxDelay : Grant(m, now - d)
    \/ \E m \in Member, answered \in BOOLEAN : CampaignLeader(m, answered)
    \/ \E m \in Member : Resign(m)
    \/ \E m \in Member, revoked \in BOOLEAN : Close(m, revoked)
    \/ \E m \in Member : Crash(m)

Spec == Init /\ [][Next]_vars

-----------------------------------------------------------------------------
(* Properties *)

Contract == INSTANCE LeaderLease WITH
    lease <- [l \in 1 .. Len(leases) |->
                [member |-> leases[l].member, valid |-> ~IsExpired(l),
                 phase |-> leases[l].phase]]

\* The lease and the campaign loop keep the promise that the timestamp oracle
\* rests on, although renewals overlap, answers are late or lost and a
\* campaign may win without knowing.
KeepsContract == Contract!LeaseSpec

=============================================================================
