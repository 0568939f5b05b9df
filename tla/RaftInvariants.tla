--------------------------- MODULE RaftInvariants ---------------------------
(***************************************************************************)
(* The inductive invariants behind the safety properties of Raft: election *)
(* safety, and the agreement of logs and commit indexes.                   *)
(***************************************************************************)
EXTENDS Raft, RaftElections, RaftLogs

ElectionInv ==
    /\ TypeOK
    /\ \A i \in Server : NodeOK(i, raft[i], network, elections)
    /\ \A i \in Server : StableOK(i, hardState[i], stableLog[i], network, elections)
    /\ \A m \in network : MessageOK(m, network, elections)
    /\ \A i \in Server : \A m \in raft[i].msgs : MessageOK(m, network, elections)
    /\ \A e \in elections : ElectionOK(e, network)

\* The election invariant and what follows from it.
GroupInv == ElectionInv /\ OneLeader(elections)

LogInv(ll) == GroupLogOK(ll, raft, stableLog, network, hardState, elections)

LogSafe == \E ll \in LeaderLogs : LogInv(ll)

-----------------------------------------------------------------------------
(* A group of one member: nothing is ever sent, and the saved log is a prefix
   of the log in memory, which only grows. *)

SingleOK(i, r) ==
    /\ r.msgs = {}
    /\ Grown(stableLog[i], r.log)
    /\ hardState[i].commit <= r.committed
    /\ hardState[i].commit <= Len(stableLog[i])
    /\ r.committed <= Len(r.log)

SingleInv ==
    /\ network = {}
    /\ \A i \in Server : SingleOK(i, raft[i])

-----------------------------------------------------------------------------
(* What groups of both kinds guarantee of logs and commit indexes *)

LogsAgree ==
    /\ LogMatching
    /\ LeaderCompleteness
    /\ \A i \in Server :
           /\ hardState[i].commit <= raft[i].committed
           /\ Same(stableLog[i], raft[i].log, hardState[i].commit)
    /\ \A i, j \in Server : \A n \in 0 .. hardState[i].commit :
           n <= hardState[j].commit => Same(stableLog[i], stableLog[j], n)

=============================================================================
