----------------------------- MODULE RaftBasics -----------------------------
(***************************************************************************)
(* What the messages a node has sent say, and the facts about numbers,     *)
(* finite sets and Merge that the proofs about Raft rest on.               *)
(***************************************************************************)
EXTENDS RaftState

-----------------------------------------------------------------------------
(* Messages *)

Granted(m) == m.mtype = "MsgRequestVoteResponse" /\ ~m.reject

IsRequest(m) == m.mtype = "MsgRequestVote"

FromLeader(m) == m.mtype \in {"MsgAppend", "MsgHeartbeat"}

Elected(i, term) == [term |-> term, leader |-> i]

LogUpTo(log, term) == \A k \in 1 .. Len(log) : log[k].term <= term

Sent(i, r, nw) == {m \in nw : m.from = i} \cup r.msgs

-----------------------------------------------------------------------------
(* Facts about numbers, servers and logs *)

\* What the argument needs to know of numbers and of the finite set of servers:
\* a set of numbers has a least one, majorities meet, and some member has the
\* largest of any numbers.
SetFacts ==
    /\ \A S \in SUBSET Nat : S # {} => \E x \in S : \A y \in S : x <= y
    /\ Single => \A i, j \in Server : i = j
    /\ \A f \in [Server -> Nat] : \E i \in Server : \A j \in Server : f[j] <= f[i]
    /\ \A P, Q \in SUBSET Server :
           IsMajority(P) /\ IsMajority(Q) => \E j \in Server : j \in P /\ j \in Q
    /\ \A P, Q \in SUBSET Server : IsMajority(P) /\ P \subseteq Q => IsMajority(Q)
    /\ \A i \in Server, Q \in SUBSET Server :
           IsMajority(Q) /\ ~Single => \E j \in Q : j # i
    /\ \A r \in Node :
           /\ medianMatch(r) \in {r.match[j] : j \in Server}
           /\ medianMatch(r) \in Nat
           /\ IsMajority({j \in Server : r.match[j] >= medianMatch(r)})

\* The log after the loop of handleAppendEntries: unchanged, or cut before the
\* first new entry k that is missing or of another term, and continued with the
\* new entries.
MergeIs(log, prev, entries, new) ==
    \/ /\ new = log
       /\ prev + Len(entries) <= Len(log)
       /\ \A k \in 1 .. Len(entries) : log[prev + k].term = entries[k].term
    \/ \E k \in 1 .. Len(entries) :
          /\ new \in Seq(Entry)
          /\ Len(new) = prev + Len(entries)
          /\ prev + k - 1 <= Len(log)
          /\ \A j \in 1 .. prev + k - 1 : new[j] = log[j]
          /\ \A j \in prev + k .. Len(new) : new[j] = entries[j - prev]
          /\ prev + k > Len(log) \/ log[prev + k].term # entries[k].term
          /\ \A l \in 1 .. k - 1 : log[prev + l].term = entries[l].term

MergeFacts ==
    \A log \in Seq(Entry), entries \in Seq(Entry) : \A prev \in 0 .. Len(log) :
        MergeIs(log, prev, entries, Merge(log, prev, entries))

=============================================================================
