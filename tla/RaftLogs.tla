------------------------------ MODULE RaftLogs ------------------------------
(***************************************************************************)
(* Logs and commit indexes. `ll[t]' is the log of the leader of term t, as *)
(* far as it grew while the leader was in office. The specification does   *)
(* not store it; the invariant says that such logs exist, and each step    *)
(* gives the ones that exist after it.                                     *)
(***************************************************************************)
EXTENDS RaftBasics

LeaderLogs == [Nat -> Seq(Entry)]

\* Two logs carry the same terms and payloads up to n.  Entry types are lost on
\* the wire.
Same(a, b, n) ==
    /\ n <= Len(a) /\ n <= Len(b)
    /\ \A k \in 1 .. n : a[k].term = b[k].term /\ a[k].data = b[k].data

\* Up to each of its entries the log is that of the leader of the entry's term.
OfLeaders(log, ll) == \A k \in 1 .. Len(log) : Same(log, ll[log[k].term], k)

Has(log, c, t) == c \in 1 .. Len(log) /\ log[c].term = t

\* A MsgAppend that was cut out of the log.
Fragment(m, log) ==
    /\ m.index + Len(m.entries) <= Len(log)
    /\ m.logTerm = TermAt(log, m.index)
    /\ \A k \in 1 .. Len(m.entries) :
           /\ m.entries[k].term = log[m.index + k].term
           /\ m.entries[k].data = log[m.index + k].data

Accepts(m) == m.mtype = "MsgAppendResponse" /\ ~m.reject

\* By m its sender v tells that it holds the leader's log of term t up to c:
\* a follower's answer, or the leader's own MsgAppend.
Covers(m, v, c, t) ==
    /\ m.from = v /\ m.term = t
    /\ \/ Accepts(m) /\ c <= m.index
       \/ m.mtype = "MsgAppend" /\ c <= m.index + Len(m.entries)

Acked(v, c, t, msgs) == \E m \in msgs : Covers(m, v, c, t)

\* A majority has left term t without holding entry c of its leader, so that
\* the leader can never commit it.
Blocked(c, t, nw, hs) ==
    \E Q \in SUBSET Server :
        IsMajority(Q) /\ \A u \in Q : hs[u].term > t /\ ~Acked(u, c, t, nw)

\* A majority holds entry c, appended by the leader of term t in that term.
Chosen(c, t, ll, nw) ==
    /\ Has(ll[t], c, t)
    /\ \E Q \in SUBSET Server : IsMajority(Q) /\ \A u \in Q : Acked(u, c, t, nw)

\* The commit index c of a log in a term is covered by a chosen entry.
CommitIn(log, c, term, ll, nw) ==
    \/ c = 0
    \/ \E t \in 0 .. term, k \in Nat :
           c <= k /\ Chosen(k, t, ll, nw) /\ Same(log, ll[t], c)

\* What v acknowledged is still in the log, unless it can never be committed.
AckKept(v, msgs, log, ll, nw, hs) ==
    \A t \in Nat, c \in Nat : Has(ll[t], c, t) /\ Acked(v, c, t, msgs) =>
        Has(log, c, t) \/ Blocked(c, t, nw, hs)

\* A vote request of i that announces a log not behind entry c of term t.
Asks(q, i, term, c, t) ==
    /\ IsRequest(q) /\ q.from = i /\ q.term = term
    /\ \/ q.logTerm > t
       \/ q.logTerm = t /\ q.index >= c

\* Whoever got a vote of u announced a log not behind what u acknowledged in
\* an earlier term, before or after the vote.
VoteInformed(u, sent, ll, nw, hs) ==
    \A g \in sent : Granted(g) =>
        \A t \in Nat, c \in Nat :
            t < g.term /\ Has(ll[t], c, t) /\ Acked(u, c, t, sent) =>
                \/ \E q \in nw : Asks(q, g.to, g.term, c, t)
                \/ Blocked(c, t, nw, hs)

MsgLogOK(m, ll, nw) ==
    /\ m.mtype = "MsgAppend" =>
           /\ Fragment(m, ll[m.term])
           /\ CommitIn(ll[m.term], m.commit, m.term, ll, nw)
           /\ m.commit <= m.index + Len(m.entries)
    /\ Accepts(m) =>
           /\ m.index <= Len(ll[m.term])
           /\ \E a \in nw : a.mtype = "MsgAppend" /\ Covers(a, a.from, m.index, m.term)

\* A candidate has not been elected in its term, and its requests describe its
\* log.
CandidateOK(i, r, sent, el) ==
    r.State = "StateCandidate" =>
        /\ Elected(i, r.Term) \notin el
        /\ \A q \in sent : IsRequest(q) /\ q.term = r.Term =>
               q.index = Len(r.log) /\ q.logTerm = LastTerm(r.log)

\* A leader's progress table holds what its followers acknowledged.
LeaderOK(i, r, ll, nw) ==
    r.State = "StateLeader" =>
        /\ r.log = ll[r.Term]
        /\ r.match[i] <= Len(r.log)
        /\ \A j \in Server \ {i} :
               r.match[j] = 0 \/ Acked(j, r.match[j], r.Term, nw)

\* What holds of a node in every role.
BaseLogOK(i, r, ll, nw, hs) ==
    /\ OfLeaders(r.log, ll)
    /\ r.Term >= hs[i].term
    /\ r.committed >= hs[i].commit
    /\ \A m \in r.msgs : m.term >= hs[i].term /\ MsgLogOK(m, ll, nw)
    /\ AckKept(i, Sent(i, r, nw), r.log, ll, nw, hs)
    /\ VoteInformed(i, Sent(i, r, nw), ll, nw, hs)
    /\ CommitIn(r.log, r.committed, r.Term, ll, nw)

NodeLogOK(i, r, ll, nw, hs, el) ==
    /\ BaseLogOK(i, r, ll, nw, hs)
    /\ CandidateOK(i, r, Sent(i, r, nw), el)
    /\ LeaderOK(i, r, ll, nw)

StableLogOK(i, log, ll, nw, hs) ==
    /\ OfLeaders(log, ll)
    /\ AckKept(i, nw, log, ll, nw, hs)
    /\ CommitIn(log, hs[i].commit, hs[i].term, ll, nw)

\* The leaders' logs: a leader has every entry of an earlier leader that may
\* still be committed.
LeaderLogsOK(ll, nw, hs, el) ==
    \A t \in Nat :
        /\ OfLeaders(ll[t], ll)
        /\ LogUpTo(ll[t], t)
        /\ ll[t] # << >> <=> \E e \in el : e.term = t
        /\ ll[t] # << >> => \A s \in 0 .. t - 1, c \in Nat :
               Has(ll[s], c, s) => Has(ll[t], c, s) \/ Blocked(c, s, nw, hs)

\* The leaders' logs explain the logs and commit indexes of a group.
GroupLogOK(ll, nodes, logs, nw, hs, el) ==
    /\ ll \in LeaderLogs
    /\ LeaderLogsOK(ll, nw, hs, el)
    /\ \A i \in Server : NodeLogOK(i, nodes[i], ll, nw, hs, el)
    /\ \A i \in Server : StableLogOK(i, logs[i], ll, nw, hs)
    /\ \A m \in nw : MsgLogOK(m, ll, nw)

Grown(a, b) == Len(a) <= Len(b) /\ \A k \in 1 .. Len(a) : b[k] = a[k]

-----------------------------------------------------------------------------
(* Steps *)

Extends(ll, lm) == \A t \in Nat : Grown(ll[t], lm[t])

Later(nw, nx, hs, ht) ==
    /\ nw \subseteq nx
    /\ \A u \in Server : hs[u].term <= ht[u].term
    /\ \A m \in nx \ nw : m.term >= hs[m.from].term

\* Messages that neither replicate nor acknowledge entries.
Aside(m) == m.mtype # "MsgAppend" /\ ~Accepts(m)

\* No vote, no request for votes either.
Silent(m) == Aside(m) /\ ~Granted(m) /\ ~IsRequest(m)

\* A step from r to n makes no leader.
SameLeader(r, n) ==
    n.State = "StateLeader" => r.State = "StateLeader" /\ n.Term = r.Term

=============================================================================
