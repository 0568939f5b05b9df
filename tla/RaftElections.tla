--------------------------- MODULE RaftElections ----------------------------
(***************************************************************************)
(* Elections: what holds of one node, of what it has saved, of one message *)
(* or of one election, each time relative to the messages `nw' on the      *)
(* network and the elections `el'; both only grow.                         *)
(***************************************************************************)
EXTENDS RaftBasics

\* A vote cast in the current term is remembered.
VoteKept(sent, term, vote) ==
    \A m \in sent : Granted(m) /\ m.term = term => vote = m.to

\* A node that asked for votes in the current term has its own vote, or has
\* won and the no-op of the term ends its log.
CandidacyKept(i, sent, term, vote, log, el) ==
    \A m \in sent : IsRequest(m) /\ m.term = term =>
        \/ vote = i
        \/ LastTerm(log) = term /\ Elected(i, term) \in el

VotedFor(j, i, term, nw) ==
    \E m \in nw : Granted(m) /\ m.from = j /\ m.to = i /\ m.term = term

Requested(i, term, nw) ==
    \E m \in nw : IsRequest(m) /\ m.from = i /\ m.term = term

NodeOK(i, r, nw, el) ==
    LET sent == Sent(i, r, nw) IN
    /\ LogUpTo(r.log, r.Term)
    /\ \A m \in r.msgs : m.from = i
    /\ \A m \in sent : m.term <= r.Term
    /\ VoteKept(sent, r.Term, r.Vote)
    /\ CandidacyKept(i, sent, r.Term, r.Vote, r.log, el)
    /\ \A m, q \in sent :
           Granted(m) /\ Granted(q) /\ m.term = q.term => m.to = q.to
    /\ \A m \in sent : Granted(m) => Elected(i, m.term) \notin el
    /\ r.State = "StateCandidate" =>
           /\ r.Vote = i
           /\ \A j \in r.granted \ {i} : VotedFor(j, i, r.Term, nw)
    /\ r.State = "StateLeader" => Elected(i, r.Term) \in el
    /\ r.Lead # None => Elected(r.Lead, r.Term) \in el

StableOK(i, hs, log, nw, el) ==
    LET sent == {m \in nw : m.from = i} IN
    /\ LogUpTo(log, hs.term)
    /\ \A m \in sent : m.term <= hs.term
    /\ VoteKept(sent, hs.term, hs.vote)
    /\ CandidacyKept(i, sent, hs.term, hs.vote, log, el)

MessageOK(m, nw, el) ==
    /\ m.from # m.to
    /\ IsRequest(m) => m.logTerm < m.term
    /\ Granted(m) => Requested(m.to, m.term, nw)
    /\ FromLeader(m) => Elected(m.from, m.term) \in el
    /\ m.mtype = "MsgAppend" => LogUpTo(m.entries, m.term)

ElectionOK(e, nw) ==
    /\ \E Q \in SUBSET Server :
           /\ IsMajority(Q)
           /\ \A j \in Q \ {e.leader} : VotedFor(j, e.leader, e.term, nw)
    /\ Single \/ Requested(e.leader, e.term, nw)

Good(i, r, nw, el) ==
    /\ NodeOK(i, r, nw, el)
    /\ \A m \in r.msgs : MessageOK(m, nw, el)

Elections == SUBSET [term : Nat, leader : Server]

\* ElectionSafety of a set of elections.
OneLeader(el) == \A e, f \in el : e.term = f.term => e.leader = f.leader

=============================================================================
