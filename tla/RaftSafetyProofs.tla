-------------------------- MODULE RaftSafetyProofs --------------------------
(***************************************************************************)
(* Safety of the group, for any number of servers and any payloads: logs   *)
(* match, leaders have every committed entry, what is applied agrees, and  *)
(* the group implements one committed log that only grows.  First that     *)
(* every step preserves the log invariant, and what that says of committed *)
(* and of saved entries.                                                   *)
(***************************************************************************)
EXTENDS RaftElectionProofs, RaftLogProofs

USE ZenonT(10), SMTT(30)

(* What the election invariant says of the types and of each node. *)
LEMMA GroupFacts ==
    ASSUME GroupInv
    PROVE  /\ raft \in [Server -> Node] /\ network \in SUBSET Message
           /\ hardState \in [Server -> HardState]
           /\ stableLog \in [Server -> Seq(Entry)] /\ elections \in Elections
           /\ OneLeader(elections) /\ SavedFirst(network, hardState)
           /\ \A m \in network : MessageOK(m, network, elections)
           /\ \A e \in elections : ElectionOK(e, network)
           /\ \A i \in Server :
                  /\ \A m \in Sent(i, raft[i], network) : m.term <= raft[i].Term
                  /\ raft[i].State = "StateLeader" => Elected(i, raft[i].Term) \in elections
                  /\ LogUpTo(raft[i].log, raft[i].Term)
<1>1. /\ raft \in [Server -> Node] /\ network \in SUBSET Message
      /\ hardState \in [Server -> HardState]
      /\ stableLog \in [Server -> Seq(Entry)] /\ elections \in Elections
  BY DEF GroupInv, ElectionInv, TypeOK, Elections
<1>2. /\ \A m \in network : MessageOK(m, network, elections)
      /\ \A e \in elections : ElectionOK(e, network)
      /\ OneLeader(elections)
  BY DEF GroupInv, ElectionInv
<1>3. SavedFirst(network, hardState)
  BY <1>1, MessageKinds DEF GroupInv, ElectionInv, StableOK, SavedFirst
<1> QED
  BY <1>1, <1>2, <1>3 DEF GroupInv, ElectionInv, NodeOK

(* A step of node i leaves a node behind. *)
LEMMA UpdatedNode ==
    ASSUME GroupInv, GroupInv', NEW i \in Server, NEW n, Update(i, n)
    PROVE  n \in Node
<1>1. raft \in [Server -> Node] /\ raft' \in [Server -> Node]
  BY DEF GroupInv, ElectionInv, TypeOK
<1> QED
  BY <1>1 DEF Update

(* A step of one node, given the leaders' logs after it. *)
LEMMA UpdateLog ==
    ASSUME GroupInv, NEW ll, LogInv(ll),
           NEW lm \in LeaderLogs, Extends(ll, lm),
           NEW i \in Server, NEW n \in Node, Update(i, n),
           NodeLogOK(i, n, lm, network, hardState, elections'),
           LeaderLogsOK(lm, network, hardState, elections'),
           \A j \in Server \ {i} :
               raft[j].State = "StateLeader" => lm[raft[j].Term] = ll[raft[j].Term]
    PROVE  LogInv(lm)'
<1>1. /\ raft \in [Server -> Node] /\ network \in SUBSET Message
      /\ hardState \in [Server -> HardState] /\ stableLog \in [Server -> Seq(Entry)]
  BY GroupFacts
<1>2. /\ \A j \in Server : raft'[j] = IF j = i THEN n ELSE raft[j]
      /\ \A e \in elections' \ elections : e.leader = i
      /\ UNCHANGED <<hardState, stableLog, network>>
  BY SMT, <1>1 DEF Update
<1>3. /\ ll \in LeaderLogs /\ \A m \in network : MsgLogOK(m, ll, network)
      /\ \A j \in Server : NodeLogOK(j, raft[j], ll, network, hardState, elections)
      /\ \A j \in Server : StableLogOK(j, stableLog[j], ll, network, hardState)
  BY DEF LogInv, GroupLogOK
<1>4. ASSUME NEW j \in Server
      PROVE  NodeLogOK(j, raft'[j], lm, network, hardState, elections')
  <2>1. CASE j = i
    BY <1>2, <2>1
  <2>2. CASE j # i
    <3>1. raft'[j] = raft[j] /\ raft[j] \in Node
      BY <1>1, <1>2, <2>2
    <3>2. Elected(j, raft[j].Term) \in elections' => Elected(j, raft[j].Term) \in elections
      BY SMT, <1>2, <2>2 DEF Elected
    <3> QED
      BY <1>1, <1>3, <2>2, <3>1, <3>2, NodeGrows
  <2> QED
    BY <2>1, <2>2
<1>5. \A j \in Server : StableLogOK(j, stableLog[j], lm, network, hardState)
  BY <1>1, <1>3, StableGrows
<1>6. \A m \in network : MsgLogOK(m, lm, network)
  BY <1>1, <1>3, MsgLogGrows
<1> QED
  BY <1>2, <1>4, <1>5, <1>6 DEF LogInv, GroupLogOK

(* A step that elects nobody and leaves the leaders' logs. *)
LEMMA StayLog ==
    ASSUME GroupInv, NEW ll, LogInv(ll), NEW i \in Server, NEW n \in Node,
           Update(i, n), NodeLogOK(i, n, ll, network, hardState, elections),
           n.State = "StateLeader" => Elected(i, n.Term) \in elections
    PROVE  LogInv(ll)'
<1>1. elections' = elections
  BY DEF Update, Elected
<1>2. ll \in LeaderLogs /\ LeaderLogsOK(ll, network, hardState, elections')
  BY <1>1 DEF LogInv, GroupLogOK
<1>3. Extends(ll, ll)
  BY SMT, <1>2, LeaderLogAt DEF Extends, Grown
<1> QED
  BY <1>1, <1>2, <1>3, UpdateLog

(* A step of the leader of a term that adds an entry of the term to its log,
   or the no-op with which it takes office. *)
LEMMA AppendedLog ==
    ASSUME ~Single, GroupInv, GroupInv', NEW ll, LogInv(ll),
           NEW i \in Server, NEW n \in Node, Update(i, n), n.State = "StateLeader",
           NEW e \in Entry, e.term = n.Term, n.log = Append(raft[i].log, e),
           raft[i].State = "StateLeader" \/ ll[n.Term] = << >>,
           n.Term = raft[i].Term, n.committed = raft[i].committed,
           n.match[i] = Len(n.log),
           \A j \in Server \ {i} : n.match[j] = 0 \/ Acked(j, n.match[j], n.Term, network),
           \A m \in n.msgs \ raft[i].msgs : CutFrom(m, i, n),
           \A s \in 0 .. n.Term - 1, c \in Nat :
               Has(ll[s], c, s) =>
                   Has(raft[i].log, c, s) \/ Blocked(c, s, network, hardState)
    PROVE  \E lm \in LeaderLogs : LogInv(lm)'
<1> DEFINE r == raft[i]
           T == n.Term
           lm == WithLog(ll, T, n.log)
<1>1. /\ raft \in [Server -> Node] /\ network \in SUBSET Message
      /\ hardState \in [Server -> HardState] /\ elections \in Elections
      /\ SavedFirst(network, hardState)
      /\ \A x \in elections : ElectionOK(x, network)
      /\ \A m \in Sent(i, r, network) : m.term <= r.Term
      /\ LogUpTo(r.log, r.Term)
  BY GroupFacts
<1>2. /\ ll \in LeaderLogs /\ \A m \in network : MsgLogOK(m, ll, network)
      /\ NodeLogOK(i, r, ll, network, hardState, elections)
      /\ LeaderLogsOK(ll, network, hardState, elections)
  BY DEF LogInv, GroupLogOK
<1>3. /\ r \in Node /\ r.log \in Seq(Entry) /\ n.log \in Seq(Entry) /\ T \in Nat
      /\ r.committed \in Nat
  BY <1>1 DEF Node
<1>4. /\ Len(n.log) = Len(r.log) + 1 /\ Len(r.log) \in Nat /\ n.log[Len(r.log) + 1] = e
      /\ \A k \in 1 .. Len(r.log) : n.log[k] = r.log[k]
  BY SMT, <1>3, AppendIs, SeqLen
<1>5. Grown(r.log, n.log) /\ n.log # << >>
  BY <1>4 DEF Grown
<1>6. Grown(ll[T], n.log)
  <2>1. CASE r.State = "StateLeader"
    BY <1>2, <1>5, <2>1 DEF NodeLogOK, LeaderOK
  <2>2. CASE ll[T] = << >>
    BY SMT, <1>4, <2>2 DEF Grown
  <2> QED
    BY <2>1, <2>2
<1>7. /\ lm \in LeaderLogs /\ Extends(ll, lm) /\ lm[T] = n.log
      /\ \A t \in Nat : t # T => lm[t] = ll[t]
  <2>1. ll \in LeaderLogs /\ n.log \in Seq(Entry) /\ T \in Nat
    BY <1>2, <1>3
  <2> QED
    BY ONLY ZenonT(30), <2>1, <1>6, LogPut
<1> HIDE DEF lm
<1>8. OfLeaders(r.log, ll)
  BY <1>2 DEF NodeLogOK, BaseLogOK
<1>9. OfLeaders(n.log, lm)
  BY <1>2, <1>3, <1>7, <1>8, AppendOfLeaders
<1>10. LogUpTo(n.log, T)
  <2> SUFFICES ASSUME NEW k \in 1 .. Len(n.log) PROVE n.log[k].term <= T
    BY DEF LogUpTo
  <2>1. CASE k = Len(r.log) + 1
    BY <1>3, <1>4, <2>1
  <2>2. CASE k # Len(r.log) + 1
    <3>1. k \in 1 .. Len(r.log)
      BY SMT, <1>4, <2>2
    <3> QED
      BY <1>1, <1>4, <3>1 DEF LogUpTo
  <2> QED
    BY <2>1, <2>2
<1>11. elections' = elections \cup {Elected(i, T)} /\ elections' \in Elections
  BY SMT, <1>1, <1>3 DEF Update, Elected, Elections
<1>12. \A s \in 0 .. T - 1, c \in Nat :
           Has(ll[s], c, s) => Has(n.log, c, s) \/ Blocked(c, s, network, hardState)
  <2>1. \A s, c : Has(r.log, c, s) => Has(n.log, c, s)
    BY SMT, <1>4 DEF Has
  <2> QED
    BY <2>1
<1>13. LeaderLogsOK(lm, network, hardState, elections')
  BY <1>1, <1>2, <1>3, <1>5, <1>6, <1>9, <1>10, <1>11, <1>12, LeaderLogsGrow DEF lm
<1>14. CommitIn(n.log, n.committed, T, lm, network) /\ n.committed <= Len(n.log)
  <2>1. CommitIn(r.log, r.committed, T, lm, network)
    BY <1>2, <1>3, <1>7, CommitInGrows DEF NodeLogOK, BaseLogOK
  <2>2. CASE r.committed = 0
    BY <1>4, <2>2 DEF CommitIn
  <2>3. CASE r.committed # 0
    <3>1. PICK t \in 0 .. T, k \in Nat :
              r.committed <= k /\ Chosen(k, t, lm, network) /\ Same(r.log, lm[t], r.committed)
      BY <2>1, <2>3 DEF CommitIn
    <3>2. Same(n.log, lm[t], r.committed)
      BY SMT, <1>3, <1>4, <3>1 DEF Same
    <3> QED
      BY <3>1, <3>2 DEF CommitIn, Same
  <2> QED
    BY <2>2, <2>3
<1>15. \A m \in n.msgs \ r.msgs : m.term = n.Term
  BY DEF CutFrom
<1>16. n.committed >= r.committed /\ n.match[i] <= Len(n.log)
  BY <1>3, <1>4
<1>17. NodeLogOK(i, n, lm, network, hardState, elections')
  BY <1>1, <1>2, <1>3, <1>5, <1>7, <1>9, <1>14, <1>15, <1>16, LeaderLog
<1>18. ASSUME NEW j \in Server \ {i}, raft[j].State = "StateLeader"
       PROVE  lm[raft[j].Term] = ll[raft[j].Term]
  <2>1. Elected(j, raft[j].Term) \in elections' /\ raft[j].Term \in Nat
    BY <1>1, <1>11, <1>18, GroupFacts DEF Node
  <2>2. OneLeader(elections')
    BY DEF GroupInv
  <2>3. raft[j].Term # T
    BY <1>11, <2>1, <2>2 DEF OneLeader, Elected
  <2> QED
    BY <1>7, <2>1, <2>3
<1> QED
  BY SMT, <1>7, <1>13, <1>17, <1>18, UpdateLog

(* MsgPropose. *)
LEMMA ProposeLog ==
    ASSUME ~Single, GroupInv, GroupInv', NEW ll, LogInv(ll),
           NEW i \in Server, NEW d \in Data, NEW type \in ProposeType,
           Propose(i, d, type)
    PROVE  \E lm \in LeaderLogs : LogInv(lm)'
<1> DEFINE r == raft[i]
           e == [term |-> r.Term, data |-> d, type |-> type]
           last == Len(r.log) + 1
           p == [r EXCEPT !.log = Append(@, e), !.match[i] = last, !.next[i] = last + 1]
           n == propose(i, r, d, type)
<1>1. r \in Node /\ r.State = "StateLeader" /\ Update(i, n)
  BY GroupFacts DEF Propose
<1> HIDE DEF r
<1>2. e \in Entry /\ e.term = r.Term /\ r.log \in Seq(Entry) /\ r.Term \in Nat
  BY <1>1, DataAssumption DEF Entry, Node
<1>3. n \in Node
  BY <1>1, UpdatedNode
<1>4. /\ p.Term = r.Term /\ p.State = r.State /\ p.log = Append(r.log, e)
      /\ p.msgs = r.msgs /\ p.committed = r.committed
  BY <1>1 DEF Node
<1>5. p.match[i] = last /\ \A j \in Server \ {i} : p.match[j] = r.match[j]
  BY <1>1 DEF Node
<1>6. p \in Node
  <2>1. Append(r.log, e) \in Seq(Entry) /\ last \in Nat
    BY ONLY <1>2
  <2>2. /\ [r.match EXCEPT ![i] = last] \in [Server -> Nat]
        /\ [r.next EXCEPT ![i] = last + 1] \in [Server -> Nat]
    <3>1. r.match \in [Server -> Nat] /\ r.next \in [Server -> Nat] /\ last + 1 \in Nat
      BY SMT, <1>1, <2>1 DEF Node
    <3> QED
      BY ONLY <2>1, <3>1
  <2> HIDE DEF e, last
  <2> QED
    BY ONLY ZenonT(30), <1>1, <2>1, <2>2 DEF Node
<1>7. n = bcastAppend(i, p)
  BY DEF propose
<1> HIDE DEF e, p, n
<1>8. /\ n.Term = r.Term /\ n.State = r.State /\ n.log = Append(r.log, e)
      /\ n.committed = r.committed /\ n.match = p.match
      /\ \A m \in n.msgs \ r.msgs : CutFrom(m, i, n)
  BY <1>4, <1>6, <1>7, BcastFragments
<1>9. Len(n.log) = last
  BY SMT, <1>2, <1>8, AppendIs
<1>10. /\ NodeLogOK(i, r, ll, network, hardState, elections)
       /\ LeaderLogsOK(ll, network, hardState, elections) /\ ll \in LeaderLogs
  BY DEF LogInv, GroupLogOK, r
<1>11. /\ r.log = ll[r.Term]
       /\ \A j \in Server \ {i} : r.match[j] = 0 \/ Acked(j, r.match[j], r.Term, network)
  BY <1>1, <1>10 DEF NodeLogOK, LeaderOK
<1>12. \A j \in Server \ {i} : n.match[j] = 0 \/ Acked(j, n.match[j], n.Term, network)
  BY <1>5, <1>8, <1>11
<1>13. \A s \in 0 .. n.Term - 1, c \in Nat :
           Has(ll[s], c, s) => Has(r.log, c, s) \/ Blocked(c, s, network, hardState)
  <2>1. ll[r.Term] # << >>
    BY <1>1, <1>2, <1>10, GroupFacts DEF LeaderLogsOK, Elected, r
  <2> QED
    BY <1>2, <1>8, <1>10, <1>11, <2>1 DEF LeaderLogsOK
<1> QED
  BY SMT, <1>1, <1>2, <1>3, <1>5, <1>8, <1>9, <1>12, <1>13, AppendedLog DEF r

(* MsgRequestVoteResponse: the vote that makes a majority elects the node. *)
LEMMA VoteResponseLog ==
    ASSUME SetFacts, ~Single, GroupInv, GroupInv', NEW ll, LogInv(ll),
           NEW m \in network, StepVoteResponse(m)
    PROVE  \E lm \in LeaderLogs : LogInv(lm)'
<1> DEFINE i == m.to
           r == Enter(raft[i], m)
           v == [r EXCEPT !.granted = IF m.reject THEN @ \ {m.from}
                                      ELSE @ \cup {m.from},
                          !.rejected = IF m.reject THEN @ \cup {m.from}
                                       ELSE @ \ {m.from}]
           n == handleVoteResponse(i, r, m)
<1>1. /\ m \in Message /\ i \in Server /\ m \in VoteResponse /\ raft[i] \in Node
      /\ m.term >= raft[i].Term /\ Update(i, n)
  BY GroupFacts, MessageKinds DEF StepVoteResponse, Fresh
<1>2. /\ ll \in LeaderLogs /\ LeaderLogsOK(ll, network, hardState, elections)
      /\ \A j \in Server : NodeLogOK(j, raft[j], ll, network, hardState, elections)
  BY DEF LogInv, GroupLogOK
<1>3. /\ NodeLogOK(i, r, ll, network, hardState, elections)
      /\ r.State # "StateFollower" => r = raft[i]
      /\ r \in Node /\ r.Term = m.term
  BY SMT, <1>1, <1>2, GroupFacts, EnterLog
<1> HIDE DEF r
<1>4. v \in Node /\ n \in Node
  <2>1. n \in Node
    BY <1>1, UpdatedNode
  <2>2. v \in Node
    <3>1. m.from \in Server
      BY <1>1 DEF VoteResponse
    <3> QED
      BY <1>3, <3>1 DEF Node
  <2> QED
    BY <2>1, <2>2
<1>5. /\ v.Term = r.Term /\ v.State = r.State /\ v.log = r.log /\ v.msgs = r.msgs
      /\ v.committed = r.committed /\ v.match = r.match
      /\ v.granted = IF m.reject THEN r.granted \ {m.from} ELSE r.granted \cup {m.from}
  BY <1>3 DEF Node
<1>6. \/ n = r
      \/ r.State = "StateCandidate" /\ IsMajority(v.granted) /\ n = becomeLeader(i, v)
      \/ n = becomeFollower(v, v.Term, None)
      \/ r.State = "StateCandidate" /\ n = v
  <2> HIDE DEF v
  <2> QED
    BY DEF handleVoteResponse, v
<1> HIDE DEF v, n, i
<1>7. ASSUME NodeLogOK(i, n, ll, network, hardState, elections),
             n.State = "StateLeader" => n.Term = r.Term /\ r.State = "StateLeader"
      PROVE  \E lm \in LeaderLogs : LogInv(lm)'
  <2>1. n.State = "StateLeader" => Elected(i, n.Term) \in elections
    BY <1>1, <1>3, <1>7, GroupFacts
  <2> QED
    BY <1>1, <1>2, <1>4, <1>7, <2>1, StayLog
<1>8. CASE n = r
  BY <1>3, <1>7, <1>8
<1>9. CASE n = becomeFollower(v, v.Term, None)
  <2>1. /\ n.Term = r.Term /\ n.State = "StateFollower" /\ n.log = r.log
        /\ n.msgs = r.msgs /\ n.committed = r.committed
    BY <1>4, <1>5, <1>9 DEF becomeFollower, Node
  <2>2. n.Term >= r.Term
    BY SMT, <1>3, <2>1 DEF Node
  <2>3. NodeLogOK(i, n, ll, network, hardState, elections)
    BY <1>1, <1>2, <1>3, <1>4, <2>1, <2>2, QuietLog, GroupFacts
  <2> QED
    BY <1>7, <2>1, <2>3
<1>10. CASE r.State = "StateCandidate" /\ n = v
  <2>1. n.Term >= r.Term
    BY SMT, <1>3, <1>5, <1>10 DEF Node
  <2>2. NodeLogOK(i, n, ll, network, hardState, elections)
    BY <1>1, <1>2, <1>3, <1>4, <1>5, <1>10, <2>1, QuietLog, GroupFacts
  <2> QED
    BY <1>5, <1>7, <1>10, <2>2
<1>11. CASE r.State = "StateCandidate" /\ IsMajority(v.granted) /\ n = becomeLeader(i, v)
  <2>1. r = raft[i]
    BY <1>3, <1>11
  <2>2. /\ n.Term = v.Term /\ n.State = "StateLeader" /\ n.committed = v.committed
        /\ \E e \in Entry : e.term = v.Term /\ n.log = Append(v.log, e)
        /\ n.match[i] = Len(n.log)
        /\ \A j \in Server \ {i} : n.match[j] = 0
        /\ \A q \in n.msgs \ v.msgs : CutFrom(q, i, n)
    <3>1. ~Single /\ i \in Server /\ v \in Node /\ n = becomeLeader(i, v)
      BY <1>1, <1>4, <1>11
    <3> QED
      BY ONLY SMTT(30), <3>1, BecomeLeaderLog
  <2>3. PICK e \in Entry : e.term = n.Term /\ n.log = Append(raft[i].log, e)
    BY <1>5, <2>1, <2>2
  <2>4. v.granted \in SUBSET Server /\ n.Term \in Nat
    BY <1>4 DEF Node
  <2>5. \A j \in v.granted \ {i} : VotedFor(j, i, r.Term, network)
    <3>1. m.reject \/ VotedFor(m.from, i, r.Term, network)
      BY <1>1, <1>3 DEF VotedFor, Granted, VoteResponse, i
    <3>2. \A j \in r.granted \ {i} : VotedFor(j, i, r.Term, network)
      BY <1>1, <1>11, <2>1 DEF GroupInv, ElectionInv, NodeOK
    <3> QED
      BY <1>5, <3>1, <3>2
  <2>6. Requested(i, r.Term, network)
    <3>1. PICK j \in v.granted : j # i
      BY <1>1, <1>11, <2>4 DEF SetFacts
    <3>2. VotedFor(j, i, r.Term, network)
      BY <2>5, <3>1
    <3> QED
      BY <3>2, GroupFacts DEF VotedFor, MessageOK
  <2>7. ll[n.Term] = << >>
    <3>1. ~\E x \in elections : x.term = n.Term
      <4> SUFFICES ASSUME NEW x \in elections, x.term = n.Term PROVE FALSE
        OBVIOUS
      <4>1. OneLeader(elections')
        BY DEF GroupInv
      <4>2. x \in elections' /\ Elected(i, n.Term) \in elections'
        BY <1>1, <2>2 DEF Update, Elected
      <4>3. x.leader = i
        BY <4>1, <4>2 DEF OneLeader, Elected
      <4>4. x = Elected(i, n.Term)
        BY <4>3, GroupFacts DEF Elections, Elected
      <4> QED
        BY <1>3, <1>5, <1>11, <2>2, <4>4 DEF NodeLogOK, CandidateOK
    <3> QED
      BY <1>2, <2>4, <3>1 DEF LeaderLogsOK
  <2>8. ASSUME NEW s \in 0 .. n.Term - 1, NEW c \in Nat, Has(ll[s], c, s),
               ~Blocked(c, s, network, hardState)
        PROVE  Has(raft[i].log, c, s)
    <3>1. s \in Nat /\ s < r.Term
      BY <1>5, <2>2, <2>4
    <3> QED
      BY <1>1, <1>2, <1>11, <2>1, <2>4, <2>5, <2>6, <2>8, <3>1, GroupFacts, WinnerHas
  <2>9. \A q \in n.msgs \ raft[i].msgs : CutFrom(q, i, n)
    BY <1>5, <2>1, <2>2
  <2>10. n.Term = raft[i].Term /\ n.committed = raft[i].committed
    BY <1>5, <2>1, <2>2
  <2> QED
    BY SMT, <1>1, <1>4, <2>2, <2>3, <2>7, <2>8, <2>9, <2>10, AppendedLog
<1> QED
  BY <1>6, <1>8, <1>9, <1>10, <1>11

(* The application saves the state of a node and sends its messages. *)
LEMMA ReadyLog ==
    ASSUME GroupInv, GroupInv', NEW ll, LogInv(ll), NEW i \in Server, Ready(i)
    PROVE  LogInv(ll)'
<1> DEFINE r == raft[i]
           h == HardStateOf(r)
<1>1. /\ raft \in [Server -> Node] /\ network \in SUBSET Message
      /\ hardState \in [Server -> HardState] /\ stableLog \in [Server -> Seq(Entry)]
  BY GroupFacts
<1>2. /\ hardState' = [hardState EXCEPT ![i] = h]
      /\ stableLog' = [stableLog EXCEPT ![i] = r.log]
      /\ network' = network \cup r.msgs
      /\ elections' = elections
      /\ raft' = [raft EXCEPT ![i] = [r EXCEPT !.msgs = {}]]
  BY DEF Ready
<1>3. network' \in SUBSET Message /\ hardState' \in [Server -> HardState]
  BY DEF GroupInv, ElectionInv, TypeOK
<1>4. h \in HardState /\ h.term = r.Term /\ h.commit = r.committed
  <2>1. h.term = r.Term /\ h.commit = r.committed
    BY DEF HardStateOf
  <2> HIDE DEF h
  <2> QED
    BY <1>1, <1>2, <1>3, <2>1
<1>5. \A m \in r.msgs : m.from = i
  BY DEF GroupInv, ElectionInv, NodeOK
<1> HIDE DEF r, h
<1> QED
  BY <1>1, <1>2, <1>3, <1>4, <1>5, SavedLog DEF LogInv, r

(* Raft restarted from what it saved: nothing it promised is lost. *)
LEMMA RestartLog ==
    ASSUME GroupInv, NEW ll, LogInv(ll), NEW i \in Server, Restart(i)
    PROVE  LogInv(ll)'
<1> DEFINE n == newRaft(hardState[i], stableLog[i])
<1>1. /\ raft' = [raft EXCEPT ![i] = n] /\ raft \in [Server -> Node]
      /\ hardState \in [Server -> HardState]
      /\ UNCHANGED <<hardState, stableLog, network, elections>>
  BY GroupFacts DEF Restart
<1>2. /\ n.Term = hardState[i].term /\ n.State = "StateFollower"
      /\ n.log = stableLog[i] /\ n.committed = hardState[i].commit /\ n.msgs = {}
  BY DEF newRaft
<1> HIDE DEF n
<1> QED
  BY <1>1, <1>2, RestartedLog DEF LogInv

(* Every handler of a message starts from the node that Step has brought to
   the message's term. *)
LEMMA EnterGroup ==
    ASSUME GroupInv, NEW ll, LogInv(ll), NEW m \in network,
           m.term >= raft[m.to].Term, NEW r, r = Enter(raft[m.to], m)
    PROVE  /\ m \in Message /\ m.to \in Server /\ m.from # m.to
           /\ r \in Node /\ m.term = r.Term
           /\ NodeLogOK(m.to, r, ll, network, hardState, elections)
           /\ \A q \in Sent(m.to, r, network) : q.term <= r.Term
           /\ r.State = "StateLeader" => Elected(m.to, r.Term) \in elections
<1>1. /\ raft \in [Server -> Node] /\ network \in SUBSET Message
      /\ hardState \in [Server -> HardState] /\ MessageOK(m, network, elections)
  BY GroupFacts
<1>2. m \in Message /\ m.to \in Server /\ m.from # m.to
  BY <1>1, MessageKinds DEF MessageOK
<1>3. raft[m.to] \in Node
  BY <1>1, <1>2
<1>4. ll \in LeaderLogs /\ NodeLogOK(m.to, raft[m.to], ll, network, hardState, elections)
  BY <1>2 DEF LogInv, GroupLogOK
<1>5. /\ r \in Node /\ NodeLogOK(m.to, r, ll, network, hardState, elections)
      /\ r.Term = m.term /\ r.msgs = raft[m.to].msgs
      /\ r.State # "StateFollower" => r = raft[m.to]
  BY SMT, <1>1, <1>2, <1>3, <1>4, EnterLog
<1>6. \A q \in Sent(m.to, r, network) : q.term <= r.Term
  <2> SUFFICES ASSUME NEW q \in Sent(m.to, r, network) PROVE q.term <= r.Term
    OBVIOUS
  <2>1. q \in Sent(m.to, raft[m.to], network) /\ q \in Message
    BY <1>1, <1>3, <1>5 DEF Sent, Node
  <2>2. q.term <= raft[m.to].Term
    BY <1>2, <2>1, GroupFacts
  <2>3. q.term \in Nat /\ raft[m.to].Term \in Nat /\ r.Term \in Nat
    BY <1>3, <1>5, <2>1, MessageKinds DEF Node
  <2> QED
    BY <1>5, <2>2, <2>3
<1>7. r.State = "StateLeader" => Elected(m.to, r.Term) \in elections
  BY <1>2, <1>5, GroupFacts
<1> QED
  BY <1>2, <1>5, <1>6, <1>7

(* A message that elects nobody and leaves the leaders' logs. *)
LEMMA StepLog ==
    ASSUME SetFacts, MergeFacts, ~Single, GroupInv, GroupInv', NEW ll, LogInv(ll),
           NEW m \in network,
           \/ StepRequestVote(m) \/ StepAppend(m) \/ StepAppendResponse(m)
           \/ StepHeartbeat(m) \/ StepHeartbeatResponse(m)
    PROVE  LogInv(ll)'
<1> DEFINE i == m.to
           r == Enter(raft[i], m)
<1>1. m.term >= raft[i].Term
  BY DEF StepRequestVote, StepAppend, StepAppendResponse, StepHeartbeat,
         StepHeartbeatResponse, Fresh
<1>2. /\ m \in Message /\ i \in Server /\ m.from # i /\ r \in Node /\ m.term = r.Term
      /\ NodeLogOK(i, r, ll, network, hardState, elections)
      /\ \A q \in Sent(i, r, network) : q.term <= r.Term
      /\ r.State = "StateLeader" => Elected(i, r.Term) \in elections
  BY <1>1, EnterGroup
<1>3. /\ network \in SUBSET Message /\ hardState \in [Server -> HardState]
      /\ OneLeader(elections)
      /\ \A q \in network : MessageOK(q, network, elections)
  BY GroupFacts
<1>4. /\ ll \in LeaderLogs /\ LeaderLogsOK(ll, network, hardState, elections)
      /\ \A q \in network : MsgLogOK(q, ll, network)
      /\ \A t \in Nat : LogUpTo(ll[t], t)
  BY DEF LogInv, GroupLogOK, LeaderLogsOK
<1>5. ASSUME NEW n \in Node, Update(i, n), SameLeader(r, n),
             NodeLogOK(i, n, ll, network, hardState, elections)
      PROVE  LogInv(ll)'
  <2>1. n.State = "StateLeader" => Elected(i, n.Term) \in elections
    BY <1>2, <1>5 DEF SameLeader
  <2> QED
    BY <1>2, <1>5, <2>1, StayLog
<1> HIDE DEF r
<1>6. CASE StepRequestVote(m)
  <2>1. PICK n : n = handleRequestVote(i, r, m)
    OBVIOUS
  <2>2. Update(i, n) /\ m \in VoteRequest
    BY <1>2, <1>6, <2>1, MessageKinds DEF StepRequestVote, Fresh, r
  <2>3. n \in Node
    BY <1>2, <2>2, UpdatedNode
  <2>4. NodeLogOK(i, n, ll, network, hardState, elections) /\ SameLeader(r, n)
    BY SMT, <1>2, <1>3, <1>4, <2>1, <2>2, <2>3, HandleRequestVoteLog
  <2> QED
    BY <1>5, <2>2, <2>3, <2>4
<1>7. CASE StepAppend(m)
  <2>1. PICK n : n = handleAppend(i, r, m)
    OBVIOUS
  <2>2. Update(i, n) /\ m \in AppendRequest
    BY <1>2, <1>7, <2>1, MessageKinds DEF StepAppend, Fresh, r
  <2>3. Elected(m.from, m.term) \in elections /\ MsgLogOK(m, ll, network)
    BY <1>3, <1>4, <1>7 DEF MessageOK, FromLeader, StepAppend, Fresh
  <2>4. n \in Node
    BY <1>2, <2>2, UpdatedNode
  <2>5. NodeLogOK(i, n, ll, network, hardState, elections) /\ SameLeader(r, n)
    BY <1>2, <1>3, <1>4, <2>1, <2>2, <2>3, <2>4, HandleAppendLog
  <2> QED
    BY <1>5, <2>2, <2>4, <2>5
<1>8. CASE StepAppendResponse(m)
  <2>1. PICK n : n = handleAppendResponse(i, r, m)
    OBVIOUS
  <2>2. Update(i, n) /\ m \in AppendResponse
    BY <1>2, <1>8, <2>1, MessageKinds DEF StepAppendResponse, Fresh, r
  <2>3. n \in Node
    BY <1>2, <2>2, UpdatedNode
  <2>4. NodeLogOK(i, n, ll, network, hardState, elections) /\ SameLeader(r, n)
    BY <1>2, <1>3, <1>4, <2>1, <2>2, <2>3, HandleAppendResponseLog
  <2> QED
    BY <1>5, <2>2, <2>3, <2>4
<1>9. CASE StepHeartbeat(m)
  <2>1. PICK n : n = handleHeartbeat(i, r, m)
    OBVIOUS
  <2>2. Update(i, n) /\ m \in Heartbeat
    BY <1>2, <1>9, <2>1, MessageKinds DEF StepHeartbeat, Fresh, r
  <2>3. n \in Node
    BY <1>2, <2>2, UpdatedNode
  <2>4. NodeLogOK(i, n, ll, network, hardState, elections) /\ SameLeader(r, n)
    BY <1>2, <1>3, <1>4, <2>1, <2>2, <2>3, HandleHeartbeatLog
  <2> QED
    BY <1>5, <2>2, <2>3, <2>4
<1>10. CASE StepHeartbeatResponse(m)
  <2>1. PICK n : n = handleHeartbeatResponse(i, r, m)
    OBVIOUS
  <2>2. Update(i, n) /\ m \in Heartbeat
    BY <1>2, <1>10, <2>1, MessageKinds DEF StepHeartbeatResponse, Fresh, r
  <2>3. n \in Node
    BY <1>2, <2>2, UpdatedNode
  <2>4. NodeLogOK(i, n, ll, network, hardState, elections) /\ SameLeader(r, n)
    BY <1>2, <1>3, <1>4, <2>1, <2>2, <2>3, HandleHeartbeatResponseLog
  <2> QED
    BY <1>5, <2>2, <2>3, <2>4
<1> QED
  BY <1>6, <1>7, <1>8, <1>9, <1>10

(* A candidacy, and a heartbeat. *)
LEMMA TickLog ==
    ASSUME ~Single, GroupInv, GroupInv', NEW ll, LogInv(ll),
           NEW i \in Server, Hup(i) \/ Beat(i)
    PROVE  LogInv(ll)'
<1>1. /\ raft[i] \in Node /\ network \in SUBSET Message
      /\ hardState \in [Server -> HardState]
      /\ \A m \in Sent(i, raft[i], network) : m.term <= raft[i].Term
      /\ raft[i].State = "StateLeader" => Elected(i, raft[i].Term) \in elections
      /\ \A e \in elections : ElectionOK(e, network)
  BY GroupFacts
<1>2. /\ ll \in LeaderLogs
      /\ NodeLogOK(i, raft[i], ll, network, hardState, elections)
  BY DEF LogInv, GroupLogOK
<1>3. CASE Hup(i)
  <2>1. PICK n : n = campaign(i, raft[i])
    OBVIOUS
  <2>2. n \in Node /\ Update(i, n)
    BY <1>3, <2>1, UpdatedNode DEF Hup
  <2>3. /\ NodeLogOK(i, n, ll, network, hardState, elections)
        /\ n.State = "StateCandidate"
    BY SMT, <1>1, <1>2, <2>1, <2>2, HupLog
  <2> QED
    BY <2>2, <2>3, StayLog
<1>4. CASE Beat(i)
  <2>1. PICK n : n = beat(i, raft[i])
    OBVIOUS
  <2>2. n \in Node /\ Update(i, n)
    BY <1>4, <2>1, UpdatedNode DEF Beat
  <2>3. NodeLogOK(i, n, ll, network, hardState, elections) /\ SameLeader(raft[i], n)
    BY <1>1, <1>2, <2>1, <2>2, BeatLog
  <2>4. n.State = "StateLeader" => Elected(i, n.Term) \in elections
    BY <1>1, <2>3 DEF SameLeader
  <2> QED
    BY <2>2, <2>3, <2>4, StayLog
<1> QED
  BY <1>3, <1>4

(* Every step of the group preserves the log invariant. *)
LEMMA NextLog ==
    ASSUME SetFacts, MergeFacts, ~Single, GroupInv, GroupInv', LogSafe, [Next]_vars
    PROVE  LogSafe'
<1>1. PICK ll \in LeaderLogs : LogInv(ll)
  BY DEF LogSafe
<1>2. LogInv(ll)' => LogSafe'
  BY DEF LogSafe
<1>3. (\E lm \in LeaderLogs : LogInv(lm)') => LogSafe'
  BY DEF LogSafe
<1>4. CASE UNCHANGED vars
  BY <1>1, <1>2, <1>4 DEF vars, LogInv
<1>5. ASSUME NEW i \in Server, Hup(i) \/ Beat(i) PROVE LogSafe'
  BY <1>1, <1>2, <1>5, TickLog
<1>6. ASSUME NEW i \in Server, NEW d \in Data, NEW type \in ProposeType,
             Propose(i, d, type)
      PROVE  LogSafe'
  BY <1>1, <1>3, <1>6, ProposeLog
<1>7. ASSUME NEW i \in Server, Ready(i) PROVE LogSafe'
  BY <1>1, <1>2, <1>7, ReadyLog
<1>8. ASSUME NEW i \in Server, Restart(i) PROVE LogSafe'
  BY <1>1, <1>2, <1>8, RestartLog
<1>9. ASSUME NEW m \in network, StepVoteResponse(m) PROVE LogSafe'
  BY <1>1, <1>3, <1>9, VoteResponseLog
<1>10. ASSUME NEW m \in network,
              \/ StepRequestVote(m) \/ StepAppend(m) \/ StepAppendResponse(m)
              \/ StepHeartbeat(m) \/ StepHeartbeatResponse(m)
       PROVE  LogSafe'
  BY <1>1, <1>2, <1>10, StepLog
<1> QED
  BY <1>4, <1>5, <1>6, <1>7, <1>8, <1>9, <1>10 DEF Next

(* At first every log is empty. *)
LEMMA InitLog == Init => LogSafe
<1> SUFFICES ASSUME Init PROVE LogSafe
  OBVIOUS
<1>1. /\ network = {} /\ elections = {}
      /\ \A i \in Server : /\ hardState[i].term = 0 /\ hardState[i].commit = 0
                           /\ stableLog[i] = << >>
                           /\ raft[i] = newRaft(hardState[i], stableLog[i])
  BY DEF Init
<1>2. \A h, log : LET r == newRaft(h, log) IN
          /\ r.log = log /\ r.Term = h.term /\ r.committed = h.commit
          /\ r.msgs = {} /\ r.State = "StateFollower"
  BY DEF newRaft
<1>3. \A i \in Server :
          /\ raft[i].log = << >> /\ raft[i].Term = 0 /\ raft[i].committed = 0
          /\ raft[i].msgs = {} /\ raft[i].State = "StateFollower"
  BY SMT, <1>1, <1>2
<1> QED
  BY <1>1, <1>3, NewLog DEF LogSafe, LogInv

-----------------------------------------------------------------------------
(* What the invariant says *)

LEMMA GroupAgrees ==
    ASSUME SetFacts, GroupInv, LogSafe
    PROVE  LogsAgree
<1>1. PICK ll \in LeaderLogs : LogInv(ll)
  BY DEF LogSafe
<1>2. LeaderLogsOK(ll, network, hardState, elections)
  BY <1>1 DEF LogInv, GroupLogOK
<1>3. ASSUME NEW i \in Server
      PROVE  /\ raft[i] \in Node
             /\ raft[i].log \in Seq(Entry) /\ stableLog[i] \in Seq(Entry)
             /\ hardState[i].commit \in Nat /\ hardState[i].term \in Nat
             /\ raft[i].committed \in Nat /\ raft[i].Term \in Nat
  BY GroupFacts DEF Node, HardState
<1>4. ASSUME NEW i \in Server
      PROVE  /\ OfLeaders(raft[i].log, ll) /\ OfLeaders(stableLog[i], ll)
             /\ hardState[i].commit <= raft[i].committed
             /\ CommitIn(raft[i].log, raft[i].committed, raft[i].Term, ll, network)
             /\ CommitIn(stableLog[i], hardState[i].commit, hardState[i].term, ll, network)
             /\ raft[i].State = "StateLeader" =>
                    raft[i].log = ll[raft[i].Term] /\ ll[raft[i].Term] # << >>
  <2>1. /\ NodeLogOK(i, raft[i], ll, network, hardState, elections)
        /\ StableLogOK(i, stableLog[i], ll, network, hardState)
    BY <1>1 DEF LogInv, GroupLogOK
  <2>2. hardState[i].commit <= raft[i].committed
    BY <1>3, <2>1 DEF NodeLogOK, BaseLogOK
  <2>3. raft[i].State = "StateLeader" => ll[raft[i].Term] # << >>
    <3> SUFFICES ASSUME raft[i].State = "StateLeader" PROVE ll[raft[i].Term] # << >>
      OBVIOUS
    <3>1. Elected(i, raft[i].Term) \in elections /\ Elected(i, raft[i].Term).term = raft[i].Term
      BY GroupFacts DEF Elected
    <3> QED
      BY <1>2, <1>3, <3>1 DEF LeaderLogsOK
  <2> QED
    BY <2>1, <2>2, <2>3 DEF NodeLogOK, BaseLogOK, LeaderOK, StableLogOK
<1>5. LogMatching
  <2>1. \A a \in Logs : a \in Seq(Entry) /\ Len(a) \in Nat /\ OfLeaders(a, ll)
    BY SMT, <1>3, <1>4 DEF Logs
  <2> SUFFICES ASSUME NEW a \in Logs, NEW b \in Logs,
                      NEW k \in 1 .. min(Len(a), Len(b)), a[k].term = b[k].term
               PROVE  \A l \in 1 .. k : a[l].term = b[l].term /\ a[l].data = b[l].data
    BY DEF LogMatching
  <2>2. Has(a, k, a[k].term) /\ Has(b, k, a[k].term)
    BY <2>1 DEF Has, min
  <2> QED
    BY <2>1, <2>2, SharedEntry DEF Same
<1>6. LeaderCompleteness
  <2> SUFFICES ASSUME NEW i \in Server, NEW j \in Server, raft[j].State = "StateLeader",
                      raft[j].Term >= hardState[i].term,
                      NEW k \in 1 .. hardState[i].commit
               PROVE  /\ k <= Len(raft[j].log)
                      /\ raft[j].log[k].term = stableLog[i][k].term
    BY DEF LeaderCompleteness
  <2> DEFINE T == raft[j].Term
             c == hardState[i].commit
  <2>1. T \in Nat /\ c \in Nat /\ c # 0 /\ hardState[i].term \in Nat
    BY <1>3
  <2>2. PICK t \in 0 .. hardState[i].term, n \in Nat :
            c <= n /\ Chosen(n, t, ll, network) /\ Same(stableLog[i], ll[t], c)
    BY <1>4, <2>1 DEF CommitIn
  <2>3. t \in 0 .. T
    BY <2>1, <2>2
  <2>4. Same(ll[T], ll[t], n)
    BY <1>2, <1>4, <2>1, <2>2, <2>3, ChosenInLater
  <2>5. raft[j].log = ll[T]
    BY <1>4
  <2>6. k \in 1 .. n /\ k \in 1 .. c
    BY <2>1, <2>2
  <2>7. n <= Len(ll[T]) /\ Len(ll[T]) \in Nat
    BY <2>1, <2>4, LeaderLogAt DEF Same
  <2> HIDE DEF T, c
  <2>8. k <= Len(ll[T])
    BY <2>1, <2>2, <2>6, <2>7
  <2>9. ll[T][k].term = ll[t][k].term
    BY <2>4, <2>6 DEF Same
  <2>10. stableLog[i][k].term = ll[t][k].term
    BY <2>2, <2>6 DEF Same
  <2> QED
    BY <2>5, <2>8, <2>9, <2>10
<1>7. ASSUME NEW i \in Server
      PROVE  Same(stableLog[i], raft[i].log, hardState[i].commit)
  <2> DEFINE n == hardState[i].commit
  <2>1. n \in Nat /\ n <= n /\ n <= raft[i].committed
    BY SMT, <1>3, <1>4
  <2> HIDE DEF n
  <2> QED
    BY <1>2, <1>3, <1>4, <2>1, CommittedAgree DEF n
<1>8. ASSUME NEW i \in Server, NEW j \in Server, NEW n \in 0 .. hardState[i].commit,
             n <= hardState[j].commit
      PROVE  Same(stableLog[i], stableLog[j], n)
  <2>1. n \in Nat /\ n <= hardState[i].commit
    BY <1>3
  <2> QED
    BY <1>2, <1>3, <1>4, <1>8, <2>1, CommittedAgree
<1> QED
  BY <1>4, <1>5, <1>6, <1>7, <1>8 DEF LogsAgree

(* A majority has saved each entry that some node takes for committed. *)
LEMMA GroupStable ==
    ASSUME SetFacts, GroupInv, LogSafe
    PROVE  CommittedIsStable
<1> SUFFICES ASSUME NEW i \in Server,
                    NEW k \in 1 .. raft[i].committed
             PROVE  IsMajority({j \in Server :
                        /\ k <= Len(stableLog[j])
                        /\ stableLog[j][k].term = raft[i].log[k].term})
  BY DEF CommittedIsStable
<1> DEFINE S == {j \in Server : /\ k <= Len(stableLog[j])
                                /\ stableLog[j][k].term = raft[i].log[k].term}
           c == raft[i].committed
<1>1. PICK ll \in LeaderLogs : LogInv(ll)
  BY DEF LogSafe
<1>2. c \in Nat /\ c # 0 /\ raft[i].Term \in Nat /\ k \in Nat
  BY SMT DEF GroupInv, ElectionInv, TypeOK, Node
<1>3. CommitIn(raft[i].log, c, raft[i].Term, ll, network)
  BY <1>1 DEF LogInv, GroupLogOK, NodeLogOK, BaseLogOK
<1>4. PICK t \in 0 .. raft[i].Term, n \in Nat :
          c <= n /\ Chosen(n, t, ll, network) /\ Same(raft[i].log, ll[t], c)
  BY <1>2, <1>3 DEF CommitIn
<1>5. PICK Q \in SUBSET Server : IsMajority(Q) /\ \A u \in Q : Acked(u, n, t, network)
  BY <1>4 DEF Chosen
<1>6. t \in Nat /\ k \in 1 .. n /\ k \in 1 .. c /\ Has(ll[t], n, t)
  BY <1>2, <1>4 DEF Chosen
<1>7. ASSUME NEW u \in Q PROVE u \in S
  <2>1. /\ StableLogOK(u, stableLog[u], ll, network, hardState)
        /\ stableLog[u] \in Seq(Entry)
    BY <1>1 DEF LogInv, GroupLogOK, GroupInv, ElectionInv, TypeOK
  <2>2. Has(stableLog[u], n, t)
    BY <1>4, <1>5, <1>6, <2>1, ChosenNotBlocked DEF StableLogOK, AckKept
  <2>3. Same(stableLog[u], ll[t], n) /\ Len(stableLog[u]) \in Nat
    BY <2>1, <2>2, OwnEntry DEF StableLogOK
  <2>4. k <= Len(stableLog[u])
    BY SMT, <1>4, <1>6, <2>3 DEF Same
  <2>5. stableLog[u][k].term = ll[t][k].term /\ raft[i].log[k].term = ll[t][k].term
    BY <1>4, <1>6, <2>3 DEF Same
  <2> QED
    BY <2>4, <2>5
<1>8. Q \subseteq S /\ S \in SUBSET Server
  BY <1>7
<1> HIDE DEF S
<1>9. IsMajority(S)
  BY <1>5, <1>8 DEF SetFacts
<1> QED
  BY <1>9 DEF S

(* The entries a node has applied. *)
LEMMA AppliedIs ==
    ASSUME TypeOK, LogsAgree, NEW i \in Server
    PROVE  /\ Applied(i) \in Seq(Entry)
           /\ hardState[i].commit \in Nat
           /\ Len(Applied(i)) = hardState[i].commit
           /\ \A k \in 1 .. hardState[i].commit : Applied(i)[k] = stableLog[i][k]
<1>1. stableLog[i] \in Seq(Entry) /\ hardState[i].commit \in Nat
  BY DEF TypeOK, HardState
<1>2. hardState[i].commit <= Len(stableLog[i])
  BY DEF LogsAgree, Same
<1> QED
  BY <1>1, <1>2 DEF Applied

(* A step leaves what a node has saved, or saves what it has in memory. *)
LEMMA SavedStep ==
    ASSUME TypeOK, [Next]_vars, NEW i \in Server
    PROVE  \/ hardState'[i] = hardState[i] /\ stableLog'[i] = stableLog[i]
           \/ /\ hardState'[i].commit = raft[i].committed
              /\ stableLog'[i] = raft[i].log /\ raft'[i].log = raft[i].log
<1>1. /\ hardState \in [Server -> HardState] /\ stableLog \in [Server -> Seq(Entry)]
      /\ raft \in [Server -> Node]
  BY DEF TypeOK
<1>2. CASE UNCHANGED <<hardState, stableLog>>
  BY <1>2
<1>3. ASSUME NEW j \in Server, Ready(j)
      PROVE  \/ hardState'[i] = hardState[i] /\ stableLog'[i] = stableLog[i]
             \/ /\ hardState'[i].commit = raft[i].committed
                /\ stableLog'[i] = raft[i].log /\ raft'[i].log = raft[i].log
  <2>1. /\ hardState' = [hardState EXCEPT ![j] = HardStateOf(raft[j])]
        /\ stableLog' = [stableLog EXCEPT ![j] = raft[j].log]
        /\ raft' = [raft EXCEPT ![j] = [raft[j] EXCEPT !.msgs = {}]]
    BY <1>3, Zenon DEF Ready
  <2>2. CASE j = i
    BY SMT, <1>1, <2>1, <2>2 DEF HardStateOf, Node
  <2>3. CASE j # i
    BY <1>1, <2>1, <2>3
  <2> QED
    BY <2>2, <2>3
<1> QED
  BY <1>2, <1>3 DEF Next, vars, Hup, Beat, Propose, Restart, Update, StepRequestVote,
     StepVoteResponse, StepAppend, StepAppendResponse, StepHeartbeat,
     StepHeartbeatResponse

(* No step lowers a saved commit index or changes an entry below it. *)
LEMMA SavedKept ==
    ASSUME TypeOK, LogsAgree, TypeOK', LogsAgree', [Next]_vars, NEW i \in Server
    PROVE  /\ hardState[i].commit \in Nat /\ hardState'[i].commit \in Nat
           /\ hardState'[i].commit >= hardState[i].commit
           /\ Same(stableLog[i], stableLog'[i], hardState[i].commit)
           /\ \A k \in 1 .. hardState[i].commit :
                  k <= Len(raft'[i].log) /\ raft'[i].log[k].term = raft[i].log[k].term
<1> DEFINE c == hardState[i].commit
<1>1. /\ c \in Nat /\ hardState'[i].commit \in Nat /\ raft[i].committed \in Nat
      /\ stableLog[i] \in Seq(Entry) /\ stableLog'[i] \in Seq(Entry)
      /\ raft[i].log \in Seq(Entry) /\ raft'[i].log \in Seq(Entry)
  BY DEF TypeOK, HardState, Node
<1>2. /\ c <= raft[i].committed /\ Same(stableLog[i], raft[i].log, c)
      /\ Same(stableLog'[i], raft'[i].log, hardState'[i].commit)
  BY DEF LogsAgree
<1>3. Same(raft[i].log, stableLog[i], c) /\ Same(stableLog[i], stableLog[i], c)
      /\ Same(raft[i].log, raft[i].log, c)
  BY <1>1, <1>2 DEF Same
<1>4. Same(stableLog[i], stableLog'[i], c) /\ Same(raft[i].log, raft'[i].log, c)
      /\ hardState'[i].commit >= c
  <2>1. CASE hardState'[i] = hardState[i] /\ stableLog'[i] = stableLog[i]
    BY SMT, <1>1, <1>2, <1>3, <2>1, SameTrans
  <2>2. CASE /\ hardState'[i].commit = raft[i].committed
             /\ stableLog'[i] = raft[i].log /\ raft'[i].log = raft[i].log
    BY <1>1, <1>2, <1>3, <2>2
  <2> QED
    BY <2>1, <2>2, SavedStep
<1>5. Len(raft'[i].log) \in Nat
  BY <1>1
<1> QED
  BY SMT, <1>1, <1>4, <1>5 DEF Same

(* What the abstract log is. *)
Image(log, n) == [k \in 1 .. n |-> [term |-> log[k].term, data |-> log[k].data]]

LongestAt(i) ==
    /\ \A j \in Server : hardState[j].commit <= hardState[i].commit
    /\ LongestApplied = Image(stableLog[i], hardState[i].commit)

(* Some node has saved the longest committed log. *)
LEMMA LongestIs ==
    ASSUME SetFacts, TypeOK, LogsAgree
    PROVE  \E i \in Server : LongestAt(i)
<1> DEFINE P(i) == \A j \in Server : hardState[j].commit <= hardState[i].commit
           f == [j \in Server |-> hardState[j].commit]
           i == CHOOSE i \in Server : P(i)
<1>1. f \in [Server -> Nat]
  BY DEF TypeOK, HardState
<1>2. \E j \in Server : P(j)
  <2>1. PICK j \in Server : \A l \in Server : f[l] <= f[j]
    BY <1>1 DEF SetFacts
  <2>2. P(j)
    BY <2>1
  <2> QED
    BY <2>2
<1>3. i \in Server /\ P(i)
  <2> HIDE DEF P
  <2> QED
    BY <1>2
<1>4. LongestApplied = [k \in 1 .. Len(Applied(i)) |->
            [term |-> Applied(i)[k].term, data |-> Applied(i)[k].data]]
  BY Zenon DEF LongestApplied
<1> HIDE DEF i
<1>5. /\ Len(Applied(i)) = hardState[i].commit
      /\ \A k \in 1 .. hardState[i].commit : Applied(i)[k] = stableLog[i][k]
  BY <1>3, AppliedIs
<1>6. LongestApplied = [k \in 1 .. hardState[i].commit |->
            [term |-> stableLog[i][k].term, data |-> stableLog[i][k].data]]
  BY <1>4, <1>5
<1> QED
  BY <1>3, <1>6 DEF LongestAt, Image

(* A step of the group appends to the abstract log or leaves it. *)
LEMMA CommittedStep ==
    ASSUME SetFacts, TypeOK, LogsAgree, TypeOK', LogsAgree', [Next]_vars
    PROVE  [Committed!Next]_LongestApplied
<1>0. (\E i \in Server : LongestAt(i))'
  BY LongestIs, PTL
<1>1. PICK i \in Server : LongestAt(i)
  BY LongestIs
<1>2. PICK j \in Server : LongestAt(j)'
  BY <1>0
<1> DEFINE c == hardState[i].commit
           d == hardState'[j].commit
           a == stableLog[i]
           b == stableLog'[j]
<1>3. /\ c \in Nat /\ d \in Nat /\ hardState'[i].commit \in Nat
      /\ hardState'[i].commit >= c /\ Same(a, stableLog'[i], c)
  BY SavedKept, TypeOK' DEF TypeOK, HardState
<1>4. hardState'[i].commit <= d
  BY <1>2 DEF LongestAt
<1>5. c <= d
  BY <1>3, <1>4
<1>6. Same(stableLog'[i], b, c)
  <2>1. c \in 0 .. hardState'[i].commit
    BY <1>3
  <2> QED
    BY <1>5, <2>1 DEF LogsAgree
<1>7. \A k \in 1 .. c : a[k].term = b[k].term /\ a[k].data = b[k].data
  BY <1>3, <1>6 DEF Same
<1>8. LongestApplied = Image(a, c) /\ LongestApplied' = Image(b, d)
  BY <1>1, <1>2 DEF LongestAt
<1> HIDE DEF a, b, c, d
<1>9. /\ Len(Image(a, c)) = c /\ Len(Image(b, d)) = d
  BY <1>3 DEF Image
<1>10. Image(b, c) = Image(a, c)
  BY <1>7 DEF Image
<1>11. SubSeq(Image(b, d), 1, c) = Image(b, c)
  <2>1. \A k \in 1 .. c : k \in 1 .. d
    BY <1>3, <1>5
  <2> QED
    BY <1>3, <1>5, <2>1 DEF Image
<1>12. CASE c = d
  BY <1>8, <1>10, <1>12
<1>13. CASE c # d
  <2>1. Len(LongestApplied') > Len(LongestApplied)
    BY <1>3, <1>5, <1>8, <1>9, <1>13
  <2>2. SubSeq(LongestApplied', 1, Len(LongestApplied)) = LongestApplied
    BY <1>8, <1>9, <1>10, <1>11
  <2> QED
    BY <2>1, <2>2 DEF Committed!Next
<1> QED
  BY <1>12, <1>13

-----------------------------------------------------------------------------
(* The log invariant holds *)

(* No term has two leaders. *)
LEMMA ElectionGroup == ElectionInv => GroupInv
BY OneLeaderPerTerm DEF ElectionInv, GroupInv, TypeOK, Elections

(* In a group of more than one member the leaders' logs explain all others. *)
LEMMA LogSafety ==
    ASSUME ~Single
    PROVE  Spec => [](ElectionInv /\ LogSafe)
<1>1. Init => ElectionInv
  BY InitInv
<1>2. ElectionInv /\ [Next]_vars => ElectionInv'
  BY NextInv
<1>3. ElectionInv => GroupInv
  BY ElectionGroup
<1>4. (ElectionInv => GroupInv)'
  BY <1>3, PTL
<1>5. ElectionInv /\ ElectionInv' /\ LogSafe /\ [Next]_vars => LogSafe'
  BY <1>3, <1>4, SetsAre, MergesAre, NextLog
<1> QED
  BY <1>1, <1>2, <1>5, InitLog, PTL DEF Spec

-----------------------------------------------------------------------------
(* What both groups guarantee of logs and commit indexes *)

LEMMA AgreeHolds == Spec => []LogsAgree
<1>1. CASE Single
  <2>1. TypeOK /\ SingleInv /\ [Next]_vars => SingleInv'
    BY <1>1, NextSingle
  <2>2. TypeOK /\ SingleInv => LogsAgree
    BY <1>1, SingleAgrees
  <2> QED
    BY <2>1, <2>2, InitSingle, TypeCorrect, PTL DEF Spec
<1>2. CASE ~Single
  <2>1. Spec => [](ElectionInv /\ LogSafe)
    BY <1>2, LogSafety
  <2>2. ElectionInv /\ LogSafe => LogsAgree
    BY ElectionGroup, GroupAgrees, SetsAre
  <2> QED
    BY <2>1, <2>2, PTL
<1> QED
  BY <1>1, <1>2

-----------------------------------------------------------------------------
(* The theorems *)

(* Entries of the same index and term are the same, and so are all before
   them, in every log in memory or in storage: handleAppendEntries, which
   compares one term, accepts only what agrees all the way down. *)
THEOREM LogMatchingHolds == Spec => []LogMatching
<1>1. LogsAgree => LogMatching
  BY DEF LogsAgree
<1> QED
  BY <1>1, AgreeHolds, PTL

(* Whatever some node has applied is in the log of every leader of its term
   or a later one: the votes of handleRequestVote go to logs that are up to
   date, over crashes of voters and candidates. *)
THEOREM LeaderCompletenessHolds == Spec => []LeaderCompleteness
<1>1. LogsAgree => LeaderCompleteness
  BY DEF LogsAgree
<1> QED
  BY <1>1, AgreeHolds, PTL

(* No two nodes disagree on an entry that both have applied, over leader
   changes, truncations in handleAppendEntries and restarts. *)
THEOREM StateMachineSafetyHolds == Spec => []StateMachineSafety
<1>1. TypeOK /\ LogsAgree => StateMachineSafety
  <2> SUFFICES ASSUME TypeOK, LogsAgree, NEW i \in Server, NEW j \in Server,
                      NEW k \in 1 .. min(Len(Applied(i)), Len(Applied(j)))
               PROVE  /\ Applied(i)[k].term = Applied(j)[k].term
                      /\ Applied(i)[k].data = Applied(j)[k].data
    BY DEF StateMachineSafety
  <2>1. /\ hardState[i].commit \in Nat /\ hardState[j].commit \in Nat
        /\ Len(Applied(i)) = hardState[i].commit /\ Len(Applied(j)) = hardState[j].commit
    BY AppliedIs
  <2>2. k \in 1 .. hardState[i].commit /\ k \in 1 .. hardState[j].commit
    BY <2>1 DEF min
  <2>3. Applied(i)[k] = stableLog[i][k] /\ Applied(j)[k] = stableLog[j][k]
    BY <2>2, AppliedIs
  <2>4. k \in 0 .. hardState[i].commit /\ k <= hardState[j].commit
    BY <2>1, <2>2
  <2>5. Same(stableLog[i], stableLog[j], k) /\ k \in 1 .. k
    BY <2>2, <2>4 DEF LogsAgree
  <2> QED
    BY <2>3, <2>5 DEF Same
<1> QED
  BY <1>1, AgreeHolds, TypeCorrect, PTL

(* In a group of more than one member a majority has saved each entry that
   some node takes for committed: handleAppendResponse counts only what
   followers have answered, and an answer leaves a node after the entries
   are saved.  A member that is alone commits before it saves. *)
THEOREM CommittedIsStableHolds ==
    ASSUME ~Single
    PROVE  Spec => []CommittedIsStable
<1>1. ElectionInv /\ LogSafe => CommittedIsStable
  BY ElectionGroup, GroupStable, SetsAre
<1> QED
  BY <1>1, LogSafety, PTL

(* No step lowers a saved commit index, and none drops or changes an entry
   below it, in the log of the node that saved it. *)
THEOREM CommitNeverRegressesHolds == Spec => CommitNeverRegresses
<1> DEFINE A == \A i \in Server :
                    /\ hardState'[i].commit >= hardState[i].commit
                    /\ \A k \in 1 .. hardState[i].commit :
                           /\ k <= Len(raft'[i].log)
                           /\ raft'[i].log[k].term = raft[i].log[k].term
<1>1. TypeOK /\ LogsAgree /\ TypeOK' /\ LogsAgree' /\ [Next]_vars => [A]_vars
  <2> SUFFICES ASSUME TypeOK, LogsAgree, TypeOK', LogsAgree', [Next]_vars,
                      NEW i \in Server
               PROVE  /\ hardState'[i].commit >= hardState[i].commit
                      /\ \A k \in 1 .. hardState[i].commit :
                             /\ k <= Len(raft'[i].log)
                             /\ raft'[i].log[k].term = raft[i].log[k].term
    OBVIOUS
  <2> QED
    BY SavedKept
<1> HIDE DEF A
<1>2. Spec => [][A]_vars
  BY <1>1, AgreeHolds, TypeCorrect, PTL DEF Spec
<1> QED
  BY <1>2 DEF CommitNeverRegresses, A

-----------------------------------------------------------------------------
(* Refinement *)

(* The group implements CommittedLog: over every leader change, lost message,
   crash and restart, the sequence of applied entries only grows at its end. *)
THEOREM GroupImplementsCommittedLog == Spec => ImplementsCommittedLog
<1>1. Init /\ TypeOK /\ LogsAgree => Committed!Init
  <2> SUFFICES ASSUME Init, TypeOK, LogsAgree PROVE LongestApplied = << >>
    BY DEF Committed!Init
  <2>1. PICK i \in Server : LongestAt(i)
    BY LongestIs, SetsAre
  <2>2. hardState[i].commit = 0
    BY DEF Init
  <2> QED
    BY <2>1, <2>2 DEF LongestAt, Image
<1>2. TypeOK /\ LogsAgree /\ TypeOK' /\ LogsAgree' /\ [Next]_vars
          => [Committed!Next]_LongestApplied
  BY CommittedStep, SetsAre
<1> QED
  BY <1>1, <1>2, AgreeHolds, TypeCorrect, PTL
  DEF Spec, ImplementsCommittedLog, Committed!Spec

=============================================================================
