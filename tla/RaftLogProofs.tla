--------------------------- MODULE RaftLogProofs ----------------------------
(***************************************************************************)
(* Logs that agree with the logs of leaders: what stays true of them when  *)
(* the leaders' logs grow, messages are sent and states are saved, and how *)
(* each handler preserves the log invariant of the node that runs it.      *)
(***************************************************************************)
EXTENDS RaftNode, RaftElections, RaftLogs, TLAPS

USE ZenonT(10), SMTT(30)

-----------------------------------------------------------------------------
(* Sequences, messages and entries *)

(* Sequences: length, elements and what the operators on them return. *)
LEMMA SeqLen ==
    ASSUME NEW S, NEW s \in Seq(S)
    PROVE  Len(s) \in Nat /\ \A k \in 1 .. Len(s) : s[k] \in S
OBVIOUS

(* Append adds one element at the end. *)
LEMMA AppendIs ==
    ASSUME NEW S, NEW s \in Seq(S), NEW e \in S
    PROVE  /\ Append(s, e) \in Seq(S)
           /\ Len(Append(s, e)) = Len(s) + 1
           /\ Append(s, e)[Len(s) + 1] = e
           /\ \A k \in 1 .. Len(s) : Append(s, e)[k] = s[k]
OBVIOUS

(* A function on 1 .. n is a sequence of length n. *)
LEMMA FunctionIsSeq ==
    ASSUME NEW S, NEW n \in Nat, NEW f \in [1 .. n -> S]
    PROVE  f \in Seq(S) /\ Len(f) = n
OBVIOUS

(* The field mtype tells the kinds of messages apart. *)
LEMMA MessageKinds ==
    ASSUME NEW m \in Message
    PROVE  /\ m.from \in Server /\ m.to \in Server /\ m.term \in Nat
           /\ m.mtype = "MsgRequestVote" => m \in VoteRequest
           /\ m.mtype = "MsgRequestVoteResponse" => m \in VoteResponse
           /\ m.mtype = "MsgAppend" => m \in AppendRequest
           /\ m.mtype = "MsgAppendResponse" => m \in AppendResponse
           /\ m.mtype \in {"MsgHeartbeat", "MsgHeartbeatResponse"} => m \in Heartbeat
BY DEF Message, VoteRequest, VoteResponse, AppendRequest, AppendResponse, Heartbeat

(* An index of a log holds an entry. *)
LEMMA EntryAt ==
    ASSUME NEW log \in Seq(Entry), NEW k \in 1 .. Len(log)
    PROVE  log[k] \in Entry /\ log[k].term \in Nat
<1>1. log[k] \in Entry
  BY SeqLen
<1> QED
  BY <1>1 DEF Entry

(* The term of a log's last entry, which MsgRequestVote carries, is a number. *)
LEMMA LastTermType ==
    ASSUME NEW log \in Seq(Entry)
    PROVE  LastTerm(log) \in Nat
BY EntryAt DEF LastTerm, TermAt

-----------------------------------------------------------------------------
(* Logs that agree *)

LEMMA LeaderLogAt ==
    ASSUME NEW ll \in LeaderLogs, NEW t \in Nat
    PROVE  ll[t] \in Seq(Entry) /\ Len(ll[t]) \in Nat
<1>1. ll[t] \in Seq(Entry)
  BY DEF LeaderLogs
<1> QED
  BY <1>1, SeqLen

(* Agreement up to an index is symmetric and transitive, and holds for less. *)
LEMMA SameAgain ==
    ASSUME NEW a \in Seq(Entry), NEW b \in Seq(Entry), NEW n \in Nat, Same(a, b, n)
    PROVE  Same(b, a, n) /\ \A k \in 0 .. n : Same(a, b, k)
BY DEF Same

(* Agreement of logs is transitive up to the shorter of the two. *)
LEMMA SameTrans ==
    ASSUME NEW a \in Seq(Entry), NEW b \in Seq(Entry), NEW c \in Seq(Entry),
           NEW n \in Nat, NEW k \in Nat, NEW l \in Nat,
           Same(a, b, n), Same(b, c, k), l <= n, l <= k
    PROVE  Same(a, c, l)
BY DEF Same

(* A log that agrees with another one up to an entry has the entry. *)
LEMMA SameHas ==
    ASSUME NEW a \in Seq(Entry), NEW b \in Seq(Entry), NEW n \in Nat, Same(a, b, n),
           NEW c \in Nat, c <= n, NEW t, Has(b, c, t)
    PROVE  Has(a, c, t)
<1>1. Len(a) \in Nat
  BY SeqLen
<1> QED
  BY <1>1 DEF Same, Has

(* Two logs of leaders that share an entry agree up to it. *)
LEMMA SharedEntry ==
    ASSUME NEW ll \in LeaderLogs, NEW a \in Seq(Entry), NEW b \in Seq(Entry),
           OfLeaders(a, ll), OfLeaders(b, ll),
           NEW c, NEW t, Has(a, c, t), Has(b, c, t)
    PROVE  Same(a, b, c)
<1>1. c \in Nat /\ a[c].term = t /\ b[c].term = t /\ t \in Nat
  BY EntryAt DEF Has
<1>2. Same(a, ll[t], c) /\ Same(b, ll[t], c)
  BY <1>1 DEF OfLeaders, Has
<1>3. ll[t] \in Seq(Entry)
  BY <1>1, LeaderLogAt
<1> QED
  BY SMT, <1>1, <1>2, <1>3, SameAgain, SameTrans

(* An entry a leader appended in its term is in its own log. *)
LEMMA OwnEntry ==
    ASSUME NEW ll \in LeaderLogs, NEW log \in Seq(Entry), OfLeaders(log, ll),
           NEW c, NEW t, Has(log, c, t)
    PROVE  Has(ll[t], c, t) /\ Same(log, ll[t], c) /\ c \in Nat /\ t \in Nat
<1>1. c \in 1 .. Len(log) /\ log[c].term = t /\ t \in Nat
  BY EntryAt DEF Has
<1>2. Same(log, ll[t], c)
  BY <1>1 DEF OfLeaders
<1>3. ll[t] \in Seq(Entry) /\ Len(ll[t]) \in Nat
  BY <1>1, LeaderLogAt
<1>4. c \in 1 .. Len(ll[t]) /\ ll[t][c].term = log[c].term
  BY SMT, <1>1, <1>2, <1>3 DEF Same
<1> QED
  BY <1>1, <1>2, <1>4 DEF Has

(* The terms of a log of leaders do not decrease. *)
LEMMA TermsOrdered ==
    ASSUME NEW ll \in LeaderLogs, NEW log \in Seq(Entry), OfLeaders(log, ll),
           \A t \in Nat : LogUpTo(ll[t], t),
           NEW k \in 1 .. Len(log), NEW l \in 1 .. k
    PROVE  log[l].term <= log[k].term
<1>1. log[k].term \in Nat /\ log[l].term \in Nat /\ l \in 1 .. Len(log)
  BY EntryAt
<1>2. Same(log, ll[log[k].term], k)
  BY DEF OfLeaders
<1>3. log[l].term = ll[log[k].term][l].term /\ l \in 1 .. Len(ll[log[k].term])
  BY SMT, <1>1, <1>2, LeaderLogAt DEF Same
<1>4. ll[log[k].term][l].term <= log[k].term
  BY <1>1, <1>3 DEF LogUpTo
<1> QED
  BY <1>3, <1>4

-----------------------------------------------------------------------------
(* Leaders' logs that grow *)

LEMMA GrownSame ==
    ASSUME NEW a \in Seq(Entry), NEW b \in Seq(Entry), Grown(a, b), NEW n \in Nat
    PROVE  /\ \A c \in Seq(Entry) : Same(c, a, n) => Same(c, b, n)
           /\ n <= Len(a) => Same(b, a, n)
           /\ n <= Len(a) => TermAt(b, n) = TermAt(a, n)
<1>1. Len(a) \in Nat /\ Len(b) \in Nat
  BY SeqLen
<1>2. ASSUME NEW c \in Seq(Entry), Same(c, a, n) PROVE Same(c, b, n)
  BY <1>1, <1>2 DEF Same, Grown
<1>3. n <= Len(a) => Same(b, a, n)
  BY <1>1 DEF Same, Grown
<1>4. n <= Len(a) => TermAt(b, n) = TermAt(a, n)
  BY <1>1 DEF TermAt, Grown
<1> QED
  BY <1>2, <1>3, <1>4

(* What agreed with a leader's log, or was in it, still does and is. *)
LEMMA SameGrows ==
    ASSUME NEW ll \in LeaderLogs, NEW lm \in LeaderLogs, Extends(ll, lm),
           NEW a \in Seq(Entry), NEW t \in Nat, NEW n \in Nat, Same(a, ll[t], n)
    PROVE  Same(a, lm[t], n)
BY LeaderLogAt, GrownSame DEF Extends

(* Entries of a leader's log stay when the log grows. *)
LEMMA HasGrows ==
    ASSUME NEW ll \in LeaderLogs, NEW lm \in LeaderLogs, Extends(ll, lm),
           NEW t \in Nat, NEW c, NEW s
    PROVE  /\ Has(ll[t], c, s) => Has(lm[t], c, s)
           /\ Has(lm[t], c, s) /\ c <= Len(ll[t]) => Has(ll[t], c, s)
BY SMT, LeaderLogAt DEF Has, Extends, Grown

(* A log explained by the leaders' logs stays explained. *)
LEMMA OfLeadersGrows ==
    ASSUME NEW ll \in LeaderLogs, NEW lm \in LeaderLogs, Extends(ll, lm),
           NEW a \in Seq(Entry), OfLeaders(a, ll)
    PROVE  OfLeaders(a, lm)
BY SameGrows, EntryAt DEF OfLeaders

(* An entry that is chosen stays chosen when leaders' logs grow. *)
LEMMA ChosenGrows ==
    ASSUME NEW ll \in LeaderLogs, NEW lm \in LeaderLogs, Extends(ll, lm),
           NEW nw, NEW t \in Nat, NEW c, Chosen(c, t, ll, nw)
    PROVE  Chosen(c, t, lm, nw)
BY HasGrows DEF Chosen

(* A justified commit index stays justified when they grow. *)
LEMMA CommitInGrows ==
    ASSUME NEW ll \in LeaderLogs, NEW lm \in LeaderLogs, Extends(ll, lm),
           NEW nw, NEW a \in Seq(Entry), NEW c \in Nat, NEW term \in Nat,
           CommitIn(a, c, term, ll, nw)
    PROVE  CommitIn(a, c, term, lm, nw)
<1>1. CASE c = 0
  BY <1>1 DEF CommitIn
<1>2. ASSUME NEW t \in 0 .. term, NEW k \in Nat,
             c <= k, Chosen(k, t, ll, nw), Same(a, ll[t], c)
      PROVE  CommitIn(a, c, term, lm, nw)
  <2>1. Chosen(k, t, lm, nw) /\ Same(a, lm[t], c)
    BY <1>2, ChosenGrows, SameGrows
  <2> QED
    BY <1>2, <2>1 DEF CommitIn
<1> QED
  BY <1>1, <1>2 DEF CommitIn

(* A commit index of a leader's log, seen from the longer log. *)
LEMMA CommitInLeader ==
    ASSUME NEW ll \in LeaderLogs, NEW lm \in LeaderLogs, Extends(ll, lm),
           NEW nw, NEW s \in Nat, NEW c \in Nat, NEW term \in Nat,
           CommitIn(ll[s], c, term, ll, nw)
    PROVE  CommitIn(lm[s], c, term, lm, nw)
<1>1. CASE c = 0
  BY <1>1 DEF CommitIn
<1>2. ASSUME NEW t \in 0 .. term, NEW k \in Nat,
             c <= k, Chosen(k, t, ll, nw), Same(ll[s], ll[t], c)
      PROVE  CommitIn(lm[s], c, term, lm, nw)
  <2>1. /\ ll[s] \in Seq(Entry) /\ Len(ll[s]) \in Nat
        /\ ll[t] \in Seq(Entry) /\ Len(ll[t]) \in Nat
        /\ lm[s] \in Seq(Entry) /\ lm[t] \in Seq(Entry)
    BY SMT, LeaderLogAt
  <2>2. Chosen(k, t, lm, nw) /\ Same(ll[s], lm[t], c)
    BY <1>2, <2>1, ChosenGrows, SameGrows
  <2>3. Same(lm[s], ll[s], c)
    <3>1. c <= Len(ll[s])
      BY <1>2 DEF Same
    <3> QED
      BY <2>1, <3>1, GrownSame DEF Extends
  <2>4. Same(lm[s], lm[t], c)
    <3>1. c \in Nat /\ c <= c
      BY SMT
    <3> QED
      BY <2>1, <2>2, <2>3, <3>1, SameTrans
  <2> QED
    BY <1>2, <2>2, <2>4 DEF CommitIn
<1> QED
  BY <1>1, <1>2 DEF CommitIn

(* What acknowledges an index acknowledges the ones before it. *)
LEMMA AckedLess ==
    ASSUME NEW nw \in SUBSET Message, NEW v, NEW t, NEW c \in Nat, NEW d \in Nat, d <= c,
           Acked(v, c, t, nw)
    PROVE  Acked(v, d, t, nw)
<1>1. PICK m \in nw : Covers(m, v, c, t)
  BY DEF Acked
<1>2. CASE Accepts(m) /\ c <= m.index
  <2>1. m.index \in Nat
    <3>1. m \in AppendResponse
      BY <1>2, MessageKinds DEF Accepts
    <3> QED
      BY <3>1 DEF AppendResponse
  <2>2. d <= m.index
    BY ONLY SMTT(30), <1>2, <2>1, c \in Nat, d \in Nat, d <= c
  <2> QED
    BY <1>1, <1>2, <2>2 DEF Acked, Covers
<1>3. CASE m.mtype = "MsgAppend" /\ c <= m.index + Len(m.entries)
  <2>1. m.index \in Nat /\ Len(m.entries) \in Nat
    BY <1>3, MessageKinds, SeqLen DEF AppendRequest
  <2>2. d <= m.index + Len(m.entries)
    BY ONLY SMTT(30), <1>3, <2>1, c \in Nat, d \in Nat, d <= c
  <2> QED
    BY <1>1, <1>3, <2>2 DEF Acked, Covers
<1> QED
  BY <1>1, <1>2, <1>3 DEF Covers

(* Nobody acknowledged more than the leader's log. *)
LEMMA AckedBound ==
    ASSUME NEW ll \in LeaderLogs, NEW nw, NEW msgs \in SUBSET Message,
           \A m \in msgs : MsgLogOK(m, ll, nw),
           NEW v, NEW c \in Nat, NEW t, Acked(v, c, t, msgs)
    PROVE  c <= Len(ll[t]) /\ t \in Nat
<1>1. PICK m \in msgs : Covers(m, v, c, t)
  BY DEF Acked
<1>2. m.term = t /\ t \in Nat /\ Len(ll[t]) \in Nat
  BY <1>1, MessageKinds, LeaderLogAt DEF Covers
<1>3. CASE Accepts(m) /\ c <= m.index
  <2>1. m.index \in Nat /\ m.index <= Len(ll[t])
    BY <1>2, <1>3, MessageKinds DEF MsgLogOK, Accepts, AppendResponse
  <2> QED
    BY <1>2, <1>3, <2>1
<1>4. CASE m.mtype = "MsgAppend" /\ c <= m.index + Len(m.entries)
  <2>1. m.index \in Nat /\ m.entries \in Seq(Entry)
    BY <1>4, MessageKinds DEF AppendRequest
  <2>2. m.index + Len(m.entries) <= Len(ll[t]) /\ Len(m.entries) \in Nat
    BY SMT, <1>2, <1>4, <2>1 DEF MsgLogOK, Fragment
  <2> QED
    BY <1>2, <1>4, <2>1, <2>2
<1> QED
  BY <1>1, <1>2, <1>3, <1>4 DEF Covers

(* So does what a message says about logs. *)
LEMMA MsgLogGrows ==
    ASSUME NEW ll \in LeaderLogs, NEW lm \in LeaderLogs, Extends(ll, lm),
           NEW nw, NEW m \in Message, MsgLogOK(m, ll, nw)
    PROVE  MsgLogOK(m, lm, nw)
<1>1. /\ m.term \in Nat /\ Len(ll[m.term]) \in Nat /\ Len(lm[m.term]) \in Nat
      /\ Len(ll[m.term]) <= Len(lm[m.term])
  BY MessageKinds, LeaderLogAt DEF Extends, Grown
<1>2. ASSUME m.mtype = "MsgAppend"
      PROVE  Fragment(m, lm[m.term]) /\ CommitIn(lm[m.term], m.commit, m.term, lm, nw)
  <2>1. /\ m.index \in Nat /\ m.entries \in Seq(Entry) /\ m.commit \in Nat
        /\ Len(m.entries) \in Nat
    BY <1>2, MessageKinds, SeqLen DEF AppendRequest
  <2>2. Fragment(m, ll[m.term]) /\ CommitIn(ll[m.term], m.commit, m.term, ll, nw)
    BY <1>2 DEF MsgLogOK
  <2>3. \A k \in 1 .. Len(ll[m.term]) : lm[m.term][k] = ll[m.term][k]
    BY <1>1 DEF Extends, Grown
  <2>4. TermAt(lm[m.term], m.index) = TermAt(ll[m.term], m.index)
    <3>1. m.index <= Len(ll[m.term])
      BY SMT, <1>1, <2>1, <2>2 DEF Fragment
    <3> QED
      BY SMT, <1>1, <2>1, <3>1, LeaderLogAt, GrownSame DEF Extends
  <2>5. ASSUME NEW k \in 1 .. Len(m.entries)
        PROVE  m.index + k \in 1 .. Len(ll[m.term])
    BY <1>1, <2>1, <2>2 DEF Fragment
  <2>6. m.index + Len(m.entries) <= Len(lm[m.term])
    BY SMT, <1>1, <2>1, <2>2 DEF Fragment
  <2>7. Fragment(m, lm[m.term])
    BY <2>2, <2>3, <2>4, <2>5, <2>6 DEF Fragment
  <2> QED
    BY Zenon, <1>1, <2>1, <2>2, <2>7, CommitInLeader
<1>3. ASSUME Accepts(m) PROVE m.index <= Len(lm[m.term])
  BY SMT, <1>1, <1>3, MessageKinds DEF MsgLogOK, Accepts, AppendResponse
<1> QED
  BY <1>2, <1>3 DEF MsgLogOK

(* What was acknowledged or voted upon concerns the shorter logs. *)
LEMMA AckKeptGrows ==
    ASSUME NEW ll \in LeaderLogs, NEW lm \in LeaderLogs, Extends(ll, lm),
           NEW nw, NEW hs, NEW v, NEW log, NEW msgs \in SUBSET Message,
           \A m \in msgs : MsgLogOK(m, ll, nw),
           AckKept(v, msgs, log, ll, nw, hs)
    PROVE  AckKept(v, msgs, log, lm, nw, hs)
<1> SUFFICES ASSUME NEW t \in Nat, NEW c \in Nat, Has(lm[t], c, t), Acked(v, c, t, msgs)
             PROVE  Has(log, c, t) \/ Blocked(c, t, nw, hs)
  BY DEF AckKept
<1>1. Has(ll[t], c, t)
  BY Zenon, AckedBound, HasGrows
<1> QED
  BY <1>1 DEF AckKept

(* So does the bond between votes and acknowledgements. *)
LEMMA VoteInformedGrows ==
    ASSUME NEW ll \in LeaderLogs, NEW lm \in LeaderLogs, Extends(ll, lm),
           NEW nw, NEW hs, NEW u, NEW sent \in SUBSET Message,
           \A m \in sent : MsgLogOK(m, ll, nw),
           VoteInformed(u, sent, ll, nw, hs)
    PROVE  VoteInformed(u, sent, lm, nw, hs)
<1> SUFFICES ASSUME NEW g \in sent, Granted(g), NEW t \in Nat, NEW c \in Nat,
                    t < g.term, Has(lm[t], c, t), Acked(u, c, t, sent)
             PROVE  \/ \E q \in nw : Asks(q, g.to, g.term, c, t)
                    \/ Blocked(c, t, nw, hs)
  BY DEF VoteInformed
<1>1. Has(ll[t], c, t)
  BY Zenon, AckedBound, HasGrows
<1> QED
  BY <1>1 DEF VoteInformed

-----------------------------------------------------------------------------
(* Messages that are added to the network, and hard states that are saved *)

(* A majority that has left a term acknowledges nothing of it any more. *)
LEMMA BlockedLater ==
    ASSUME NEW nw \in SUBSET Message, NEW nx \in SUBSET Message,
           NEW hs \in [Server -> HardState], NEW ht \in [Server -> HardState],
           Later(nw, nx, hs, ht), NEW c, NEW t \in Nat, Blocked(c, t, nw, hs)
    PROVE  Blocked(c, t, nx, ht)
<1>1. PICK Q \in SUBSET Server :
          IsMajority(Q) /\ \A u \in Q : hs[u].term > t /\ ~Acked(u, c, t, nw)
  BY DEF Blocked
<1>2. ASSUME NEW u \in Q PROVE ht[u].term > t /\ ~Acked(u, c, t, nx)
  <2>1. u \in Server /\ hs[u].term \in Nat /\ ht[u].term \in Nat /\ hs[u].term > t
    BY <1>1 DEF HardState
  <2>2. ht[u].term > t
    BY <2>1 DEF Later
  <2>3. ASSUME NEW m \in nx, Covers(m, u, c, t) PROVE FALSE
    <3>1. m.from = u /\ m.term = t
      BY <2>3 DEF Covers
    <3>2. m \in nw
      BY SMT, <2>1, <3>1 DEF Later
    <3> QED
      BY <1>1, <2>3, <3>2 DEF Acked
  <2> QED
    BY <2>2, <2>3 DEF Acked
<1> QED
  BY <1>1, <1>2 DEF Blocked

(* An acknowledged entry stays so when more is sent. *)
LEMMA AckedLater ==
    ASSUME NEW nw, NEW nx, nw \subseteq nx, NEW v, NEW c, NEW t, Acked(v, c, t, nw)
    PROVE  Acked(v, c, t, nx)
BY DEF Acked

(* An entry that is chosen stays chosen when more is sent. *)
LEMMA ChosenLater ==
    ASSUME NEW nw, NEW nx, nw \subseteq nx, NEW ll, NEW c, NEW t, Chosen(c, t, ll, nw)
    PROVE  Chosen(c, t, ll, nx)
BY AckedLater DEF Chosen

(* A justified commit index stays justified when more is sent. *)
LEMMA CommitInLater ==
    ASSUME NEW nw, NEW nx, nw \subseteq nx, NEW ll, NEW log, NEW c, NEW term,
           CommitIn(log, c, term, ll, nw)
    PROVE  CommitIn(log, c, term, ll, nx)
BY ChosenLater DEF CommitIn

(* So does what a message says about logs. *)
LEMMA MsgLogLater ==
    ASSUME NEW nw, NEW nx, nw \subseteq nx, NEW ll, NEW m, MsgLogOK(m, ll, nw)
    PROVE  MsgLogOK(m, ll, nx)
BY CommitInLater DEF MsgLogOK

(* An entry that a majority holds cannot be given up. *)
LEMMA ChosenNotBlocked ==
    ASSUME SetFacts, NEW nw, NEW hs, NEW ll, NEW c, NEW t,
           Chosen(c, t, ll, nw), Blocked(c, t, nw, hs)
    PROVE  FALSE
<1>1. PICK P \in SUBSET Server : IsMajority(P) /\ \A u \in P : Acked(u, c, t, nw)
  BY DEF Chosen
<1>2. PICK Q \in SUBSET Server : IsMajority(Q) /\ \A u \in Q : ~Acked(u, c, t, nw)
  BY DEF Blocked
<1> QED
  BY <1>1, <1>2 DEF SetFacts

(* A later leader has every chosen entry, and what precedes it. *)
LEMMA ChosenInLater ==
    ASSUME SetFacts, NEW nw, NEW hs, NEW el, NEW ll \in LeaderLogs, LeaderLogsOK(ll, nw, hs, el),
           NEW t \in Nat, NEW s \in 0 .. t, NEW c \in Nat,
           Chosen(c, s, ll, nw), ll[t] # << >>
    PROVE  Has(ll[t], c, s) /\ Same(ll[t], ll[s], c)
<1>1. Has(ll[s], c, s) /\ s \in Nat
  BY DEF Chosen
<1>2. Has(ll[t], c, s)
  <2>1. CASE s = t
    BY <1>1, <2>1
  <2>2. CASE s # t
    <3>1. s \in 0 .. t - 1
      BY <2>2
    <3> QED
      BY <1>1, <3>1, ChosenNotBlocked DEF LeaderLogsOK
  <2> QED
    BY <2>1, <2>2
<1>3. OfLeaders(ll[t], ll) /\ ll[t] \in Seq(Entry)
  BY LeaderLogAt DEF LeaderLogsOK
<1> QED
  BY <1>2, <1>3, OwnEntry

(* Two logs agree up to the smaller of their commit indexes. *)
LEMMA CommittedAgree ==
    ASSUME SetFacts, NEW nw, NEW hs, NEW el, NEW ll \in LeaderLogs, LeaderLogsOK(ll, nw, hs, el),
           NEW a \in Seq(Entry), NEW b \in Seq(Entry),
           NEW c \in Nat, NEW d \in Nat, NEW n \in Nat, n <= c, n <= d,
           NEW term \in Nat, NEW trem \in Nat,
           CommitIn(a, c, term, ll, nw), CommitIn(b, d, trem, ll, nw)
    PROVE  Same(a, b, n)
<1>1. CASE c = 0 \/ d = 0
  <2>1. n = 0 /\ Len(a) \in Nat /\ Len(b) \in Nat
    BY <1>1, SeqLen
  <2> QED
    BY <2>1 DEF Same
<1>2. CASE ~(c = 0 \/ d = 0)
  <2>1. PICK s \in 0 .. term, k \in Nat :
            c <= k /\ Chosen(k, s, ll, nw) /\ Same(a, ll[s], c)
    BY <1>2 DEF CommitIn
  <2>2. PICK t \in 0 .. trem, l \in Nat :
            d <= l /\ Chosen(l, t, ll, nw) /\ Same(b, ll[t], d)
    BY <1>2 DEF CommitIn
  <2>3. /\ s \in Nat /\ t \in Nat /\ ll[s] \in Seq(Entry) /\ ll[t] \in Seq(Entry)
        /\ n <= k /\ n <= l
    <3>1. s \in Nat /\ t \in Nat
      OBVIOUS
    <3>2. n <= k /\ n <= l
      BY <2>1, <2>2
    <3> QED
      BY <3>1, <3>2, LeaderLogAt
  <2>4. ll[s] # << >> /\ ll[t] # << >>
    <3>1. \A u, v, w : Has(u, v, w) => u # << >>
      BY DEF Has
    <3> QED
      BY <2>1, <2>2, <3>1 DEF Chosen
  <2>5. Same(ll[s], ll[t], n)
    <3>1. CASE s <= t
      <4>1. Same(ll[t], ll[s], k)
        BY <2>1, <2>3, <2>4, <3>1, ChosenInLater
      <4> QED
        BY SMT, <2>3, <4>1, SameAgain
    <3>2. CASE t <= s
      <4>1. Same(ll[s], ll[t], l)
        BY <2>2, <2>3, <2>4, <3>2, ChosenInLater
      <4> QED
        BY SMT, <2>3, <4>1, SameAgain
    <3> QED
      BY <2>3, <3>1, <3>2
  <2>6. Same(a, ll[t], n)
    <3>1. n <= n
      OBVIOUS
    <3> QED
      BY ONLY SMTT(30), <2>1, <2>3, <2>5, <3>1, n \in Nat, c \in Nat, n <= c, a \in Seq(Entry), SameTrans
  <2>7. Same(ll[t], b, d)
    BY <2>2, <2>3, SameAgain
  <2> QED
    BY SMT, <2>3, <2>6, <2>7, SameTrans
<1> QED
  BY <1>1, <1>2

-----------------------------------------------------------------------------
(* The group while states are saved and nodes restart *)

(* A node while messages are sent and states are saved. *)
LEMMA NodeLater ==
    ASSUME NEW i \in Server, NEW r, NEW n,
           NEW nw \in SUBSET Message, NEW nx \in SUBSET Message,
           NEW hs \in [Server -> HardState], NEW ht \in [Server -> HardState],
           Later(nw, nx, hs, ht), NEW el, NEW ll \in LeaderLogs,
           NodeLogOK(i, r, ll, nw, hs, el),
           Sent(i, n, nx) = Sent(i, r, nw), n.msgs \subseteq r.msgs,
           n.log = r.log, n.committed = r.committed, n.Term = r.Term,
           n.State = r.State, n.match = r.match,
           n.Term >= ht[i].term, n.committed >= ht[i].commit,
           \A m \in n.msgs : m.term >= ht[i].term
    PROVE  NodeLogOK(i, n, ll, nx, ht, el)
<1>1. nw \subseteq nx
  BY DEF Later
<1>2. \A c, t : t \in Nat /\ Blocked(c, t, nw, hs) => Blocked(c, t, nx, ht)
  BY BlockedLater
<1>3. BaseLogOK(i, r, ll, nw, hs)
  BY DEF NodeLogOK
<1>4. AckKept(i, Sent(i, n, nx), n.log, ll, nx, ht)
  BY <1>2, <1>3 DEF BaseLogOK, AckKept
<1>5. VoteInformed(i, Sent(i, n, nx), ll, nx, ht)
  BY <1>1, <1>2, <1>3 DEF BaseLogOK, VoteInformed
<1>6. CommitIn(n.log, n.committed, n.Term, ll, nx)
  BY <1>1, <1>3, CommitInLater DEF BaseLogOK
<1>7. \A m \in n.msgs : MsgLogOK(m, ll, nx)
  BY <1>1, <1>3, MsgLogLater DEF BaseLogOK
<1>8. BaseLogOK(i, n, ll, nx, ht)
  BY <1>3, <1>4, <1>5, <1>6, <1>7 DEF BaseLogOK
<1>9. CandidateOK(i, n, Sent(i, n, nx), el)
  BY DEF NodeLogOK, CandidateOK
<1>10. LeaderOK(i, n, ll, nx)
  BY <1>1, AckedLater DEF NodeLogOK, LeaderOK
<1> QED
  BY <1>8, <1>9, <1>10 DEF NodeLogOK

(* A node saves its state and sends its messages. *)
LEMMA SavedLog ==
    ASSUME NEW nodes \in [Server -> Node], NEW logs \in [Server -> Seq(Entry)],
           NEW nw \in SUBSET Message, NEW hs \in [Server -> HardState], NEW el,
           NEW ll, GroupLogOK(ll, nodes, logs, nw, hs, el),
           NEW i \in Server, NEW r, r = nodes[i], \A m \in r.msgs : m.from = i,
           NEW h \in HardState, h.term = r.Term, h.commit = r.committed,
           NEW nx \in SUBSET Message, nx = nw \cup r.msgs,
           NEW ht, ht = [hs EXCEPT ![i] = h]
    PROVE  GroupLogOK(ll, [nodes EXCEPT ![i] = [r EXCEPT !.msgs = {}]],
                      [logs EXCEPT ![i] = r.log], nx, ht, el)
<1> DEFINE n == [r EXCEPT !.msgs = {}]
           nodes2 == [nodes EXCEPT ![i] = n]
           logs2 == [logs EXCEPT ![i] = r.log]
<1>1. r \in Node /\ ht \in [Server -> HardState]
  OBVIOUS
<1>2. /\ \A j \in Server \ {i} : /\ ht[j] = hs[j] /\ logs2[j] = logs[j]
                                 /\ nodes2[j] = nodes[j]
      /\ logs2[i] = r.log /\ nodes2[i] = n
      /\ ht[i].term = r.Term /\ ht[i].commit = r.committed
  OBVIOUS
<1>3. /\ n.msgs = {} /\ n.log = r.log /\ n.committed = r.committed /\ n.Term = r.Term
      /\ n.State = r.State /\ n.match = r.match
  BY <1>1 DEF Node
<1>4. /\ ll \in LeaderLogs /\ \A m \in nw : MsgLogOK(m, ll, nw)
      /\ LeaderLogsOK(ll, nw, hs, el)
      /\ \A j \in Server : NodeLogOK(j, nodes[j], ll, nw, hs, el)
      /\ \A j \in Server : StableLogOK(j, logs[j], ll, nw, hs)
  BY DEF GroupLogOK
<1>5. /\ r.Term \in Nat /\ r.committed \in Nat /\ r.Term >= hs[i].term
      /\ \A m \in r.msgs : m.term >= hs[i].term /\ MsgLogOK(m, ll, nw)
  BY Zenon, <1>1, <1>4 DEF NodeLogOK, BaseLogOK, Node
<1> HIDE DEF n, nodes2, logs2
<1>6. Later(nw, nx, hs, ht)
  <2>1. \A u \in Server : hs[u].term <= ht[u].term
    <3>1. TAKE u \in Server
    <3>2. hs[u].term \in Nat
      BY <1>1 DEF HardState
    <3> QED
      BY SMT, <1>2, <1>5, <3>2
  <2> QED
    BY <1>5, <2>1 DEF Later
<1>7. \A c, t : t \in Nat /\ Blocked(c, t, nw, hs)
           => Blocked(c, t, nx, ht)
  <2>1. SUFFICES ASSUME NEW c, NEW t \in Nat, Blocked(c, t, nw, hs)
                 PROVE  Blocked(c, t, nx, ht)
    OBVIOUS
  <2>2. /\ nw \in SUBSET Message /\ nx \in SUBSET Message
        /\ hs \in [Server -> HardState] /\ ht \in [Server -> HardState]
    BY <1>1
  <2> QED
    BY ONLY ZenonT(30), <1>6, <2>1, <2>2, BlockedLater
<1>8. nw \subseteq nx
  OBVIOUS
<1>9. LeaderLogsOK(ll, nx, ht, el)
  <2>1. \A t \in Nat, s \in Nat, c \in Nat :
            ll[t] # << >> /\ s \in 0 .. t - 1 /\ Has(ll[s], c, s) =>
                Has(ll[t], c, s) \/ Blocked(c, s, nx, ht)
    BY Zenon, <1>4, <1>7 DEF LeaderLogsOK
  <2>2. \A t \in Nat : \A s \in 0 .. t - 1 : s \in Nat
    BY SMT
  <2> QED
    BY Zenon, <1>4, <2>1, <2>2 DEF LeaderLogsOK
<1>10. \A m \in nx : MsgLogOK(m, ll, nx)
  BY <1>4, <1>5, <1>8, MsgLogLater
<1>11. ASSUME NEW j \in Server
       PROVE  NodeLogOK(j, nodes2[j], ll, nx, ht, el)
  <2>1. NodeLogOK(j, nodes[j], ll, nw, hs, el)
    BY <1>4
  <2>2. CASE j = i
    <3>1. Sent(i, n, nx) = Sent(i, r, nw)
      BY <1>3 DEF Sent
    <3>2. n.Term >= ht[i].term /\ n.committed >= ht[i].commit
      BY SMT, <1>2, <1>3, <1>5
    <3>3. NodeLogOK(i, n, ll, nx, ht, el)
      BY Zenon, <1>1, <1>3, <1>4, <1>6, <2>1, <2>2, <3>1, <3>2, NodeLater
    <3> QED
      BY <1>2, <2>2, <3>3
  <2>3. CASE j # i
    <3>1. Sent(j, nodes[j], nx) = Sent(j, nodes[j], nw)
      BY <2>3 DEF Sent
    <3>2. ht[j] = hs[j] /\ nodes2[j] = nodes[j]
      BY <1>2, <2>3
    <3>3. /\ nodes[j].Term >= ht[j].term /\ nodes[j].committed >= ht[j].commit
          /\ \A m \in nodes[j].msgs : m.term >= ht[j].term
      BY <2>1, <3>2 DEF NodeLogOK, BaseLogOK
    <3>4. NodeLogOK(j, nodes[j], ll, nx, ht, el)
      BY Zenon, <1>1, <1>4, <1>6, <2>1, <3>1, <3>3, NodeLater
    <3> QED
      BY <3>2, <3>4
  <2> QED
    BY <2>2, <2>3
<1>12. ASSUME NEW j \in Server
       PROVE  StableLogOK(j, logs2[j], ll, nx, ht)
  <2>1. CASE j = i
    <3>1. BaseLogOK(i, r, ll, nw, hs)
      BY <1>4 DEF NodeLogOK
    <3>2. \A c, t : Acked(i, c, t, nx) => Acked(i, c, t, Sent(i, r, nw))
      BY DEF Acked, Covers, Sent
    <3>3. AckKept(i, nx, r.log, ll, nx, ht)
      BY Zenon, <1>7, <3>1, <3>2 DEF BaseLogOK, AckKept
    <3>4. CommitIn(r.log, r.committed, r.Term, ll, nx)
      BY SMT, <1>8, <3>1, CommitInLater DEF BaseLogOK
    <3> QED
      BY <1>2, <2>1, <3>1, <3>3, <3>4 DEF StableLogOK, BaseLogOK
  <2>2. CASE j # i
    <3>1. StableLogOK(j, logs[j], ll, nw, hs)
      BY <1>4
    <3>2. \A c, t : Acked(j, c, t, nx) => Acked(j, c, t, nw)
      BY <2>2 DEF Acked, Covers
    <3>3. AckKept(j, nx, logs[j], ll, nx, ht)
      BY Zenon, <1>7, <3>1, <3>2 DEF StableLogOK, AckKept
    <3>4. CommitIn(logs[j], hs[j].commit, hs[j].term, ll, nx)
      BY <1>8, <3>1, CommitInLater DEF StableLogOK
    <3> QED
      BY <1>2, <2>2, <3>1, <3>3, <3>4 DEF StableLogOK
  <2> QED
    BY <2>1, <2>2
<1> QED
  BY Zenon, <1>4, <1>9, <1>10, <1>11, <1>12 DEF GroupLogOK, n, nodes2, logs2

(* A node restarts from what it saved, which covers what it has sent. *)
LEMMA RestartedLog ==
    ASSUME NEW nodes \in [Server -> Node], NEW logs, NEW nw,
           NEW hs \in [Server -> HardState], NEW el,
           NEW ll, GroupLogOK(ll, nodes, logs, nw, hs, el),
           NEW i \in Server, NEW n, n.Term = hs[i].term, n.State = "StateFollower",
           n.log = logs[i], n.committed = hs[i].commit, n.msgs = {}
    PROVE  GroupLogOK(ll, [nodes EXCEPT ![i] = n], logs, nw, hs, el)
<1>1. hs[i].term \in Nat /\ hs[i].commit \in Nat
  BY DEF HardState
<1>2. /\ NodeLogOK(i, nodes[i], ll, nw, hs, el)
      /\ StableLogOK(i, logs[i], ll, nw, hs)
  BY DEF GroupLogOK
<1>3. Sent(i, n, nw) \subseteq nw /\ Sent(i, n, nw) \subseteq Sent(i, nodes[i], nw)
  BY DEF Sent
<1>4. AckKept(i, Sent(i, n, nw), n.log, ll, nw, hs)
  BY <1>2, <1>3 DEF StableLogOK, AckKept, Acked
<1>5. VoteInformed(i, Sent(i, n, nw), ll, nw, hs)
  <2>1. \A c, t : Acked(i, c, t, Sent(i, n, nw)) => Acked(i, c, t, Sent(i, nodes[i], nw))
    BY <1>3 DEF Acked
  <2> QED
    BY Zenon, <1>2, <1>3, <2>1 DEF NodeLogOK, BaseLogOK, VoteInformed
<1>6. n.Term >= hs[i].term /\ n.committed >= hs[i].commit
  BY SMT, <1>1
<1>7. BaseLogOK(i, n, ll, nw, hs)
  BY <1>2, <1>4, <1>5, <1>6 DEF StableLogOK, BaseLogOK
<1>8. NodeLogOK(i, n, ll, nw, hs, el)
  BY <1>7 DEF NodeLogOK, CandidateOK, LeaderOK
<1>9. \A j \in Server : [nodes EXCEPT ![i] = n][j] = IF j = i THEN n ELSE nodes[j]
  OBVIOUS
<1> QED
  BY <1>8, <1>9 DEF GroupLogOK

(* The empty logs of a new group. *)
LEMMA NewLog ==
    ASSUME NEW nodes, NEW logs, NEW hs,
           \A i \in Server :
               /\ hs[i].term = 0 /\ hs[i].commit = 0 /\ logs[i] = << >>
               /\ nodes[i].log = << >> /\ nodes[i].Term = 0 /\ nodes[i].committed = 0
               /\ nodes[i].msgs = {} /\ nodes[i].State = "StateFollower"
    PROVE  \E ll \in LeaderLogs : GroupLogOK(ll, nodes, logs, {}, hs, {})
<1> DEFINE ll == [t \in Nat |-> << >>]
<1>1. ll \in LeaderLogs /\ \A t \in Nat : ll[t] = << >>
  BY SMT DEF LeaderLogs
<1> HIDE DEF ll
<1>2. \A t \in Nat, c \in Nat : ~Has(ll[t], c, t)
  BY SMT, <1>1 DEF Has
<1>3. LeaderLogsOK(ll, {}, hs, {})
  BY SMT, <1>1, <1>2 DEF LeaderLogsOK, OfLeaders, LogUpTo
<1>4. ASSUME NEW i \in Server
      PROVE  NodeLogOK(i, nodes[i], ll, {}, hs, {}) /\ StableLogOK(i, logs[i], ll, {}, hs)
  <2>1. OfLeaders(<< >>, ll)
    BY SMT DEF OfLeaders
  <2>2. \A sent : AckKept(i, sent, << >>, ll, {}, hs)
    BY <1>2 DEF AckKept
  <2>3. VoteInformed(i, Sent(i, nodes[i], {}), ll, {}, hs)
    BY <1>2 DEF VoteInformed
  <2>4. BaseLogOK(i, nodes[i], ll, {}, hs)
    BY <2>1, <2>2, <2>3 DEF BaseLogOK, CommitIn
  <2>5. NodeLogOK(i, nodes[i], ll, {}, hs, {})
    BY <2>4 DEF NodeLogOK, CandidateOK, LeaderOK
  <2>6. StableLogOK(i, logs[i], ll, {}, hs)
    BY <2>1, <2>2 DEF StableLogOK, CommitIn
  <2> QED
    BY <2>5, <2>6
<1> QED
  BY <1>1, <1>3, <1>4 DEF GroupLogOK

-----------------------------------------------------------------------------
(* What handleAppendEntries makes of a log *)

(* A log that agrees with a log of leaders is one. *)
LEMMA PrefixOfLeaders ==
    ASSUME NEW ll \in LeaderLogs, NEW a \in Seq(Entry), NEW b \in Seq(Entry),
           OfLeaders(b, ll), Same(a, b, Len(a))
    PROVE  OfLeaders(a, ll)
<1> SUFFICES ASSUME NEW k \in 1 .. Len(a)
             PROVE  Same(a, ll[a[k].term], k)
  BY DEF OfLeaders
<1>1. k \in Nat /\ Len(a) \in Nat /\ Len(b) \in Nat /\ k <= Len(a)
  BY SeqLen
<1>2. k \in 1 .. Len(b) /\ b[k].term = a[k].term /\ a[k].term \in Nat
  BY <1>1, EntryAt DEF Same
<1>3. Same(b, ll[a[k].term], k)
  BY <1>2 DEF OfLeaders
<1>4. ll[a[k].term] \in Seq(Entry)
  BY <1>2, LeaderLogAt
<1> QED
  BY SMT, <1>1, <1>3, <1>4, SameTrans

(* Two logs of leaders whose terms agree at an index agree up to it. *)
LEMMA SameTermAt ==
    ASSUME NEW ll \in LeaderLogs, NEW a \in Seq(Entry), NEW b \in Seq(Entry),
           OfLeaders(a, ll), OfLeaders(b, ll),
           NEW n \in Nat, n <= Len(a), n <= Len(b), TermAt(a, n) = TermAt(b, n)
    PROVE  Same(a, b, n)
<1>0. Len(a) \in Nat /\ Len(b) \in Nat
  BY SeqLen
<1>1. CASE n = 0
  BY <1>0, <1>1 DEF Same
<1>2. CASE n # 0
  <2>1. Has(a, n, a[n].term) /\ Has(b, n, a[n].term)
    BY <1>0, <1>2 DEF Has, TermAt
  <2> QED
    BY <2>1, SharedEntry
<1> QED
  BY <1>1, <1>2

(* The loop over m.Entries leaves a log that agrees with the sender's up to the
   last new entry, and drops nothing that agreed with it. *)
LEMMA AcceptedLog ==
    ASSUME NEW ll \in LeaderLogs, NEW log \in Seq(Entry), NEW lead \in Seq(Entry),
           OfLeaders(log, ll), OfLeaders(lead, ll),
           NEW entries \in Seq(Entry), NEW prev \in 0 .. Len(log),
           TermAt(log, prev) = TermAt(lead, prev), prev + Len(entries) <= Len(lead),
           \A k \in 1 .. Len(entries) : /\ entries[k].term = lead[prev + k].term
                                        /\ entries[k].data = lead[prev + k].data,
           NEW new, MergeIs(log, prev, entries, new)
    PROVE  /\ new \in Seq(Entry)
           /\ Same(new, lead, prev + Len(entries))
           /\ \A n \in Nat : Same(log, lead, n) => Same(new, lead, n)
           /\ OfLeaders(new, ll)
<1>1. prev \in Nat /\ Len(entries) \in Nat /\ Len(lead) \in Nat /\ Len(log) \in Nat
  OBVIOUS
<1>2. ASSUME NEW k \in 0 .. Len(entries), prev + k <= Len(log),
             k # 0 => log[prev + k].term = entries[k].term
      PROVE  Same(log, lead, prev + k)
  <2>1. prev + k \in Nat /\ prev + k <= Len(lead)
    BY <1>1
  <2>2. TermAt(log, prev + k) = TermAt(lead, prev + k)
    <3>1. CASE k = 0
      BY <1>1, <3>1
    <3>2. CASE k # 0
      BY <1>1, <1>2, <3>2 DEF TermAt
    <3> QED
      BY <3>1, <3>2
  <2> QED
    BY <1>2, <2>1, <2>2, SameTermAt
<1>3. CASE /\ new = log
           /\ prev + Len(entries) <= Len(log)
           /\ \A k \in 1 .. Len(entries) : log[prev + k].term = entries[k].term
  <2>1. Same(log, lead, prev + Len(entries))
    BY <1>1, <1>2, <1>3
  <2> QED
    BY <1>3, <2>1
<1>4. ASSUME NEW k \in 1 .. Len(entries), new \in Seq(Entry),
             Len(new) = prev + Len(entries), prev + k - 1 <= Len(log),
             \A j \in 1 .. prev + k - 1 : new[j] = log[j],
             \A j \in prev + k .. Len(new) : new[j] = entries[j - prev],
             prev + k > Len(log) \/ log[prev + k].term # entries[k].term,
             \A l \in 1 .. k - 1 : log[prev + l].term = entries[l].term
      PROVE  /\ Same(new, lead, prev + Len(entries))
             /\ \A n \in Nat : Same(log, lead, n) => Same(new, lead, n)
             /\ OfLeaders(new, ll)
  <2>1. PICK p \in 0 .. Len(log) : p = prev + k - 1
    BY SMT, <1>1, <1>4
  <2>2. Same(log, lead, p)
    <3>1. /\ k - 1 \in 0 .. Len(entries) /\ prev + (k - 1) = p /\ p <= Len(log)
          /\ k - 1 # 0 => k - 1 \in 1 .. k - 1
      BY <1>1, <2>1
    <3>2. k - 1 # 0 => log[prev + (k - 1)].term = entries[k - 1].term
      BY ONLY SMTT(30), <1>4, <3>1
    <3> QED
      BY Zenon, <1>2, <3>1, <3>2
  <2>3. ASSUME NEW j \in 1 .. Len(new)
        PROVE  new[j].term = lead[j].term /\ new[j].data = lead[j].data
    <3>1. CASE j <= p
      <4>1. new[j] = log[j] /\ j \in 1 .. p
        BY SMT, <1>1, <1>4, <2>1, <3>1
      <4> QED
        BY <2>2, <4>1 DEF Same
    <3>2. CASE ~(j <= p)
      <4>1. /\ j \in prev + k .. Len(new) /\ j - prev \in 1 .. Len(entries)
            /\ prev + (j - prev) = j
        BY SMT, <1>1, <1>4, <2>1, <3>2
      <4>2. new[j] = entries[j - prev]
        BY <1>4, <4>1
      <4> QED
        BY <4>1, <4>2
    <3> QED
      BY <3>1, <3>2
  <2>4. Same(new, lead, Len(new))
    BY SMT, <1>1, <1>4, <2>3 DEF Same
  <2>5. OfLeaders(new, ll)
    BY Zenon, <1>4, <2>4, PrefixOfLeaders
  <2>6. ASSUME NEW n \in Nat, Same(log, lead, n) PROVE Same(new, lead, n)
    <3>1. CASE n <= Len(new)
      BY SMT, <1>1, <1>4, <2>4, <3>1, SameAgain
    <3>2. CASE n > Len(new)
      <4>1. prev + k \in 1 .. n /\ n <= Len(log)
        BY SMT, <1>1, <1>4, <2>6, <3>2 DEF Same
      <4>2. log[prev + k].term = entries[k].term
        BY <2>6, <4>1 DEF Same
      <4> QED
        BY <1>1, <1>4, <4>1, <4>2
    <3> QED
      BY SMT, <1>1, <1>4, <3>1, <3>2
  <2> QED
    BY <1>4, <2>4, <2>5, <2>6
<1> QED
  BY Zenon, <1>3, <1>4 DEF MergeIs

(* A log that agrees with a leader's up to a commit index of the leader's term
   or an earlier one; the log that holds the index agrees with the leader's. *)
LEMMA CommitCarried ==
    ASSUME SetFacts, NEW nw, NEW hs, NEW el, NEW ll \in LeaderLogs,
           LeaderLogsOK(ll, nw, hs, el), NEW T \in Nat, ll[T] # << >>,
           NEW term \in 0 .. T, NEW a \in Seq(Entry), NEW b \in Seq(Entry),
           NEW c \in Nat, CommitIn(a, c, term, ll, nw)
    PROVE  /\ Same(a, ll[T], c)
           /\ Same(b, ll[T], c) => CommitIn(b, c, T, ll, nw)
<1>1. CASE c = 0
  <2>1. Len(a) \in Nat /\ Len(ll[T]) \in Nat
    BY SeqLen, LeaderLogAt
  <2> QED
    BY <1>1, <2>1 DEF CommitIn, Same
<1>2. CASE c # 0
  <2>1. PICK t \in 0 .. term, k \in Nat :
            c <= k /\ Chosen(k, t, ll, nw) /\ Same(a, ll[t], c)
    BY <1>2 DEF CommitIn
  <2>2. t \in 0 .. T /\ t \in Nat
    BY ONLY T \in Nat, term \in 0 .. T, t \in 0 .. term
  <2>3. Same(ll[T], ll[t], k)
    BY <2>1, <2>2, ChosenInLater
  <2>4. /\ ll[T] \in Seq(Entry) /\ ll[t] \in Seq(Entry)
        /\ Same(ll[t], ll[T], k) /\ c <= c
    BY <2>2, <2>3, LeaderLogAt, SameAgain
  <2>5. Same(a, ll[T], c)
    BY ONLY SMTT(30), <2>1, <2>4, SameTrans, a \in Seq(Entry), c \in Nat, k \in Nat
  <2>6. Same(b, ll[T], c) => Same(b, ll[t], c)
    BY ONLY SMTT(30), <2>1, <2>3, <2>4, SameTrans, b \in Seq(Entry), c \in Nat, k \in Nat
  <2> QED
    BY ONLY SMTT(30), <2>1, <2>2, <2>5, <2>6 DEF CommitIn
<1> QED
  BY <1>1, <1>2

-----------------------------------------------------------------------------
(* Steps of a node that leave its log alone *)

LEMMA CommitInTerm ==
    ASSUME NEW term \in Nat, NEW trem \in Nat, term <= trem,
           NEW ll, NEW nw, NEW log, NEW c, CommitIn(log, c, term, ll, nw)
    PROVE  CommitIn(log, c, trem, ll, nw)
<1>1. \A t \in 0 .. term : t \in 0 .. trem
  OBVIOUS
<1> QED
  BY <1>1 DEF CommitIn

(* Messages other than acknowledgements acknowledge nothing. *)
LEMMA AckedBefore ==
    ASSUME NEW old, NEW new, \A m \in new \ old : Aside(m),
           NEW v, NEW c, NEW t, Acked(v, c, t, new)
    PROVE  Acked(v, c, t, old)
BY DEF Acked, Covers, Aside

(* The step acknowledges nothing; its votes are considered apart. *)
LEMMA BaseSame ==
    ASSUME NEW i \in Server, NEW r \in Node, NEW n \in Node,
           NEW nw \in SUBSET Message, NEW hs \in [Server -> HardState],
           NEW ll \in LeaderLogs, BaseLogOK(i, r, ll, nw, hs),
           n.log = r.log, n.committed = r.committed, n.Term >= r.Term,
           \A m \in n.msgs \ r.msgs : Aside(m) /\ m.term = n.Term,
           VoteInformed(i, Sent(i, n, nw), ll, nw, hs)
    PROVE  BaseLogOK(i, n, ll, nw, hs)
<1>1. n.Term \in Nat /\ r.Term \in Nat /\ hs[i].term \in Nat
  BY DEF Node, HardState
<1>2. n.Term >= hs[i].term
  BY SMT, <1>1 DEF BaseLogOK
<1>3. \A m \in Sent(i, n, nw) \ Sent(i, r, nw) : Aside(m)
  BY DEF Sent
<1>4. AckKept(i, Sent(i, n, nw), n.log, ll, nw, hs)
  BY <1>3, AckedBefore DEF AckKept, BaseLogOK
<1>5. CommitIn(n.log, n.committed, n.Term, ll, nw)
  BY <1>1, CommitInTerm DEF BaseLogOK
<1>6. ASSUME NEW m \in n.msgs PROVE m.term >= hs[i].term /\ MsgLogOK(m, ll, nw)
  <2>1. CASE m \in r.msgs
    BY <2>1 DEF BaseLogOK
  <2>2. CASE m \notin r.msgs
    BY <1>2, <2>2 DEF Aside, MsgLogOK
  <2> QED
    BY <2>1, <2>2
<1> QED
  BY <1>2, <1>4, <1>5, <1>6 DEF BaseLogOK

(* A step that neither wins nor starts an election, votes, or touches the log:
   ticks of a leader, heartbeats, refusals, stepping down. *)
LEMMA QuietLog ==
    ASSUME NEW i \in Server, NEW r \in Node, NEW n \in Node,
           NEW nw \in SUBSET Message, NEW hs \in [Server -> HardState], NEW el,
           NEW ll \in LeaderLogs, NodeLogOK(i, r, ll, nw, hs, el),
           n.log = r.log, n.committed = r.committed, n.Term >= r.Term,
           n.State = "StateCandidate" => r.State = n.State /\ r.Term = n.Term,
           n.State = "StateLeader" =>
               r.State = n.State /\ r.Term = n.Term /\ r.match = n.match,
           \A m \in n.msgs \ r.msgs : Silent(m) /\ m.term = n.Term
    PROVE  NodeLogOK(i, n, ll, nw, hs, el)
<1>1. \A m \in Sent(i, n, nw) \ Sent(i, r, nw) : Silent(m)
  BY DEF Sent
<1>2. VoteInformed(i, Sent(i, n, nw), ll, nw, hs)
  <2> SUFFICES ASSUME NEW g \in Sent(i, n, nw), Granted(g), NEW t \in Nat, NEW c \in Nat,
                      t < g.term, Has(ll[t], c, t), Acked(i, c, t, Sent(i, n, nw))
               PROVE  \/ \E q \in nw : Asks(q, g.to, g.term, c, t)
                      \/ Blocked(c, t, nw, hs)
    BY DEF VoteInformed
  <2>1. g \in Sent(i, r, nw) /\ Acked(i, c, t, Sent(i, r, nw))
    BY <1>1, AckedBefore DEF Silent
  <2> QED
    BY <2>1 DEF VoteInformed, NodeLogOK, BaseLogOK
<1>3. BaseLogOK(i, n, ll, nw, hs)
  BY <1>2, BaseSame DEF NodeLogOK, Silent
<1>4. CandidateOK(i, n, Sent(i, n, nw), el)
  BY <1>1 DEF NodeLogOK, CandidateOK, Silent
<1>5. LeaderOK(i, n, ll, nw)
  BY DEF NodeLogOK, LeaderOK
<1> QED
  BY <1>3, <1>4, <1>5 DEF NodeLogOK

(* A vote: by UpToDate the candidate's log is not behind what the voter has
   acknowledged. *)
LEMMA GrantLog ==
    ASSUME NEW i \in Server, NEW r \in Node, NEW n \in Node,
           NEW nw \in SUBSET Message, NEW hs \in [Server -> HardState], NEW el,
           NEW ll \in LeaderLogs, NodeLogOK(i, r, ll, nw, hs, el),
           \A t \in Nat : LogUpTo(ll[t], t),
           n.log = r.log, n.committed = r.committed, n.Term >= r.Term,
           n.State = "StateFollower",
           NEW m \in nw, m \in VoteRequest, m.term = n.Term, UpToDate(n, m),
           \A g \in n.msgs \ r.msgs :
               Granted(g) /\ g.to = m.from /\ g.term = n.Term
    PROVE  NodeLogOK(i, n, ll, nw, hs, el)
<1>1. \A g \in n.msgs \ r.msgs : Aside(g)
  BY DEF Granted, Aside, Accepts
<1>2. \A g \in Sent(i, n, nw) \ Sent(i, r, nw) : Aside(g) /\ g \in n.msgs \ r.msgs
  BY <1>1 DEF Sent
<1>3. ASSUME NEW g \in Sent(i, n, nw), Granted(g), NEW t \in Nat, NEW c \in Nat,
             t < g.term, Has(ll[t], c, t), Acked(i, c, t, Sent(i, n, nw))
      PROVE  \/ \E q \in nw : Asks(q, g.to, g.term, c, t)
             \/ Blocked(c, t, nw, hs)
  <2>1. Acked(i, c, t, Sent(i, r, nw))
    BY <1>2, <1>3, AckedBefore
  <2>2. CASE g \in Sent(i, r, nw)
    BY <1>3, <2>1, <2>2 DEF VoteInformed, NodeLogOK, BaseLogOK
  <2>3. CASE g \notin Sent(i, r, nw) /\ Has(r.log, c, t)
    <3>1. r.log \in Seq(Entry) /\ Len(r.log) \in Nat /\ c \in 1 .. Len(r.log)
      BY <2>3, SeqLen DEF Node, Has
    <3>2. r.log[c].term <= r.log[Len(r.log)].term
      BY SMT, <3>1, TermsOrdered DEF NodeLogOK, BaseLogOK
    <3>3. LastTerm(r.log) = r.log[Len(r.log)].term /\ LastTerm(r.log) \in Nat
      BY SMT, <3>1, LastTermType DEF LastTerm, TermAt
    <3>4. t <= LastTerm(r.log) /\ c <= Len(r.log)
      BY SMT, <2>3, <3>1, <3>2, <3>3 DEF Has
    <3>5. /\ m.logTerm \in Nat /\ m.index \in Nat
          /\ \/ m.logTerm > LastTerm(r.log)
             \/ m.logTerm = LastTerm(r.log) /\ m.index >= Len(r.log)
      BY DEF VoteRequest, UpToDate
    <3>6. \/ m.logTerm > t
          \/ m.logTerm = t /\ m.index >= c
      BY ONLY SMTT(30), <3>1, <3>3, <3>4, <3>5, t \in Nat, c \in Nat
    <3>7. IsRequest(m) /\ m.from = g.to /\ m.term = g.term
      BY <1>2, <2>3 DEF IsRequest, VoteRequest
    <3> QED
      BY <3>6, <3>7 DEF Asks
  <2>4. CASE Blocked(c, t, nw, hs)
    BY <2>4
  <2>5. Has(r.log, c, t) \/ Blocked(c, t, nw, hs)
    BY <1>3, <2>1 DEF AckKept, NodeLogOK, BaseLogOK
  <2> QED
    BY <2>2, <2>3, <2>4, <2>5
<1>4. VoteInformed(i, Sent(i, n, nw), ll, nw, hs)
  BY <1>3 DEF VoteInformed
<1>5. BaseLogOK(i, n, ll, nw, hs)
  BY <1>1, <1>4, BaseSame DEF NodeLogOK
<1> QED
  BY <1>5 DEF NodeLogOK, CandidateOK, LeaderOK

(* The start of an election in a new term. *)
LEMMA CampaignLog ==
    ASSUME NEW i \in Server, NEW r \in Node, NEW n \in Node,
           NEW nw \in SUBSET Message, NEW hs \in [Server -> HardState], NEW el,
           NEW ll \in LeaderLogs, NodeLogOK(i, r, ll, nw, hs, el),
           \A m \in Sent(i, r, nw) : m.term <= r.Term,
           Elected(i, n.Term) \notin el,
           n.log = r.log, n.committed = r.committed, n.Term = r.Term + 1,
           n.State = "StateCandidate",
           \A q \in n.msgs \ r.msgs :
               /\ q \in VoteRequest /\ q.term = n.Term
               /\ q.index = Len(r.log) /\ q.logTerm = LastTerm(r.log)
    PROVE  NodeLogOK(i, n, ll, nw, hs, el)
<1>0. r.Term \in Nat /\ n.Term >= r.Term /\ ~(n.Term <= r.Term)
  <2>1. r.Term \in Nat
    BY DEF Node
  <2> QED
    BY ONLY SMTT(30), <2>1, n.Term = r.Term + 1
<1>1. \A q \in n.msgs \ r.msgs : Aside(q) /\ ~Granted(q)
  BY DEF Granted, Aside, Accepts, VoteRequest
<1>2. \A q \in Sent(i, n, nw) \ Sent(i, r, nw) : Aside(q) /\ ~Granted(q) /\ q \in n.msgs \ r.msgs
  BY <1>1 DEF Sent
<1>3. VoteInformed(i, Sent(i, n, nw), ll, nw, hs)
  <2> SUFFICES ASSUME NEW g \in Sent(i, n, nw), Granted(g), NEW t \in Nat, NEW c \in Nat,
                      t < g.term, Has(ll[t], c, t), Acked(i, c, t, Sent(i, n, nw))
               PROVE  \/ \E q \in nw : Asks(q, g.to, g.term, c, t)
                      \/ Blocked(c, t, nw, hs)
    BY DEF VoteInformed
  <2>1. g \in Sent(i, r, nw) /\ Acked(i, c, t, Sent(i, r, nw))
    BY <1>2, AckedBefore
  <2> QED
    BY <2>1 DEF VoteInformed, NodeLogOK, BaseLogOK
<1>4. BaseLogOK(i, n, ll, nw, hs)
  BY <1>0, <1>1, <1>3, BaseSame DEF NodeLogOK
<1>5. ASSUME NEW q \in Sent(i, n, nw), q.term = n.Term
      PROVE  q.index = Len(n.log) /\ q.logTerm = LastTerm(n.log)
  <2>1. q \notin Sent(i, r, nw)
    BY <1>0, <1>5
  <2> QED
    BY <1>2, <2>1
<1> QED
  BY <1>4, <1>5 DEF NodeLogOK, CandidateOK, LeaderOK

-----------------------------------------------------------------------------
(* Steps that change the log of a follower *)

(* The append a follower accepts: the log agrees with the leader's as far as
   the message reaches, and keeps what agreed with it before. *)
LEMMA AcceptLog ==
    ASSUME SetFacts, MergeFacts, NEW i \in Server, NEW r \in Node, NEW n \in Node,
           NEW nw \in SUBSET Message, NEW hs \in [Server -> HardState], NEW el,
           NEW ll \in LeaderLogs, NodeLogOK(i, r, ll, nw, hs, el),
           LeaderLogsOK(ll, nw, hs, el),
           \A q \in Sent(i, r, nw) : q.term <= r.Term,
           NEW m \in nw, m \in AppendRequest, MsgLogOK(m, ll, nw),
           ll[m.term] # << >>, m.term = n.Term, n.Term >= r.Term,
           m.index <= Len(r.log), TermAt(r.log, m.index) = m.logTerm,
           n.State = "StateFollower",
           n.log = Merge(r.log, m.index, m.entries),
           n.committed = IF m.commit > r.committed THEN m.commit ELSE r.committed,
           \A a \in n.msgs \ r.msgs :
               /\ Accepts(a) /\ a.from = i /\ a.term = n.Term
               /\ a.index = m.index + Len(m.entries)
    PROVE  NodeLogOK(i, n, ll, nw, hs, el)
<1> DEFINE T == n.Term
           lead == ll[T]
           lastNew == m.index + Len(m.entries)
<1>1. /\ T \in Nat /\ r.Term \in Nat /\ r.committed \in Nat /\ n.committed \in Nat
      /\ r.log \in Seq(Entry) /\ n.log \in Seq(Entry)
  BY DEF Node
<1>2. /\ m.index \in Nat /\ m.commit \in Nat /\ m.entries \in Seq(Entry)
      /\ m.mtype = "MsgAppend"
  BY DEF AppendRequest
<1>3. Len(m.entries) \in Nat /\ lastNew \in Nat /\ Len(n.log) \in Nat
  BY SMT, <1>1, <1>2, SeqLen
<1>4. lead \in Seq(Entry) /\ OfLeaders(lead, ll) /\ Len(lead) \in Nat
  BY <1>1, LeaderLogAt DEF LeaderLogsOK
<1>5. OfLeaders(r.log, ll) /\ AckKept(i, Sent(i, r, nw), r.log, ll, nw, hs)
  BY DEF NodeLogOK, BaseLogOK
<1>6. /\ Fragment(m, lead) /\ CommitIn(lead, m.commit, T, ll, nw) /\ m.commit <= lastNew
  BY <1>2 DEF MsgLogOK
<1>7. /\ Same(n.log, lead, lastNew)
      /\ \A k \in Nat : Same(r.log, lead, k) => Same(n.log, lead, k)
      /\ OfLeaders(n.log, ll)
  <2>1. m.index \in 0 .. Len(r.log)
    BY <1>1, <1>2
  <2>2. MergeIs(r.log, m.index, m.entries, n.log)
    BY <1>1, <1>2, <2>1 DEF MergeFacts
  <2>3. /\ TermAt(r.log, m.index) = TermAt(lead, m.index) /\ lastNew <= Len(lead)
        /\ \A k \in 1 .. Len(m.entries) : /\ m.entries[k].term = lead[m.index + k].term
                                          /\ m.entries[k].data = lead[m.index + k].data
    BY <1>6 DEF Fragment
  <2> HIDE DEF lead
  <2> QED
    BY Zenon, <1>1, <1>2, <1>4, <1>5, <2>1, <2>2, <2>3, AcceptedLog
<1>8. ASSUME NEW t \in Nat, NEW k \in Nat, Has(r.log, k, t), Has(lead, k, t)
      PROVE  Has(n.log, k, t)
  <2>1. Same(r.log, lead, k)
    BY <1>1, <1>4, <1>5, <1>8, SharedEntry
  <2>2. Same(n.log, lead, k) /\ k <= k
    BY <1>7, <2>1
  <2> QED
    BY ONLY SMTT(30), <1>1, <1>4, <1>8, <2>2, SameHas, k \in Nat
<1>9. AckKept(i, Sent(i, n, nw), n.log, ll, nw, hs)
  <2> SUFFICES ASSUME NEW t \in Nat, NEW c \in Nat, Has(ll[t], c, t),
                      Acked(i, c, t, Sent(i, n, nw)), ~Blocked(c, t, nw, hs)
               PROVE  Has(n.log, c, t)
    BY DEF AckKept
  <2>1. PICK a \in Sent(i, n, nw) : Covers(a, i, c, t)
    BY DEF Acked
  <2>2. CASE a \in Sent(i, r, nw)
    <3>1. Has(r.log, c, t) /\ t <= r.Term
      BY <1>5, <2>1, <2>2 DEF AckKept, Acked, Covers
    <3>2. t \in 0 .. T - 1 \/ t = T
      BY ONLY SMTT(30), <1>1, <3>1, n.Term >= r.Term, t \in Nat
    <3>3. Has(lead, c, t)
      BY <1>1, <3>2 DEF LeaderLogsOK
    <3> QED
      BY <1>8, <3>1, <3>3
  <2>3. CASE a \notin Sent(i, r, nw)
    <3>1. a \in n.msgs \ r.msgs
      BY <2>3 DEF Sent
    <3>2. t = T /\ c <= lastNew
      BY <2>1, <3>1 DEF Covers, Accepts
    <3> QED
      BY <1>1, <1>3, <1>4, <1>7, <3>2, SameHas
  <2> QED
    BY <2>2, <2>3
<1>10. VoteInformed(i, Sent(i, n, nw), ll, nw, hs)
  <2> SUFFICES ASSUME NEW g \in Sent(i, n, nw), Granted(g), NEW t \in Nat, NEW c \in Nat,
                      t < g.term, Has(ll[t], c, t), Acked(i, c, t, Sent(i, n, nw))
               PROVE  \/ \E q \in nw : Asks(q, g.to, g.term, c, t)
                      \/ Blocked(c, t, nw, hs)
    BY DEF VoteInformed
  <2>1. g \in Sent(i, r, nw) /\ g.term <= r.Term
    BY DEF Sent, Granted, Accepts
  <2>2. t # T
    <3>1. g.term \in Nat
      BY <2>1, MessageKinds DEF Sent, Node
    <3> QED
      BY ONLY SMTT(30), <1>1, <2>1, <3>1, t \in Nat, t < g.term, n.Term >= r.Term
  <2>3. Acked(i, c, t, Sent(i, r, nw))
    BY <2>2 DEF Acked, Covers, Sent
  <2> QED
    BY <2>1, <2>3 DEF VoteInformed, NodeLogOK, BaseLogOK
<1>11. CommitIn(n.log, n.committed, T, ll, nw)
  <2>1. CASE m.commit > r.committed
    <3>1. Same(n.log, lead, m.commit)
      BY SMT, <1>1, <1>2, <1>3, <1>4, <1>6, <1>7, SameAgain
    <3> QED
      BY SMT, <1>1, <1>2, <1>4, <1>6, <2>1, <3>1, CommitCarried
  <2>2. CASE ~(m.commit > r.committed)
    <3>1. CommitIn(r.log, r.committed, r.Term, ll, nw) /\ r.Term \in 0 .. T
      BY <1>1 DEF NodeLogOK, BaseLogOK
    <3>2. Same(r.log, lead, r.committed)
      BY <1>1, <3>1, CommitCarried
    <3>3. Same(n.log, lead, r.committed)
      BY <1>1, <1>7, <3>2
    <3> QED
      BY <1>1, <2>2, <3>1, <3>3, CommitCarried
  <2> QED
    BY <2>1, <2>2
<1>12. n.committed >= hs[i].commit /\ n.Term >= hs[i].term
  <2>1. hs[i].commit \in Nat /\ hs[i].term \in Nat
    BY DEF HardState
  <2>2. r.committed >= hs[i].commit /\ r.Term >= hs[i].term
    BY DEF NodeLogOK, BaseLogOK
  <2> QED
    BY ONLY SMTT(30), <1>1, <1>2, <2>1, <2>2, n.Term >= r.Term,
       n.committed = IF m.commit > r.committed THEN m.commit ELSE r.committed
<1>13. ASSUME NEW a \in n.msgs
       PROVE  a.term >= hs[i].term /\ MsgLogOK(a, ll, nw)
  <2>1. CASE a \in r.msgs
    BY <2>1 DEF NodeLogOK, BaseLogOK
  <2>2. CASE a \notin r.msgs
    <3>1. Covers(m, m.from, a.index, a.term)
      BY SMT, <1>2, <1>3, <2>2 DEF Covers
    <3>2. a.index <= Len(lead) /\ a.mtype # "MsgAppend"
      BY <1>6, <2>2 DEF Fragment, Accepts
    <3> QED
      BY <1>2, <1>12, <2>2, <3>1, <3>2 DEF MsgLogOK
  <2> QED
    BY <2>1, <2>2
<1> QED
  BY <1>7, <1>9, <1>10, <1>11, <1>12, <1>13
     DEF NodeLogOK, BaseLogOK, CandidateOK, LeaderOK

-----------------------------------------------------------------------------
(* The handlers *)

LEMMA EnterLog ==
    ASSUME NEW i \in Server, NEW r \in Node, NEW m \in Message,
           NEW nw \in SUBSET Message, NEW hs \in [Server -> HardState], NEW el,
           NEW ll \in LeaderLogs, NodeLogOK(i, r, ll, nw, hs, el), m.term >= r.Term,
           NEW n, n = Enter(r, m)
    PROVE  /\ n \in Node /\ NodeLogOK(i, n, ll, nw, hs, el)
           /\ n.Term = m.term /\ n.msgs = r.msgs
           /\ n.State # "StateFollower" => n = r
<1>1. r.Term \in Nat /\ m.term \in Nat
  BY MessageKinds DEF Node
<1>2. CASE m.term > r.Term
  <2>1. n = becomeFollower(r, m.term, None)
    BY <1>2 DEF Enter
  <2>2. /\ n.Term = m.term /\ n.State = "StateFollower"
        /\ n.log = r.log /\ n.msgs = r.msgs /\ n.committed = r.committed
    BY ONLY r \in Node, <1>1, <1>2, <2>1 DEF becomeFollower, Node
  <2>3. n \in Node
    BY ONLY Zenon, r \in Node, <1>1, <1>2, <2>1 DEF becomeFollower, Node
  <2> QED
    BY <2>2, <2>3, QuietLog
<1>3. CASE ~(m.term > r.Term)
  BY <1>1, <1>3 DEF Enter
<1> QED
  BY <1>2, <1>3

(* MsgRequestVote. *)
LEMMA HandleRequestVoteLog ==
    ASSUME NEW i \in Server, NEW r \in Node,
           NEW nw \in SUBSET Message, NEW hs \in [Server -> HardState], NEW el,
           NEW ll \in LeaderLogs, NodeLogOK(i, r, ll, nw, hs, el),
           \A t \in Nat : LogUpTo(ll[t], t),
           NEW m \in nw, m \in VoteRequest, m.term = r.Term,
           NEW n \in Node, n = handleRequestVote(i, r, m)
    PROVE  NodeLogOK(i, n, ll, nw, hs, el) /\ SameLeader(r, n)
<1> DEFINE grant == /\ r.State = "StateFollower"
                    /\ r.Vote \in {None, m.from}
                    /\ UpToDate(r, m)
           a == [mtype |-> "MsgRequestVoteResponse", from |-> i, to |-> m.from,
                 term |-> r.Term, reject |-> ~grant]
<1>1. r.Term \in Nat
  BY DEF Node
<1>2. /\ n.Term = r.Term /\ n.State = r.State /\ n.log = r.log
      /\ n.committed = r.committed /\ n.match = r.match /\ n.msgs = r.msgs \cup {a}
  BY ONLY r \in Node, n = handleRequestVote(i, r, m) DEF handleRequestVote, Node
<1>3. SameLeader(r, n)
  BY <1>2 DEF SameLeader
<1>4. /\ a.to = m.from /\ a.term = r.Term /\ (Granted(a) <=> grant)
      /\ ~grant => Silent(a)
  BY Zenon DEF Granted, Silent, Aside, Accepts, IsRequest
<1>5. UpToDate(r, m) => UpToDate(n, m)
  BY ONLY <1>2 DEF UpToDate
<1> HIDE DEF a, grant
<1>6. CASE ~grant
  <2>1. n.Term >= r.Term /\ \A q \in n.msgs \ r.msgs : Silent(q) /\ q.term = n.Term
    BY ONLY <1>1, <1>2, <1>4, <1>6
  <2> QED
    BY <1>3, <1>2, <2>1, QuietLog
<1>7. CASE grant
  <2>1. n.State = "StateFollower" /\ UpToDate(n, m)
    BY <1>2, <1>5, <1>7 DEF grant
  <2>2. /\ n.Term >= r.Term /\ m.term = n.Term
        /\ \A q \in n.msgs \ r.msgs : Granted(q) /\ q.to = m.from /\ q.term = n.Term
    BY ONLY <1>1, <1>2, <1>4, <1>7, m.term = r.Term
  <2> QED
    BY <1>3, <1>2, <2>1, <2>2, GrantLog
<1> QED
  BY <1>3, <1>6, <1>7

(* MsgAppend. *)
LEMMA HandleAppendLog ==
    ASSUME SetFacts, MergeFacts, NEW i \in Server, NEW r \in Node,
           NEW nw \in SUBSET Message, NEW hs \in [Server -> HardState], NEW el,
           NEW ll \in LeaderLogs, NodeLogOK(i, r, ll, nw, hs, el),
           LeaderLogsOK(ll, nw, hs, el),
           \A q \in Sent(i, r, nw) : q.term <= r.Term,
           NEW m \in nw, m \in AppendRequest, m.term = r.Term,
           MsgLogOK(m, ll, nw), Elected(m.from, m.term) \in el,
           NEW n \in Node, n = handleAppend(i, r, m)
    PROVE  NodeLogOK(i, n, ll, nw, hs, el) /\ SameLeader(r, n)
<1> DEFINE Answer(reject, index) ==
               [mtype |-> "MsgAppendResponse", from |-> i, to |-> m.from,
                term |-> r.Term, reject |-> reject, index |-> index]
           lastNew == m.index + Len(m.entries)
<1>1. r.Term \in Nat
  BY DEF Node
<1>2. /\ m.index \in Nat /\ m.commit \in Nat /\ m.entries \in Seq(Entry)
      /\ m.mtype = "MsgAppend" /\ Len(m.entries) \in Nat
  BY SeqLen DEF AppendRequest
<1>3. CASE r.State = "StateCandidate"
  <2>1. /\ n.Term = r.Term /\ n.log = r.log /\ n.State = "StateFollower"
        /\ n.committed = r.committed /\ n.msgs = r.msgs
    BY ONLY r \in Node, n = handleAppend(i, r, m), m.term = r.Term, <1>1, <1>3
       DEF handleAppend, becomeFollower, Node
  <2>2. NodeLogOK(i, n, ll, nw, hs, el)
    BY SMT, <1>1, <2>1, QuietLog
  <2> QED
    BY <2>1, <2>2 DEF SameLeader
<1>4. CASE r.State # "StateCandidate"
  <2> DEFINE f == IF r.State = "StateLeader" THEN becomeFollower(r, m.term, m.from)
                  ELSE [r EXCEPT !.Lead = m.from]
  <2>1. /\ f.Term = r.Term /\ f.State = "StateFollower"
        /\ f.log = r.log /\ f.msgs = r.msgs /\ f.committed = r.committed
    BY ONLY r \in Node, m.term = r.Term, <1>1, <1>4 DEF becomeFollower, Node
  <2>2. f \in Node
    <3>1. m.from \in Server /\ m.term \in Nat
      BY DEF AppendRequest
    <3>2. [r EXCEPT !.Lead = m.from] \in Node
      BY ONLY Zenon, r \in Node, <3>1 DEF Node
    <3>3. becomeFollower(r, m.term, m.from) \in Node
      BY ONLY Zenon, r \in Node, <3>1 DEF becomeFollower, Node
    <3> QED
      BY <3>2, <3>3
  <2>3. n = handleAppendEntries(i, f, m)
    BY ONLY n = handleAppend(i, r, m), <1>4 DEF handleAppend
  <2> HIDE DEF f
  <2>4. CASE m.index > Len(f.log) \/ TermAt(f.log, m.index) # m.logTerm
    <3>1. /\ n.Term = r.Term /\ n.log = r.log /\ n.committed = r.committed
          /\ n.State = "StateFollower"
          /\ \E index : n.msgs = r.msgs \cup {Answer(TRUE, index)}
      <4>1. CASE m.index > Len(f.log)
        BY ONLY Zenon, <2>1, <2>2, <2>3, <4>1
           DEF handleAppendEntries, appendResponse, Node
      <4>2. CASE ~(m.index > Len(f.log)) /\ TermAt(f.log, m.index) # m.logTerm
        BY ONLY Zenon, <2>1, <2>2, <2>3, <4>2
           DEF handleAppendEntries, appendResponse, Node
      <4> QED
        BY Zenon, <2>4, <4>1, <4>2
    <3>2. \A index : Silent(Answer(TRUE, index)) /\ Answer(TRUE, index).term = r.Term
      BY DEF Silent, Aside, Accepts, Granted, IsRequest
    <3> HIDE DEF Answer
    <3>3. \A q \in n.msgs \ r.msgs : Silent(q) /\ q.term = n.Term
      BY Zenon, <3>1, <3>2
    <3>4. n.Term >= r.Term
      BY SMT, <1>1, <3>1
    <3>5. NodeLogOK(i, n, ll, nw, hs, el)
      BY Zenon, <1>1, <3>1, <3>3, <3>4, QuietLog
    <3> QED
      BY <3>1, <3>5 DEF SameLeader
  <2>5. CASE ~(m.index > Len(f.log)) /\ TermAt(f.log, m.index) = m.logTerm
    <3>1. /\ n.Term = r.Term /\ n.State = "StateFollower"
          /\ n.log = Merge(r.log, m.index, m.entries)
          /\ n.committed = (IF m.commit > r.committed THEN min(m.commit, lastNew)
                            ELSE r.committed)
          /\ n.msgs = r.msgs \cup {Answer(FALSE, lastNew)}
      BY ONLY <2>1, <2>2, <2>3, <2>5 DEF handleAppendEntries, appendResponse, Node
    <3>2. min(m.commit, lastNew) = m.commit
      <4>1. m.commit <= lastNew
        BY <1>2 DEF MsgLogOK
      <4> QED
        BY ONLY SMTT(30), <1>2, <4>1 DEF min
    <3>3. /\ Accepts(Answer(FALSE, lastNew)) /\ Answer(FALSE, lastNew).from = i
          /\ Answer(FALSE, lastNew).term = r.Term
          /\ Answer(FALSE, lastNew).index = lastNew
      BY DEF Accepts
    <3>4. m.index <= Len(r.log) /\ TermAt(r.log, m.index) = m.logTerm
      <4>1. Len(r.log) \in Nat
        BY SeqLen DEF Node
      <4> QED
        BY <1>2, <2>1, <2>5, <4>1
    <3>5. ll[m.term] # << >>
      BY <1>1 DEF LeaderLogsOK, Elected
    <3> HIDE DEF Answer
    <3>6. \A a \in n.msgs \ r.msgs :
              Accepts(a) /\ a.from = i /\ a.term = n.Term /\ a.index = lastNew
      BY Zenon, <3>1, <3>3
    <3>7. n.committed = IF m.commit > r.committed THEN m.commit ELSE r.committed
      BY <3>1, <3>2
    <3>8. n.Term >= r.Term /\ m.term = n.Term
      BY SMT, <1>1, <3>1
    <3>9. NodeLogOK(i, n, ll, nw, hs, el)
      BY Zenon, <1>1, <3>1, <3>4, <3>5, <3>6, <3>7, <3>8, AcceptLog
    <3> QED
      BY <3>1, <3>9 DEF SameLeader
  <2>6. m.index > Len(f.log) \/ ~(m.index > Len(f.log))
    OBVIOUS
  <2> QED
    BY <2>4, <2>5, <2>6
<1> QED
  BY <1>3, <1>4

(* MsgHeartbeat. *)
LEMMA HandleHeartbeatLog ==
    ASSUME NEW i \in Server, NEW r \in Node, NEW m \in Heartbeat,
           NEW nw \in SUBSET Message, NEW hs \in [Server -> HardState], NEW el,
           NEW ll \in LeaderLogs, NodeLogOK(i, r, ll, nw, hs, el), m.term = r.Term,
           NEW n \in Node, n = handleHeartbeat(i, r, m)
    PROVE  NodeLogOK(i, n, ll, nw, hs, el) /\ SameLeader(r, n)
<1> DEFINE a == [mtype |-> "MsgHeartbeatResponse", from |-> i, to |-> m.from,
                 term |-> r.Term]
<1>1. r.Term \in Nat
  BY DEF Node
<1>2. /\ n.Term = r.Term /\ n.State = "StateFollower" /\ n.log = r.log
      /\ n.committed = r.committed /\ n.msgs = r.msgs \cup {a}
  BY ONLY r \in Node, n = handleHeartbeat(i, r, m), m.term = r.Term, <1>1
     DEF handleHeartbeat, becomeFollower, Node
<1>3. Silent(a) /\ a.term = r.Term
  BY DEF Silent, Aside, Accepts, Granted, IsRequest
<1> HIDE DEF a
<1>4. NodeLogOK(i, n, ll, nw, hs, el)
  BY SMT, <1>1, <1>2, <1>3, QuietLog
<1> QED
  BY <1>2, <1>4 DEF SameLeader

(* MsgBeat. *)
LEMMA BeatLog ==
    ASSUME NEW i \in Server, NEW r \in Node,
           NEW nw \in SUBSET Message, NEW hs \in [Server -> HardState], NEW el,
           NEW ll \in LeaderLogs, NodeLogOK(i, r, ll, nw, hs, el),
           NEW n \in Node, n = beat(i, r)
    PROVE  NodeLogOK(i, n, ll, nw, hs, el) /\ SameLeader(r, n)
<1> DEFINE Msg(j) == [mtype |-> "MsgHeartbeat", from |-> i, to |-> j, term |-> r.Term]
<1>1. r.Term \in Nat
  BY DEF Node
<1>2. /\ n.Term = r.Term /\ n.State = r.State /\ n.log = r.log /\ n.match = r.match
      /\ n.committed = r.committed
      /\ n.msgs = r.msgs \cup {Msg(j) : j \in Server \ {i}}
  BY ONLY r \in Node, n = beat(i, r) DEF beat, Node
<1>3. \A j : Silent(Msg(j)) /\ Msg(j).term = r.Term
  BY DEF Silent, Aside, Accepts, Granted, IsRequest
<1> HIDE DEF Msg
<1>4. \A q \in n.msgs \ r.msgs : Silent(q) /\ q.term = n.Term
  BY <1>2, <1>3
<1>5. NodeLogOK(i, n, ll, nw, hs, el)
  BY SMT, <1>1, <1>2, <1>4, QuietLog
<1> QED
  BY <1>2, <1>5 DEF SameLeader

(* MsgHup in a group of several members. *)
LEMMA HupLog ==
    ASSUME ~Single, NEW i \in Server, NEW r \in Node,
           NEW nw \in SUBSET Message, NEW hs \in [Server -> HardState], NEW el,
           NEW ll \in LeaderLogs, NodeLogOK(i, r, ll, nw, hs, el),
           \A m \in Sent(i, r, nw) : m.term <= r.Term,
           \A e \in el : ElectionOK(e, nw),
           NEW n \in Node, n = campaign(i, r)
    PROVE  NodeLogOK(i, n, ll, nw, hs, el) /\ n.State = "StateCandidate"
<1> DEFINE c == [r EXCEPT !.State = "StateCandidate",
                          !.Term = @ + 1,
                          !.Lead = None,
                          !.Vote = i,
                          !.granted = {i},
                          !.rejected = {}]
           Msg(j) == [mtype |-> "MsgRequestVote", from |-> i, to |-> j,
                      term |-> n.Term, index |-> Len(r.log),
                      logTerm |-> LastTerm(r.log)]
<1>1. r.Term \in Nat /\ r.log \in Seq(Entry)
  BY DEF Node
<1>2. /\ c.State = "StateCandidate" /\ c.Term = r.Term + 1 /\ c.log = r.log
      /\ c.committed = r.committed /\ c.msgs = r.msgs
  BY ONLY r \in Node DEF Node
<1>3. becomeCandidate(i, r) = c
  BY DEF becomeCandidate
<1>4. c \in Node
  <2>1. r.Term + 1 \in Nat /\ {i} \in SUBSET Server /\ {} \in SUBSET Server
    BY <1>1
  <2> QED
    BY ONLY Zenon, r \in Node, <2>1 DEF Node
<1> HIDE DEF c
<1>5. /\ n.State = "StateCandidate" /\ n.Term = r.Term + 1 /\ n.log = r.log
      /\ n.committed = r.committed
      /\ n.msgs = r.msgs \cup {Msg(j) : j \in Server \ {i}}
  BY ONLY n = campaign(i, r), <1>2, <1>3, <1>4 DEF campaign, Node
<1>6. n.Term \in Nat /\ Len(r.log) \in Nat /\ LastTerm(r.log) \in Nat
  BY SMT, <1>1, <1>5, SeqLen, LastTermType
<1>7. \A j \in Server : /\ Msg(j) \in VoteRequest /\ Msg(j).term = n.Term
                        /\ Msg(j).index = Len(r.log) /\ Msg(j).logTerm = LastTerm(r.log)
  BY <1>6 DEF VoteRequest
<1> HIDE DEF Msg
<1>8. Elected(i, n.Term) \notin el
  <2> SUFFICES ASSUME Elected(i, n.Term) \in el PROVE FALSE
    OBVIOUS
  <2>1. Requested(i, n.Term, nw)
    BY DEF ElectionOK, Elected
  <2>2. PICK q \in Sent(i, r, nw) : q.term = n.Term
    BY <2>1 DEF Requested, Sent
  <2>3. n.Term <= r.Term
    BY <2>2
  <2> QED
    BY ONLY SMTT(30), <1>1, <1>5, <2>3
<1>9. \A q \in n.msgs \ r.msgs :
          /\ q \in VoteRequest /\ q.term = n.Term
          /\ q.index = Len(r.log) /\ q.logTerm = LastTerm(r.log)
  BY <1>5, <1>7
<1> QED
  BY <1>1, <1>5, <1>8, <1>9, CampaignLog

-----------------------------------------------------------------------------
(* What does not move while the leaders' logs grow *)

LEMMA SentLogOK ==
    ASSUME NEW i \in Server, NEW r \in Node, NEW nw \in SUBSET Message, NEW hs,
           NEW ll, BaseLogOK(i, r, ll, nw, hs), \A m \in nw : MsgLogOK(m, ll, nw)
    PROVE  /\ Sent(i, r, nw) \in SUBSET Message
           /\ \A m \in Sent(i, r, nw) : MsgLogOK(m, ll, nw)
BY DEF Sent, BaseLogOK, Node

(* A node other than the leader whose log grows. *)
LEMMA NodeGrows ==
    ASSUME NEW i \in Server, NEW r \in Node, NEW nw \in SUBSET Message,
           NEW hs \in [Server -> HardState], NEW el, NEW em,
           NEW ll \in LeaderLogs, NEW lm \in LeaderLogs, Extends(ll, lm),
           NodeLogOK(i, r, ll, nw, hs, el), \A m \in nw : MsgLogOK(m, ll, nw),
           r.State = "StateLeader" => lm[r.Term] = ll[r.Term],
           Elected(i, r.Term) \in em => Elected(i, r.Term) \in el
    PROVE  NodeLogOK(i, r, lm, nw, hs, em)
<1>1. BaseLogOK(i, r, ll, nw, hs)
  BY DEF NodeLogOK
<1>2. /\ Sent(i, r, nw) \in SUBSET Message
      /\ \A m \in Sent(i, r, nw) : MsgLogOK(m, ll, nw)
  BY <1>1, SentLogOK
<1>3. r.log \in Seq(Entry) /\ r.committed \in Nat /\ r.Term \in Nat /\ r.msgs \subseteq Message
  BY DEF Node
<1>4. OfLeaders(r.log, lm)
  BY <1>1, <1>3, OfLeadersGrows DEF BaseLogOK
<1>5. \A m \in r.msgs : m.term >= hs[i].term /\ MsgLogOK(m, lm, nw)
  BY <1>1, <1>3, MsgLogGrows DEF BaseLogOK
<1>6. AckKept(i, Sent(i, r, nw), r.log, lm, nw, hs)
  BY <1>1, <1>2, AckKeptGrows DEF BaseLogOK
<1>7. VoteInformed(i, Sent(i, r, nw), lm, nw, hs)
  BY <1>1, <1>2, VoteInformedGrows DEF BaseLogOK
<1>8. CommitIn(r.log, r.committed, r.Term, lm, nw)
  BY <1>1, <1>3, CommitInGrows DEF BaseLogOK
<1>9. BaseLogOK(i, r, lm, nw, hs)
  BY <1>1, <1>4, <1>5, <1>6, <1>7, <1>8 DEF BaseLogOK
<1> QED
  BY <1>9 DEF NodeLogOK, CandidateOK, LeaderOK

(* What is saved stays in order when the leaders' logs grow. *)
LEMMA StableGrows ==
    ASSUME NEW i \in Server, NEW log \in Seq(Entry), NEW nw \in SUBSET Message,
           NEW hs \in [Server -> HardState],
           NEW ll \in LeaderLogs, NEW lm \in LeaderLogs, Extends(ll, lm),
           StableLogOK(i, log, ll, nw, hs), \A m \in nw : MsgLogOK(m, ll, nw)
    PROVE  StableLogOK(i, log, lm, nw, hs)
<1>1. hs[i].commit \in Nat /\ hs[i].term \in Nat
  BY DEF HardState
<1>2. OfLeaders(log, lm)
  BY OfLeadersGrows DEF StableLogOK
<1>3. AckKept(i, nw, log, lm, nw, hs)
  BY AckKeptGrows DEF StableLogOK
<1>4. CommitIn(log, hs[i].commit, hs[i].term, lm, nw)
  BY <1>1, CommitInGrows DEF StableLogOK
<1> QED
  BY <1>2, <1>3, <1>4 DEF StableLogOK

-----------------------------------------------------------------------------
(* The steps of a leader *)

\* A MsgAppend as sendAppend builds it: it ends where the log ends.
CutFrom(m, i, r) ==
    /\ m.mtype = "MsgAppend" /\ m.from = i /\ m.term = r.Term
    /\ Fragment(m, r.log) /\ m.commit = r.committed
    /\ m.index + Len(m.entries) = Len(r.log)

(* sendAppend cuts its message out of the log of the node. *)
LEMMA SendFragment ==
    ASSUME NEW i \in Server, NEW j \in Server, NEW r \in Node,
           NEW m \in sendAppend(i, r, j)
    PROVE  CutFrom(m, i, r)
<1> DEFINE Msg(p) ==
             [mtype |-> "MsgAppend", from |-> i, to |-> j, term |-> r.Term,
              index |-> p, logTerm |-> TermAt(r.log, p),
              entries |-> [k \in 1 .. Len(r.log) - p |-> Wire(r.log[p + k])],
              commit |-> r.committed]
<1>1. PICK p \in 0 .. Len(r.log) : m = Msg(p)
  BY Zenon DEF sendAppend
<1>2. r.log \in Seq(Entry) /\ Len(r.log) \in Nat
  BY SeqLen DEF Node
<1> DEFINE es == [k \in 1 .. Len(r.log) - p |-> Wire(r.log[p + k])]
           S == {Wire(r.log[p + k]) : k \in 1 .. Len(r.log) - p}
<1>3. Len(r.log) - p \in Nat /\ es \in [1 .. Len(r.log) - p -> S]
  BY <1>2
<1> HIDE DEF S
<1>4. Len(es) = Len(r.log) - p
  BY <1>3, FunctionIsSeq
<1>5. \A k \in 1 .. Len(es) : es[k].term = r.log[p + k].term /\ es[k].data = r.log[p + k].data
  BY <1>4 DEF Wire
<1>6. /\ m.mtype = "MsgAppend" /\ m.from = i /\ m.term = r.Term /\ m.index = p
      /\ m.logTerm = TermAt(r.log, p) /\ m.entries = es /\ m.commit = r.committed
  BY <1>1
<1>7. p + Len(es) = Len(r.log)
  BY <1>2, <1>4
<1> HIDE DEF es
<1>8. Fragment(m, r.log)
  BY <1>2, <1>5, <1>6, <1>7 DEF Fragment
<1> QED
  BY <1>6, <1>7, <1>8 DEF CutFrom

(* So does every message of bcastAppend. *)
LEMMA BcastFragments ==
    ASSUME NEW i \in Server, NEW r \in Node, NEW n, n = bcastAppend(i, r)
    PROVE  /\ n.Term = r.Term /\ n.State = r.State /\ n.log = r.log
           /\ n.committed = r.committed /\ n.match = r.match
           /\ r.msgs \subseteq n.msgs
           /\ \A m \in n.msgs \ r.msgs : CutFrom(m, i, n)
<1>1. r.msgs \in SUBSET Message
  BY DEF Node
<1>2. /\ n.msgs = r.msgs \cup UNION {sendAppend(i, r, j) : j \in Server \ {i}}
      /\ n.Term = r.Term /\ n.State = r.State /\ n.log = r.log
      /\ n.committed = r.committed /\ n.match = r.match
  BY DEF bcastAppend, Node
<1>3. \A m \in n.msgs \ r.msgs : CutFrom(m, i, r)
  BY <1>2, SendFragment
<1> QED
  BY <1>2, <1>3 DEF CutFrom

(* A step that leaves i the leader of its term: its log is the term's leader
   log, which may have grown, and it sends heartbeats and pieces of the log. *)
LEMMA LeaderLog ==
    ASSUME NEW i \in Server, NEW r \in Node, NEW n \in Node,
           NEW nw \in SUBSET Message, NEW hs \in [Server -> HardState], NEW el, NEW em,
           NEW ll \in LeaderLogs, NEW lm \in LeaderLogs, Extends(ll, lm),
           NodeLogOK(i, r, ll, nw, hs, el), \A m \in nw : MsgLogOK(m, ll, nw),
           \A q \in Sent(i, r, nw) : q.term <= r.Term,
           n.State = "StateLeader", n.Term = r.Term, n.log = lm[n.Term],
           Grown(r.log, n.log), OfLeaders(n.log, lm),
           n.committed >= r.committed, n.committed <= Len(n.log),
           CommitIn(n.log, n.committed, n.Term, lm, nw),
           n.match[i] <= Len(n.log),
           \A j \in Server \ {i} : n.match[j] = 0 \/ Acked(j, n.match[j], n.Term, nw),
           \A m \in n.msgs \ r.msgs :
               m.term = n.Term /\ (Silent(m) \/ CutFrom(m, i, n))
    PROVE  NodeLogOK(i, n, lm, nw, hs, em)
<1> DEFINE T == n.Term
<1>1. /\ T \in Nat /\ r.committed \in Nat /\ n.committed \in Nat
      /\ r.log \in Seq(Entry) /\ n.log \in Seq(Entry) /\ r.msgs \subseteq Message
  BY DEF Node
<1>2. BaseLogOK(i, r, ll, nw, hs)
  BY DEF NodeLogOK
<1>3. /\ Sent(i, r, nw) \in SUBSET Message
      /\ \A m \in Sent(i, r, nw) : MsgLogOK(m, ll, nw)
  BY <1>2, SentLogOK
<1>4. AckKept(i, Sent(i, r, nw), r.log, lm, nw, hs)
  BY <1>2, <1>3, AckKeptGrows DEF BaseLogOK
<1>5. VoteInformed(i, Sent(i, r, nw), lm, nw, hs)
  BY <1>2, <1>3, VoteInformedGrows DEF BaseLogOK
<1>6. ASSUME NEW c \in Nat, NEW t \in Nat, t # T, Acked(i, c, t, Sent(i, n, nw))
      PROVE  Acked(i, c, t, Sent(i, r, nw))
  BY <1>6 DEF Acked, Covers, Sent
<1>7. AckKept(i, Sent(i, n, nw), n.log, lm, nw, hs)
  <2> SUFFICES ASSUME NEW t \in Nat, NEW c \in Nat, Has(lm[t], c, t),
                      Acked(i, c, t, Sent(i, n, nw)), ~Blocked(c, t, nw, hs)
               PROVE  Has(n.log, c, t)
    BY DEF AckKept
  <2>1. CASE t = T
    BY <2>1
  <2>2. CASE t # T
    <3>1. Has(r.log, c, t)
      BY <1>4, <1>6, <2>2 DEF AckKept
    <3>2. Len(r.log) \in Nat /\ Len(n.log) \in Nat
      BY <1>1, SeqLen
    <3> QED
      BY ONLY SMTT(30), <3>1, <3>2, Grown(r.log, n.log), c \in Nat DEF Grown, Has
  <2> QED
    BY <2>1, <2>2
<1>8. VoteInformed(i, Sent(i, n, nw), lm, nw, hs)
  <2> SUFFICES ASSUME NEW g \in Sent(i, n, nw), Granted(g), NEW t \in Nat, NEW c \in Nat,
                      t < g.term, Has(lm[t], c, t), Acked(i, c, t, Sent(i, n, nw))
               PROVE  \/ \E q \in nw : Asks(q, g.to, g.term, c, t)
                      \/ Blocked(c, t, nw, hs)
    BY DEF VoteInformed
  <2>1. g \in Sent(i, r, nw) /\ g.term <= T
    BY DEF Sent, Granted, Silent, CutFrom
  <2>2. t # T
    <3>1. g.term \in Nat
      BY <1>3, <2>1, MessageKinds
    <3> QED
      BY ONLY SMTT(30), <1>1, <2>1, <3>1, t \in Nat, t < g.term
  <2>3. Acked(i, c, t, Sent(i, r, nw))
    BY <1>6, <2>2
  <2> QED
    BY <1>5, <2>1, <2>3 DEF VoteInformed
<1>9. ASSUME NEW m \in n.msgs
      PROVE  m.term >= hs[i].term /\ MsgLogOK(m, lm, nw)
  <2>1. CASE m \in r.msgs
    BY <1>1, <1>2, <2>1, MsgLogGrows DEF BaseLogOK
  <2>2. CASE m \notin r.msgs
    <3>1. m.term = T /\ T >= hs[i].term
      BY <1>2, <2>2 DEF BaseLogOK
    <3>2. CASE Silent(m)
      BY <3>1, <3>2 DEF MsgLogOK, Silent, Aside
    <3>3. CASE CutFrom(m, i, n)
      <4>1. ~Accepts(m) /\ Fragment(m, lm[m.term]) /\ m.commit <= m.index + Len(m.entries)
        BY <3>1, <3>3 DEF CutFrom, Accepts
      <4>2. CommitIn(lm[m.term], m.commit, m.term, lm, nw)
        BY <3>1, <3>3 DEF CutFrom
      <4> QED
        BY <3>1, <4>1, <4>2 DEF MsgLogOK
    <3> QED
      BY <2>2, <3>2, <3>3
  <2> QED
    BY <2>1, <2>2
<1>10. n.committed >= hs[i].commit
  <2>1. hs[i].commit \in Nat /\ r.committed >= hs[i].commit
    BY <1>2 DEF HardState, BaseLogOK
  <2> QED
    BY ONLY SMTT(30), <1>1, <2>1, n.committed >= r.committed
<1>11. BaseLogOK(i, n, lm, nw, hs)
  BY Zenon, <1>2, <1>7, <1>8, <1>9, <1>10 DEF BaseLogOK
<1> QED
  BY <1>11 DEF NodeLogOK, CandidateOK, LeaderOK

(* A leader that appends nothing. *)
LEMMA SteadyLeaderLog ==
    ASSUME NEW i \in Server, NEW r \in Node, NEW n \in Node,
           NEW nw \in SUBSET Message, NEW hs \in [Server -> HardState], NEW el,
           NEW ll \in LeaderLogs, NodeLogOK(i, r, ll, nw, hs, el),
           LeaderLogsOK(ll, nw, hs, el), \A m \in nw : MsgLogOK(m, ll, nw),
           \A q \in Sent(i, r, nw) : q.term <= r.Term,
           r.State = "StateLeader", n.State = r.State, n.Term = r.Term, n.log = r.log,
           n.committed >= r.committed,
           CommitIn(r.log, n.committed, r.Term, ll, nw),
           n.match[i] = r.match[i],
           \A j \in Server \ {i} : n.match[j] = 0 \/ Acked(j, n.match[j], n.Term, nw),
           \A m \in n.msgs \ r.msgs : CutFrom(m, i, n)
    PROVE  NodeLogOK(i, n, ll, nw, hs, el)
<1>1. /\ r.log = ll[r.Term] /\ r.match[i] <= Len(r.log) /\ OfLeaders(r.log, ll)
  BY DEF NodeLogOK, LeaderOK, BaseLogOK
<1>2. n.committed \in Nat /\ r.log \in Seq(Entry) /\ Len(r.log) \in Nat
  BY SeqLen DEF Node
<1>3. n.committed <= Len(r.log)
  BY <1>2 DEF CommitIn, Same
<1>4. Extends(ll, ll) /\ Grown(r.log, n.log)
  BY SMT, <1>2, LeaderLogAt DEF Extends, Grown
<1>5. \A m \in n.msgs \ r.msgs : m.term = n.Term
  BY DEF CutFrom
<1> QED
  BY Zenon, <1>1, <1>3, <1>4, <1>5, LeaderLog

(* MsgHeartbeatResponse. *)
LEMMA HandleHeartbeatResponseLog ==
    ASSUME NEW i \in Server, NEW r \in Node, NEW m \in Heartbeat,
           NEW nw \in SUBSET Message, NEW hs \in [Server -> HardState], NEW el,
           NEW ll \in LeaderLogs, NodeLogOK(i, r, ll, nw, hs, el),
           LeaderLogsOK(ll, nw, hs, el), \A q \in nw : MsgLogOK(q, ll, nw),
           \A q \in Sent(i, r, nw) : q.term <= r.Term,
           NEW n \in Node, n = handleHeartbeatResponse(i, r, m)
    PROVE  NodeLogOK(i, n, ll, nw, hs, el) /\ SameLeader(r, n)
<1>1. r.committed \in Nat /\ m.from \in Server
  BY DEF Node, Heartbeat
<1>2. CASE r.State = "StateLeader" /\ r.next[m.from] <= Len(r.log)
  <2>1. /\ n.Term = r.Term /\ n.State = r.State /\ n.log = r.log
        /\ n.committed = r.committed /\ n.match = r.match
        /\ n.msgs = r.msgs \cup sendAppend(i, r, m.from)
    BY ONLY r \in Node, n = handleHeartbeatResponse(i, r, m), <1>2
       DEF handleHeartbeatResponse, Node
  <2>2. \A q \in n.msgs \ r.msgs : CutFrom(q, i, r)
    BY <1>1, <2>1, SendFragment
  <2>3. \A q \in n.msgs \ r.msgs : CutFrom(q, i, n)
    BY Zenon, <2>1, <2>2 DEF CutFrom
  <2>4. /\ CommitIn(r.log, n.committed, r.Term, ll, nw) /\ n.committed >= r.committed
        /\ \A j \in Server \ {i} : n.match[j] = 0 \/ Acked(j, n.match[j], n.Term, nw)
    BY SMT, <1>1, <1>2, <2>1 DEF NodeLogOK, BaseLogOK, LeaderOK
  <2>5. NodeLogOK(i, n, ll, nw, hs, el)
    BY <1>1, <1>2, <2>1, <2>3, <2>4, SteadyLeaderLog
  <2> QED
    BY <2>1, <2>5 DEF SameLeader
<1>3. CASE ~(r.State = "StateLeader" /\ r.next[m.from] <= Len(r.log))
  <2>1. n = r
    BY ONLY n = handleHeartbeatResponse(i, r, m), <1>3 DEF handleHeartbeatResponse
  <2> QED
    BY <2>1 DEF SameLeader
<1> QED
  BY <1>2, <1>3

(* A follower acknowledges what its leader has sent, so the leader, which saves
   before it sends, holds it too. *)
LEMMA LeaderAcked ==
    ASSUME NEW nw \in SUBSET Message, NEW el, OneLeader(el), NEW ll,
           \A m \in nw : MsgLogOK(m, ll, nw), \A m \in nw : MessageOK(m, nw, el),
           NEW t, NEW i \in Server, Elected(i, t) \in el,
           NEW v \in Server \ {i}, NEW c \in Nat, Acked(v, c, t, nw)
    PROVE  Acked(i, c, t, nw)
<1>1. PICK m \in nw : Covers(m, v, c, t)
  BY DEF Acked
<1>2. ASSUME NEW b \in nw, b.mtype = "MsgAppend", b.term = t
      PROVE  b.from = i
  <2>1. Elected(b.from, t) \in el
    BY <1>2 DEF MessageOK, FromLeader
  <2> QED
    BY <2>1 DEF OneLeader, Elected
<1>3. Accepts(m) /\ c <= m.index /\ m.term = t
  BY <1>1, <1>2 DEF Covers
<1>4. PICK b \in nw : b.mtype = "MsgAppend" /\ Covers(b, b.from, m.index, m.term)
  BY <1>3 DEF MsgLogOK
<1>5. Covers(b, i, m.index, t)
  BY <1>2, <1>3, <1>4 DEF Covers
<1>6. m.index \in Nat
  BY <1>3, MessageKinds DEF Accepts, AppendResponse
<1> QED
  BY <1>3, <1>5, <1>6, AckedLess DEF Acked

(* The commit index a leader takes from its progress table is that of a chosen
   entry: the members that reach it are a majority that has saved it. *)
LEMMA MedianChosen ==
    ASSUME SetFacts, ~Single, NEW i \in Server, NEW r \in Node,
           NEW nw \in SUBSET Message, NEW el, OneLeader(el), NEW ll \in LeaderLogs,
           \A m \in nw : MsgLogOK(m, ll, nw), \A m \in nw : MessageOK(m, nw, el),
           Elected(i, r.Term) \in el, LeaderOK(i, r, ll, nw), r.State = "StateLeader",
           medianMatch(r) > 0, TermAt(r.log, medianMatch(r)) = r.Term
    PROVE  CommitIn(r.log, medianMatch(r), r.Term, ll, nw)
<1> DEFINE c == medianMatch(r)
           T == r.Term
           M == {j \in Server : r.match[j] >= c}
<1>1. c \in {r.match[j] : j \in Server} /\ c \in Nat /\ IsMajority(M)
  BY DEF SetFacts
<1>2. /\ T \in Nat /\ r.log \in Seq(Entry) /\ Len(r.log) \in Nat
      /\ \A j \in Server : r.match[j] \in Nat
  BY SeqLen DEF Node
<1>3. /\ r.log = ll[T] /\ r.match[i] <= Len(r.log)
      /\ \A j \in Server \ {i} : r.match[j] = 0 \/ Acked(j, r.match[j], T, nw)
  BY DEF LeaderOK
<1> HIDE DEF c
<1>4. c > 0 /\ TermAt(r.log, c) = T
  BY DEF c
<1>5. PICK j \in Server : c = r.match[j]
  BY <1>1
<1>6. c <= Len(r.log)
  <2>1. CASE j = i
    BY <1>3, <1>5, <2>1
  <2>2. CASE j # i
    <3>1. Acked(j, c, T, nw)
      BY <1>1, <1>3, <1>4, <1>5, <2>2
    <3> QED
      BY Zenon, <1>1, <1>3, <3>1, AckedBound
  <2> QED
    BY <2>1, <2>2
<1>7. Has(ll[T], c, T)
  BY <1>1, <1>2, <1>3, <1>4, <1>6 DEF Has, TermAt
<1>8. ASSUME NEW u \in M, u # i PROVE Acked(u, c, T, nw)
  <2>1. r.match[u] \in Nat /\ r.match[u] >= c /\ r.match[u] # 0
    <3>1. r.match[u] \in Nat /\ r.match[u] >= c
      BY <1>2
    <3> QED
      BY ONLY SMTT(30), <1>1, <1>4, <3>1
  <2>2. Acked(u, r.match[u], T, nw)
    BY <1>3, <1>8, <2>1
  <2> QED
    BY <1>1, <2>1, <2>2, AckedLess
<1>9. Acked(i, c, T, nw)
  <2>1. PICK u \in M : u # i
    BY <1>1 DEF SetFacts
  <2> QED
    BY <1>1, <1>8, <2>1, LeaderAcked
<1>10. M \in SUBSET Server /\ \A u \in M : Acked(u, c, T, nw)
  BY <1>8, <1>9
<1>11. Chosen(c, T, ll, nw)
  BY <1>1, <1>7, <1>10 DEF Chosen
<1>12. Same(r.log, ll[T], c)
  BY <1>3, <1>6 DEF Same
<1>13. T \in 0 .. T /\ c <= c
  BY <1>1, <1>2
<1> QED
  BY <1>1, <1>11, <1>12, <1>13 DEF CommitIn, c

(* MsgAppendResponse. *)
LEMMA HandleAppendResponseLog ==
    ASSUME SetFacts, ~Single, NEW i \in Server, NEW r \in Node,
           NEW nw \in SUBSET Message, NEW hs \in [Server -> HardState],
           NEW el, OneLeader(el),
           NEW ll \in LeaderLogs, NodeLogOK(i, r, ll, nw, hs, el),
           LeaderLogsOK(ll, nw, hs, el), \A q \in nw : MsgLogOK(q, ll, nw),
           \A q \in nw : MessageOK(q, nw, el),
           \A q \in Sent(i, r, nw) : q.term <= r.Term,
           r.State = "StateLeader" => Elected(i, r.Term) \in el,
           NEW m \in nw, m \in AppendResponse, m.from # i, m.term = r.Term,
           NEW n \in Node, n = handleAppendResponse(i, r, m)
    PROVE  NodeLogOK(i, n, ll, nw, hs, el) /\ SameLeader(r, n)
<1> DEFINE back == [r EXCEPT !.next[m.from] = Dec(@)]
           acked == [r EXCEPT !.match[m.from] = m.index,
                              !.next[m.from] = m.index + 1]
           commit == medianMatch(acked)
           told == [acked EXCEPT !.committed = commit]
<1>1. back \in Node /\ acked \in Node /\ told \in Node
  <2>1. m.from \in Server /\ m.index \in Nat
    BY DEF AppendResponse
  <2>2. Dec(r.next[m.from]) \in Nat
    BY ONLY r \in Node, <2>1, DataAssumption DEF Dec, Node
  <2>3. back \in Node
    BY ONLY Zenon, r \in Node, <2>1, <2>2 DEF Node
  <2>4. /\ [r.match EXCEPT ![m.from] = m.index] \in [Server -> Nat]
        /\ [r.next EXCEPT ![m.from] = m.index + 1] \in [Server -> Nat]
    <3>1. r.match \in [Server -> Nat] /\ r.next \in [Server -> Nat]
      BY Zenon DEF Node
    <3> QED
      BY ONLY <2>1, <3>1
  <2>5. acked \in Node
    BY ONLY Zenon, r \in Node, <2>1, <2>4 DEF Node
  <2>6. commit \in Nat
    BY Zenon, <2>5 DEF SetFacts
  <2>7. told \in Node
    BY ONLY Zenon, r \in Node, <2>5, <2>6 DEF Node
  <2> QED
    BY <2>3, <2>5, <2>7
<1>2. /\ m.from \in Server /\ m.index \in Nat /\ m.mtype = "MsgAppendResponse"
      /\ r.committed \in Nat /\ r.Term \in Nat
  BY DEF AppendResponse, Node
<1>3. /\ back.Term = r.Term /\ back.State = r.State /\ back.log = r.log
      /\ back.msgs = r.msgs /\ back.match = r.match /\ back.committed = r.committed
      /\ acked.Term = r.Term /\ acked.State = r.State /\ acked.log = r.log
      /\ acked.msgs = r.msgs /\ acked.committed = r.committed
      /\ told.Term = r.Term /\ told.State = r.State /\ told.log = r.log
      /\ told.msgs = r.msgs /\ told.committed = commit /\ told.match = acked.match
  BY ONLY r \in Node DEF Node
<1>4. /\ acked.match[m.from] = m.index
      /\ \A j \in Server \ {m.from} : acked.match[j] = r.match[j]
  BY ONLY Zenon, r \in Node, <1>2 DEF Node
<1>5. \/ n = r
      \/ r.State = "StateLeader" /\ n = [back EXCEPT !.msgs = @ \cup sendAppend(i, back, m.from)]
      \/ /\ r.State = "StateLeader" /\ ~m.reject /\ commit > r.committed
         /\ TermAt(r.log, commit) = r.Term /\ n = bcastAppend(i, told)
      \/ r.State = "StateLeader" /\ ~m.reject /\ n = acked
  <2> HIDE DEF back, acked, told
  <2> QED
    BY ONLY Zenon, n = handleAppendResponse(i, r, m)
       DEF handleAppendResponse, back, acked, told
<1> HIDE DEF back, acked, told
<1>6. /\ CommitIn(r.log, r.committed, r.Term, ll, nw)
      /\ r.State = "StateLeader" =>
             /\ r.log = ll[r.Term] /\ r.match[i] <= Len(r.log)
             /\ \A j \in Server \ {i} : r.match[j] = 0 \/ Acked(j, r.match[j], r.Term, nw)
  BY DEF NodeLogOK, BaseLogOK, LeaderOK
<1>7. CASE r.State = "StateLeader" /\ n = [back EXCEPT !.msgs = @ \cup sendAppend(i, back, m.from)]
  <2>1. /\ n.Term = r.Term /\ n.State = r.State /\ n.log = r.log
        /\ n.committed = r.committed /\ n.match = r.match
        /\ n.msgs = r.msgs \cup sendAppend(i, back, m.from)
    BY ONLY <1>1, <1>3, <1>7 DEF Node
  <2>2. \A q \in n.msgs \ r.msgs : CutFrom(q, i, back)
    BY <1>1, <1>2, <2>1, SendFragment
  <2>3. \A q \in n.msgs \ r.msgs : CutFrom(q, i, n)
    BY <1>3, <2>1, <2>2 DEF CutFrom
  <2>4. n.committed >= r.committed
    BY SMT, <1>2, <2>1
  <2>5. NodeLogOK(i, n, ll, nw, hs, el)
    BY Zenon, <1>1, <1>6, <1>7, <2>1, <2>3, <2>4, SteadyLeaderLog
  <2> QED
    BY <2>1, <2>5 DEF SameLeader
<1>8. ASSUME ~m.reject, r.State = "StateLeader"
      PROVE  /\ acked.match[i] = r.match[i]
             /\ \A j \in Server \ {i} :
                    acked.match[j] = 0 \/ Acked(j, acked.match[j], r.Term, nw)
  <2>1. Covers(m, m.from, m.index, r.Term)
    BY <1>2, <1>8 DEF Covers, Accepts
  <2> QED
    BY Zenon, <1>4, <1>6, <1>8, <2>1 DEF Acked
<1>9. CASE r.State = "StateLeader" /\ ~m.reject /\ n = acked
  <2>1. n.committed >= r.committed /\ \A q \in n.msgs \ r.msgs : CutFrom(q, i, n)
    BY <1>2, <1>3, <1>9
  <2>2. NodeLogOK(i, n, ll, nw, hs, el)
    BY Zenon, <1>1, <1>3, <1>6, <1>8, <1>9, <2>1, SteadyLeaderLog
  <2> QED
    BY Zenon, <1>3, <1>9, <2>2 DEF SameLeader
<1>10. CASE /\ r.State = "StateLeader" /\ ~m.reject /\ commit > r.committed
            /\ TermAt(r.log, commit) = r.Term /\ n = bcastAppend(i, told)
  <2>1. /\ n.Term = r.Term /\ n.State = r.State /\ n.log = r.log
        /\ n.committed = commit /\ n.match = acked.match
        /\ \A q \in n.msgs \ r.msgs : CutFrom(q, i, n)
    BY SMT, <1>1, <1>3, <1>10, BcastFragments
  <2>2. commit \in Nat
    BY Zenon, <1>1 DEF SetFacts
  <2>3. commit > 0 /\ commit >= r.committed
    BY ONLY SMTT(30), <1>2, <1>10, <2>2
  <2>4. LeaderOK(i, acked, ll, nw)
    BY Zenon, <1>3, <1>6, <1>8, <1>10 DEF LeaderOK
  <2>5. CommitIn(acked.log, commit, acked.Term, ll, nw)
    BY <1>1, <1>3, <1>10, <2>3, <2>4, MedianChosen
  <2>6. NodeLogOK(i, n, ll, nw, hs, el)
    BY Zenon, <1>1, <1>3, <1>8, <1>10, <2>1, <2>3, <2>5, SteadyLeaderLog
  <2> QED
    BY Zenon, <2>1, <2>6 DEF SameLeader
<1>11. CASE n = r
  BY <1>11 DEF SameLeader
<1> QED
  BY <1>5, <1>7, <1>9, <1>10, <1>11

-----------------------------------------------------------------------------
(* The leaders' logs *)

WithLog(ll, term, log) == [ll EXCEPT ![term] = log]

(* Replacing one leader's log by a longer one extends the leaders' logs. *)
LEMMA LogPut ==
    ASSUME NEW ll \in LeaderLogs, NEW term \in Nat, NEW log \in Seq(Entry),
           Grown(ll[term], log)
    PROVE  /\ WithLog(ll, term, log) \in LeaderLogs
           /\ Extends(ll, WithLog(ll, term, log))
           /\ WithLog(ll, term, log)[term] = log
           /\ \A t \in Nat : t # term => WithLog(ll, term, log)[t] = ll[t]
<1> DEFINE lm == WithLog(ll, term, log)
<1>1. lm \in LeaderLogs /\ lm[term] = log /\ \A t \in Nat : t # term => lm[t] = ll[t]
  BY DEF WithLog, LeaderLogs
<1> HIDE DEF lm
<1>2. ASSUME NEW t \in Nat PROVE Grown(ll[t], lm[t])
  <2>1. CASE t = term
    BY <1>1, <2>1
  <2>2. CASE t # term
    BY SMT, <1>1, <2>2, LeaderLogAt DEF Grown
  <2> QED
    BY <2>1, <2>2
<1> QED
  BY <1>1, <1>2 DEF Extends, lm

(* A new entry of the leader keeps its log one of leaders. *)
LEMMA AppendOfLeaders ==
    ASSUME NEW ll \in LeaderLogs, NEW lm \in LeaderLogs, Extends(ll, lm),
           NEW log \in Seq(Entry), OfLeaders(log, ll), NEW e \in Entry,
           lm[e.term] = Append(log, e)
    PROVE  OfLeaders(Append(log, e), lm)
<1> DEFINE new == Append(log, e)
<1>1. /\ new \in Seq(Entry) /\ Len(log) \in Nat /\ Len(new) = Len(log) + 1
      /\ new[Len(log) + 1] = e /\ \A k \in 1 .. Len(log) : new[k] = log[k]
  BY SMT, AppendIs, SeqLen
<1> SUFFICES ASSUME NEW k \in 1 .. Len(new)
             PROVE  Same(new, lm[new[k].term], k)
  BY DEF OfLeaders
<1>2. CASE k = Len(new)
  <2>1. lm[new[k].term] = new
    BY Zenon, <1>1, <1>2
  <2> QED
    BY <1>1, <1>2, <2>1 DEF Same
<1>3. CASE k # Len(new)
  <2>1. k \in 1 .. Len(log) /\ k \in Nat
    BY <1>1, <1>3
  <2>2. new[k].term = log[k].term /\ log[k].term \in Nat
    BY Zenon, <1>1, <2>1, EntryAt
  <2>3. Same(log, lm[log[k].term], k)
    BY <2>1, <2>2, SameGrows DEF OfLeaders
  <2>4. Len(lm[log[k].term]) \in Nat
    BY Zenon, <2>2, LeaderLogAt
  <2> QED
    BY SMT, <1>1, <2>1, <2>2, <2>3, <2>4 DEF Same
<1> QED
  BY <1>2, <1>3

\* What a node has sent is not of a later term than the one it has saved.
SavedFirst(nw, hs) == \A m \in nw : m.term <= hs[m.from].term

(* An election needs a majority that has saved its term. *)
LEMMA LaterMajority ==
    ASSUME ~Single, NEW nw \in SUBSET Message, NEW hs \in [Server -> HardState],
           SavedFirst(nw, hs), NEW e, e.leader \in Server, ElectionOK(e, nw)
    PROVE  \E Q \in SUBSET Server :
               IsMajority(Q) /\ \A u \in Q : e.term <= hs[u].term
<1>1. PICK Q \in SUBSET Server :
          IsMajority(Q) /\ \A j \in Q \ {e.leader} : VotedFor(j, e.leader, e.term, nw)
  BY DEF ElectionOK
<1>2. e.term <= hs[e.leader].term
  BY DEF ElectionOK, Requested, SavedFirst
<1>3. \A j \in Q \ {e.leader} : e.term <= hs[j].term
  BY Zenon, <1>1 DEF VotedFor, SavedFirst
<1> QED
  BY <1>1, <1>2, <1>3

(* The leaders' logs after the leader of a term has got new entries: whoever
   was elected in a later term already is past them, with a majority that
   never acknowledged them. *)
LEMMA LeaderLogsGrow ==
    ASSUME ~Single, NEW nw \in SUBSET Message, NEW hs \in [Server -> HardState],
           NEW el \in Elections, NEW em \in Elections,
           NEW ll \in LeaderLogs, LeaderLogsOK(ll, nw, hs, el),
           \A m \in nw : MsgLogOK(m, ll, nw), SavedFirst(nw, hs),
           \A e \in el : ElectionOK(e, nw),
           NEW i \in Server, NEW term \in Nat, NEW log \in Seq(Entry),
           Grown(ll[term], log), log # << >>, em = el \cup {Elected(i, term)},
           NEW lm, lm = WithLog(ll, term, log),
           OfLeaders(log, lm), LogUpTo(log, term),
           \A s \in 0 .. term - 1, c \in Nat :
               Has(ll[s], c, s) => Has(log, c, s) \/ Blocked(c, s, nw, hs)
    PROVE  LeaderLogsOK(lm, nw, hs, em)
<1>1. /\ lm \in LeaderLogs /\ Extends(ll, lm) /\ lm[term] = log
      /\ \A t \in Nat : t # term => lm[t] = ll[t]
  BY LogPut
<1> SUFFICES ASSUME NEW t \in Nat
             PROVE  /\ OfLeaders(lm[t], lm) /\ LogUpTo(lm[t], t)
                    /\ lm[t] # << >> <=> \E e \in em : e.term = t
                    /\ lm[t] # << >> => \A s \in 0 .. t - 1, c \in Nat :
                          Has(lm[s], c, s) => Has(lm[t], c, s) \/ Blocked(c, s, nw, hs)
  BY Zenon DEF LeaderLogsOK
<1>2. OfLeaders(lm[t], lm) /\ LogUpTo(lm[t], t)
  <2>1. CASE t = term
    BY Zenon, <1>1, <2>1
  <2>2. CASE t # term
    BY Zenon, <1>1, <2>2, LeaderLogAt, OfLeadersGrows DEF LeaderLogsOK
  <2> QED
    BY Zenon, <2>1, <2>2
<1>3. lm[t] # << >> <=> \E e \in em : e.term = t
  <2>1. CASE t = term
    <3>1. Elected(i, term) \in em /\ Elected(i, term).term = t
      BY Zenon, <2>1 DEF Elected
    <3> QED
      BY Zenon, <1>1, <2>1, <3>1
  <2>2. CASE t # term
    <3>1. (\E e \in em : e.term = t) <=> \E e \in el : e.term = t
      BY SMT, <2>2 DEF Elected
    <3>2. ll[t] # << >> <=> \E e \in el : e.term = t
      BY Zenon DEF LeaderLogsOK
    <3> QED
      BY Zenon, <1>1, <2>2, <3>1, <3>2
  <2> QED
    BY Zenon, <2>1, <2>2
<1>4. ASSUME lm[t] # << >>, NEW s \in 0 .. t - 1, NEW c \in Nat,
             Has(lm[s], c, s), ~Blocked(c, s, nw, hs)
      PROVE  Has(lm[t], c, s)
  <2>1. s \in Nat /\ s < t
    OBVIOUS
  <2>2. CASE t = term
    <3>1. Has(ll[s], c, s)
      BY <1>1, <1>4, <2>1, <2>2
    <3> QED
      BY Zenon, <1>1, <1>4, <2>2, <3>1
  <2>3. CASE t # term /\ s # term
    BY Zenon, <1>1, <1>4, <2>1, <2>3 DEF LeaderLogsOK
  <2>4. CASE t # term /\ s = term
    <3>1. ll[t] # << >> /\ lm[t] = ll[t]
      BY Zenon, <1>1, <1>4, <2>4
    <3>2. CASE c <= Len(ll[s])
      <4>1. Has(ll[s], c, s)
        BY Zenon, <1>1, <1>4, <2>1, <3>2, HasGrows
      <4> QED
        BY <1>4, <3>1, <4>1 DEF LeaderLogsOK
    <3>3. CASE ~(c <= Len(ll[s]))
      <4>1. PICK e \in el : e.term = t
        BY <3>1 DEF LeaderLogsOK
      <4>2. PICK Q \in SUBSET Server : IsMajority(Q) /\ \A u \in Q : t <= hs[u].term
        BY Zenon, <4>1, LaterMajority DEF Elections
      <4>3. \A u \in Q : hs[u].term > s
        <5>1. TAKE u \in Q
        <5>2. hs[u].term \in Nat /\ t <= hs[u].term
          BY Zenon, <4>2 DEF HardState
        <5> QED
          BY ONLY SMTT(30), <2>1, <5>2, t \in Nat
      <4>4. \A u \in Q : ~Acked(u, c, s, nw)
        BY Zenon, <3>3, AckedBound
      <4>5. Blocked(c, s, nw, hs)
        BY Zenon, <4>2, <4>3, <4>4 DEF Blocked
      <4> QED
        BY Zenon, <1>4, <4>5
    <3> QED
      BY Zenon, <3>2, <3>3
  <2> QED
    BY Zenon, <2>2, <2>3, <2>4
<1> QED
  BY Zenon, <1>2, <1>3, <1>4

(* The winner of an election has what an earlier leader may still commit: a
   voter that acknowledged the entry was told of a log that is not behind. *)
LEMMA WinnerHas ==
    ASSUME ~Single, NEW nw \in SUBSET Message, NEW hs \in [Server -> HardState],
           NEW el, NEW ll \in LeaderLogs, LeaderLogsOK(ll, nw, hs, el),
           SavedFirst(nw, hs), NEW nodes \in [Server -> Node],
           \A u \in Server : NodeLogOK(u, nodes[u], ll, nw, hs, el),
           NEW i \in Server, NEW r, r = nodes[i], r.State = "StateCandidate",
           Requested(i, r.Term, nw),
           NEW G \in SUBSET Server, IsMajority(G),
           \A u \in G \ {i} : VotedFor(u, i, r.Term, nw),
           NEW s \in Nat, s < r.Term, NEW c \in Nat, Has(ll[s], c, s),
           ~Blocked(c, s, nw, hs)
    PROVE  Has(r.log, c, s)
<1>1. r \in Node /\ r.Term \in Nat /\ r.log \in Seq(Entry) /\ Len(r.log) \in Nat
  BY Zenon, SeqLen DEF Node
<1>2. BaseLogOK(i, r, ll, nw, hs)
  BY DEF NodeLogOK
<1>3. \A u \in G : hs[u].term > s
  <2>1. TAKE u \in G
  <2>2. r.Term <= hs[u].term /\ hs[u].term \in Nat
    BY DEF Requested, VotedFor, SavedFirst, HardState
  <2> QED
    BY ONLY SMTT(30), <1>1, <2>2, s \in Nat, s < r.Term
<1>4. PICK u \in G : Acked(u, c, s, nw)
  BY <1>3 DEF Blocked
<1>5. CASE u = i
  <2>1. Acked(i, c, s, Sent(i, r, nw))
    BY Zenon, <1>4, <1>5 DEF Acked, Covers, Sent
  <2> QED
    BY Zenon, <1>2, <2>1 DEF BaseLogOK, AckKept
<1>6. CASE u # i
  <2>1. Acked(u, c, s, Sent(u, nodes[u], nw))
    BY Zenon, <1>4 DEF Acked, Covers, Sent
  <2>2. PICK g \in nw : Granted(g) /\ g.from = u /\ g.to = i /\ g.term = r.Term
    BY Zenon, <1>6 DEF VotedFor
  <2>3. g \in Sent(u, nodes[u], nw)
    BY Zenon, <2>2 DEF Sent
  <2>4. VoteInformed(u, Sent(u, nodes[u], nw), ll, nw, hs)
    BY Zenon DEF NodeLogOK, BaseLogOK
  <2>5. PICK q \in nw : Asks(q, i, r.Term, c, s)
    BY Zenon, <2>1, <2>2, <2>3, <2>4 DEF VoteInformed
  <2>6. q \in Sent(i, r, nw)
    BY <2>5 DEF Asks, Sent
  <2>7. q.index = Len(r.log) /\ q.logTerm = LastTerm(r.log)
    BY <2>5, <2>6 DEF NodeLogOK, CandidateOK, Asks
  <2>8. LastTerm(r.log) > s \/ (LastTerm(r.log) = s /\ Len(r.log) >= c)
    BY Zenon, <2>5, <2>7 DEF Asks
  <2> DEFINE last == Len(r.log)
             t == LastTerm(r.log)
  <2>9. c > 0 /\ t \in Nat
    BY <1>1, LastTermType DEF Has
  <2>10. last > 0
    <3>1. SUFFICES ASSUME last = 0 PROVE FALSE
      BY <1>1
    <3>2. t = 0
      BY Zenon, <3>1 DEF LastTerm, TermAt
    <3> QED
      BY ONLY SMTT(30), <2>8, <2>9, <3>1, <3>2, s \in Nat, c \in Nat
  <2>11. Has(r.log, last, t) /\ last \in 1 .. last
    BY <1>1, <2>10 DEF LastTerm, TermAt, Has
  <2>12. Has(ll[t], last, t) /\ Same(r.log, ll[t], last)
    BY Zenon, <1>1, <1>2, <2>11, OwnEntry DEF BaseLogOK
  <2>13. ll[t] \in Seq(Entry) /\ Len(ll[t]) \in Nat
    BY Zenon, <2>9, LeaderLogAt
  <2>14. CASE t = s /\ last >= c
    BY Zenon, <1>1, <2>12, <2>13, <2>14, SameHas
  <2>15. CASE t > s
    <3>1. ll[t] # << >>
      BY <1>1, <2>10, <2>12, <2>13 DEF Has
    <3>2. s \in 0 .. t - 1
      BY <2>9, <2>15
    <3>3. Has(ll[t], c, s)
      BY Zenon, <2>9, <3>1, <3>2 DEF LeaderLogsOK
    <3>4. c <= last
      <4>1. SUFFICES ASSUME c > last PROVE FALSE
        BY <1>1
      <4>2. c \in 1 .. Len(ll[t]) /\ last \in 1 .. c
        BY <1>1, <2>10, <3>3, <4>1 DEF Has
      <4>3. ll[t][last].term <= ll[t][c].term
        BY Zenon, <2>9, <2>13, <4>2, TermsOrdered DEF LeaderLogsOK
      <4> QED
        BY <2>9, <2>12, <2>15, <3>3, <4>3 DEF Has
    <3> QED
      BY Zenon, <1>1, <2>12, <2>13, <3>3, <3>4, SameHas
  <2> QED
    BY Zenon, <2>8, <2>14, <2>15
<1> QED
  BY Zenon, <1>5, <1>6

(* What becomeLeader does to the log and the progress table. *)
LEMMA BecomeLeaderLog ==
    ASSUME ~Single, NEW i \in Server, NEW r \in Node, NEW n, n = becomeLeader(i, r)
    PROVE  /\ n.Term = r.Term /\ n.State = "StateLeader" /\ n.committed = r.committed
           /\ \E e \in Entry : e.term = r.Term /\ n.log = Append(r.log, e)
           /\ n.match[i] = Len(n.log)
           /\ \A j \in Server \ {i} : n.match[j] = 0
           /\ \A m \in n.msgs \ r.msgs : CutFrom(m, i, n)
<1> DEFINE noop == [term |-> r.Term, data |-> NoData, type |-> "EntryNormal"]
           last == Len(r.log)
           mt == [j \in Server |-> IF j = i THEN last + 1 ELSE 0]
           nx == [j \in Server |-> IF j = i THEN last + 2 ELSE last + 1]
           l == [r EXCEPT !.State = "StateLeader",
                          !.Lead = i,
                          !.Vote = None,
                          !.granted = {},
                          !.rejected = {},
                          !.log = Append(@, noop),
                          !.match = mt,
                          !.next = nx]
<1>1. noop \in Entry /\ noop.term = r.Term /\ r.log \in Seq(Entry) /\ last \in Nat
  BY SMT DEF Node, Entry, EntryType
<1>2. mt \in [Server -> Nat] /\ nx \in [Server -> Nat]
  BY <1>1
<1>3. mt[i] = last + 1 /\ \A j \in Server \ {i} : mt[j] = 0
  OBVIOUS
<1>4. Append(r.log, noop) \in Seq(Entry) /\ Len(Append(r.log, noop)) = last + 1
  <2> HIDE DEF noop
  <2> QED
    BY <1>1, AppendIs
<1>5. n = bcastAppend(i, l)
  BY DEF becomeLeader
<1> HIDE DEF noop, mt, nx
<1>6. l \in Node
  BY Zenon, <1>2, <1>4 DEF Node
<1>7. /\ l.Term = r.Term /\ l.State = "StateLeader" /\ l.committed = r.committed
      /\ l.log = Append(r.log, noop) /\ l.msgs = r.msgs /\ l.match = mt
  BY DEF Node
<1> HIDE DEF l
<1>8. /\ n.Term = l.Term /\ n.State = l.State /\ n.log = l.log
      /\ n.committed = l.committed /\ n.match = l.match
      /\ \A m \in n.msgs \ l.msgs : CutFrom(m, i, n)
  BY <1>5, <1>6, BcastFragments
<1> QED
  BY Zenon, <1>1, <1>3, <1>4, <1>7, <1>8

=============================================================================
