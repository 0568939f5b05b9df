------------------------- MODULE RaftElectionProofs -------------------------
(***************************************************************************)
(* Types and election safety of Raft: what each handler returns, how it    *)
(* preserves the election invariant of the node that runs it, and how the  *)
(* steps of a group preserve that of the group.                            *)
(***************************************************************************)
EXTENDS RaftInvariants, FiniteSetTheorems, WellFoundedInduction, TLAPS

USE ZenonT(10), SMTT(30)

-----------------------------------------------------------------------------
(* Messages and entries *)

(* The field mtype tells the kinds of messages apart. *)
LEMMA MessageIs ==
    ASSUME NEW m \in Message
    PROVE  /\ m.from \in Server /\ m.to \in Server /\ m.term \in Nat
           /\ m.mtype = "MsgRequestVote" => m \in VoteRequest
           /\ m.mtype = "MsgRequestVoteResponse" => m \in VoteResponse
           /\ m.mtype = "MsgAppend" => m \in AppendRequest
           /\ m.mtype = "MsgAppendResponse" => m \in AppendResponse
           /\ m.mtype \in {"MsgHeartbeat", "MsgHeartbeatResponse"} => m \in Heartbeat
BY SMT DEF Message, VoteRequest, VoteResponse, AppendRequest, AppendResponse, Heartbeat

(* An index of a log holds an entry. *)
LEMMA EntryIs ==
    ASSUME NEW log \in Seq(Entry), NEW k \in 1 .. Len(log)
    PROVE  log[k] \in Entry /\ log[k].term \in Nat
<1>1. log[k] \in Entry
  OBVIOUS
<1> QED
  BY <1>1 DEF Entry

(* The term RaftLog.Term returns is a number. *)
LEMMA TermAtNat ==
    ASSUME NEW log \in Seq(Entry), NEW n \in 0 .. Len(log)
    PROVE  TermAt(log, n) \in Nat
BY SMT, EntryIs DEF TermAt

-----------------------------------------------------------------------------
(* Numbers, majorities and the commit rule *)

(* A nonempty set of numbers has a least one. *)
LEMMA NatMin ==
    ASSUME NEW S \in SUBSET Nat, S # {}
    PROVE  \E x \in S : \A y \in S : x <= y
<1>1. PICK R : IsWellFoundedOn(R, Nat) /\ \A x, y \in Nat : x < y => <<x, y>> \in R
  <2>1. \A x, y \in Nat : x < y => <<x, y>> \in OpToRel(<, Nat)
    BY DEF OpToRel
  <2> QED
    BY <2>1, NatLessThanWellFounded
<1>2. PICK x \in S : \A y \in S : ~ (<<y, x>> \in R)
  <2>1. IsWellFoundedOn(R, Nat)
    BY <1>1
  <2> QED
    BY <2>1, WFMin
<1>3. \A y \in S : x <= y
  <2>1. TAKE y \in S
  <2>2. ~ (y < x)
    BY <1>1, <1>2
  <2> QED
    BY <2>2
<1> QED
  BY <1>3

(* A finite, nonempty set of numbers has a largest one. *)
LEMMA FiniteMax ==
    ASSUME NEW S \in SUBSET Nat, IsFiniteSet(S), S # {}
    PROVE  \E x \in S : \A y \in S : y <= x
<1> DEFINE R == StrictSubsetOrdering(S)
           T == {U \in SUBSET S : U # {} /\ ~ \E x \in U : \A y \in U : y <= x}
<1>1. IsWellFoundedOn(R, SUBSET S)
  BY FS_FiniteSubsetsOfFinite, FS_StrictSubsetOrderingWellFounded
<1>2. SUFFICES ASSUME T # {} PROVE FALSE
  OBVIOUS
<1>3. PICK U \in T : \A V \in T : ~ (<<V, U>> \in R)
  BY <1>1, <1>2, WFMin
<1>4. PICK x \in U : TRUE
  BY <1>3
<1>5. CASE U \ {x} = {}
  BY SMT, <1>3, <1>4, <1>5
<1>6. CASE U \ {x} # {}
  <2>1. <<U \ {x}, U>> \in R
    BY <1>3, <1>4 DEF StrictSubsetOrdering
  <2>2. U \ {x} \notin T
    BY <2>1, <1>3
  <2>3. PICK y \in U \ {x} : \A z \in U \ {x} : z <= y
    BY <2>2, <1>6, <1>3
  <2>4. x \in Nat /\ y \in Nat
    BY <1>3, <1>4, <2>3
  <2> DEFINE w == IF x <= y THEN y ELSE x
  <2>5. \A z \in U : z <= w
    BY SMT, <2>3, <2>4, <1>3
  <2> QED
    BY <2>5, <1>3, <1>4, <2>3
<1> QED
  BY <1>5, <1>6

(* A group of one has one member. *)
LEMMA SingleMember ==
    ASSUME Single, NEW i \in Server, NEW j \in Server
    PROVE  i = j
<1>1. PICK x : Server = {x}
  BY ServerAssumption, FS_Singleton DEF Single
<1> QED
  BY <1>1

(* A node of its own is a majority of a group of one; in a larger group a
   majority has another member. *)
LEMMA MajorityHasAnother ==
    ASSUME NEW i \in Server
    PROVE  /\ Single => IsMajority({i})
           /\ \A Q \in SUBSET Server : IsMajority(Q) /\ ~Single => \E j \in Q : j # i
<1>1. IsFiniteSet(Server) /\ Cardinality(Server) \in Nat /\ Cardinality(Server) # 0
  BY ServerAssumption, FS_CardinalityType, FS_EmptySet
<1>2. IsFiniteSet({i}) /\ Cardinality({i}) = 1
  BY FS_Singleton
<1>3. Single => IsMajority({i})
  BY <1>2 DEF Single, IsMajority
<1>4. ASSUME NEW Q \in SUBSET Server, IsMajority(Q), ~Single, \A j \in Q : j = i
      PROVE  FALSE
  <2>1. Q \subseteq {i}
    BY <1>4
  <2>2. Cardinality(Q) <= 1 /\ Cardinality(Q) \in Nat
    BY <1>2, <2>1, FS_Subset, FS_CardinalityType
  <2>3. Cardinality(Server) >= 2
    BY <1>1, <1>4 DEF Single
  <2>4. Cardinality(Server) \div 2 >= 1
    BY <1>1, <2>3
  <2> QED
    BY <1>1, <1>4, <2>2, <2>4 DEF IsMajority
<1> QED
  BY <1>3, <1>4

(* Any two majorities of the group have a common member. *)
LEMMA MajoritiesMeet ==
    ASSUME NEW P \in SUBSET Server, NEW Q \in SUBSET Server,
           IsMajority(P), IsMajority(Q)
    PROVE  \E j \in Server : j \in P /\ j \in Q
<1>1. IsFiniteSet(Server) /\ Cardinality(Server) \in Nat
  BY ServerAssumption, FS_CardinalityType
<1>2. /\ Cardinality(P) \in Nat /\ Cardinality(Q) \in Nat
  BY <1>1, FS_Subset, FS_CardinalityType
<1>3. Cardinality(P) + Cardinality(Q) > Cardinality(Server)
  BY <1>1, <1>2 DEF IsMajority
<1>4. P \cap Q # {}
  BY <1>1, <1>3, FS_MajoritiesIntersect
<1> QED
  BY <1>4

(* A set with a majority in it is a majority. *)
LEMMA MajorityGrows ==
    ASSUME NEW P \in SUBSET Server, NEW Q \in SUBSET Server,
           IsMajority(P), P \subseteq Q
    PROVE  IsMajority(Q)
<1>1. IsFiniteSet(Server) /\ IsFiniteSet(Q) /\ Cardinality(Server) \in Nat
  BY ServerAssumption, FS_Subset, FS_CardinalityType
<1>2. /\ Cardinality(P) <= Cardinality(Q)
      /\ Cardinality(P) \in Nat /\ Cardinality(Q) \in Nat
  BY <1>1, FS_Subset, FS_CardinalityType
<1> QED
  BY SMT, <1>1, <1>2 DEF IsMajority

(* The number of servers, and the place of the median among their sorted
   match indexes. *)
LEMMA HalfOfServers ==
    LET N == Cardinality(Server) IN
    /\ N \in Nat \ {0}
    /\ (N - 1) \div 2 \in Nat
    /\ (N - 1) \div 2 < N
    /\ N - ((N - 1) \div 2) > N \div 2
    /\ N \div 2 \in Nat
    /\ N < 2 * (N \div 2) + 2
<1>1. Cardinality(Server) \in Nat /\ Cardinality(Server) # 0
  BY ServerAssumption, FS_CardinalityType, FS_EmptySet
<1> QED
  BY <1>1

(* The median match index exists, and a majority has matched it: the entries
   up to it are on a majority of the servers. *)
LEMMA MedianMatch ==
    ASSUME NEW r \in Node
    PROVE  /\ medianMatch(r) \in {r.match[j] : j \in Server}
           /\ medianMatch(r) \in Nat
           /\ IsMajority({j \in Server : r.match[j] >= medianMatch(r)})
<1> DEFINE f == r.match
           N == Cardinality(Server)
           half == (N - 1) \div 2
           V == {f[j] : j \in Server}
           Below(v) == {j \in Server : f[j] < v}
           UpTo(v) == {j \in Server : f[j] <= v}
           P == {v \in V : Cardinality(UpTo(v)) > half}
<1>1. f \in [Server -> Nat]
  BY DEF Node
<1>2. /\ N \in Nat \ {0}
      /\ half \in Nat
      /\ half < N
      /\ N - half > N \div 2
      /\ N \div 2 \in Nat
  BY HalfOfServers
<1> HIDE DEF N, half
<1>3. V \in SUBSET Nat /\ V # {} /\ IsFiniteSet(V)
  <2>1. V \in SUBSET Nat /\ V # {}
    BY <1>1, ServerAssumption
  <2>2. IsFiniteSet(V)
    <3>1. f \in Surjection(Server, V)
      BY <1>1 DEF Surjection
    <3> QED
      BY <3>1, ServerAssumption, FS_Surjection
  <2> QED
    BY <2>1, <2>2
<1>4. \A S \in SUBSET Server : IsFiniteSet(S) /\ Cardinality(S) \in Nat
  BY ServerAssumption, FS_Subset, FS_CardinalityType
<1>5. P # {}
  <2>1. PICK x \in V : \A y \in V : y <= x
    <3> HIDE DEF V
    <3> QED
      BY <1>3, FiniteMax
  <2>2. UpTo(x) = Server
    BY <2>1
  <2> QED
    BY <1>2, <2>1, <2>2 DEF N
<1>6. PICK v \in P : \A w \in P : v <= w
  <2>1. P \in SUBSET Nat
    BY <1>3
  <2> HIDE DEF P
  <2> QED
    BY <1>5, <2>1, NatMin
<1>7. v \in V /\ v \in Nat /\ Cardinality(UpTo(v)) > half
  BY <1>3, <1>6
<1>8. Cardinality(Below(v)) <= half
  <2>1. CASE Below(v) = {}
    <3>1. Cardinality(Below(v)) = 0
      BY <2>1, FS_EmptySet, Zenon
    <3> HIDE DEF Below
    <3> QED
      BY SMT, <1>2, <3>1
  <2>2. CASE Below(v) # {}
    <3> DEFINE W == {w \in V : w < v}
    <3>1. W \in SUBSET Nat /\ W # {} /\ IsFiniteSet(W)
      <4>1. W \in SUBSET Nat
        BY <1>3
      <4>2. W # {}
        BY <2>2
      <4>3. IsFiniteSet(W)
        BY <1>3, FS_Subset
      <4> QED
        BY <4>1, <4>2, <4>3
    <3>2. PICK w \in W : \A y \in W : y <= w
      <4> HIDE DEF W
      <4> QED
        BY <3>1, FiniteMax
    <3>3. w \in V /\ w \in Nat /\ w < v
      BY <3>1, <3>2
    <3>4. UpTo(w) = Below(v)
      <4>1. ASSUME NEW j \in Server PROVE f[j] <= w <=> f[j] < v
        <5>1. f[j] \in V /\ f[j] \in Nat
          BY <1>1
        <5>2. ASSUME f[j] < v PROVE f[j] <= w
          BY <3>2, <5>1, <5>2
        <5>3. ASSUME f[j] <= w PROVE f[j] < v
          BY <1>7, <3>3, <5>1, <5>3
        <5> QED
          BY <5>2, <5>3
      <4> QED
        BY <4>1
    <3>5. w \notin P
      BY SMT, <1>6, <1>7, <3>3
    <3>6. ~ (Cardinality(UpTo(w)) > half)
      BY <3>3, <3>5
    <3>7. Cardinality(UpTo(w)) \in Nat
      BY <1>4
    <3> HIDE DEF UpTo, Below
    <3> QED
      BY SMT, <1>2, <3>4, <3>6, <3>7
  <2> QED
    BY <2>1, <2>2
<1>9. /\ medianMatch(r) \in V
      /\ Cardinality(Below(medianMatch(r))) <= half
  BY <1>7, <1>8 DEF medianMatch, half, N
<1>10. IsMajority({j \in Server : f[j] >= medianMatch(r)})
  <2> DEFINE u == medianMatch(r)
  <2>1. {j \in Server : f[j] >= u} = Server \ Below(u)
    BY <1>1, <1>3, <1>9
  <2>2. Cardinality(Server \ Below(u)) = N - Cardinality(Server \cap Below(u))
    BY ServerAssumption, FS_Difference DEF N
  <2>3. Server \cap Below(u) = Below(u)
    OBVIOUS
  <2>4. Cardinality(Below(u)) \in Nat
    BY <1>4
  <2>5. Cardinality(Below(u)) <= half
    BY <1>9
  <2> HIDE DEF Below, u
  <2>6. Cardinality(Server \ Below(u)) > N \div 2
    BY SMT, <1>2, <2>2, <2>3, <2>4, <2>5
  <2> QED
    BY <2>1, <2>6 DEF IsMajority, u, N
<1> QED
  BY <1>3, <1>9, <1>10

(* Some node of the group has applied most. *)
LEMMA MostApplied ==
    ASSUME NEW f \in [Server -> Nat]
    PROVE  \E i \in Server : \A j \in Server : f[j] <= f[i]
<1> DEFINE S == {f[j] : j \in Server}
<1>1. S \in SUBSET Nat /\ S # {}
  BY ServerAssumption
<1>2. IsFiniteSet(S)
  <2>1. f \in Surjection(Server, S)
    BY DEF Surjection
  <2> QED
    BY <2>1, ServerAssumption, FS_Surjection DEF ExistsSurjection
<1>3. PICK x \in S : \A y \in S : y <= x
  <2> HIDE DEF S
  <2> QED
    BY <1>1, <1>2, FiniteMax
<1>4. PICK i \in Server : x = f[i]
  BY <1>3
<1> QED
  BY <1>3, <1>4

(* What the log proofs use. *)
LEMMA SetsAre == SetFacts
<1>1. \A P, Q \in SUBSET Server :
          IsMajority(P) /\ IsMajority(Q) => \E j \in Server : j \in P /\ j \in Q
  BY MajoritiesMeet
<1>2. \A i \in Server, Q \in SUBSET Server :
          IsMajority(Q) /\ ~Single => \E j \in Q : j # i
  BY MajorityHasAnother
<1>3. \A r \in Node :
          /\ medianMatch(r) \in {r.match[j] : j \in Server}
          /\ medianMatch(r) \in Nat
          /\ IsMajority({j \in Server : r.match[j] >= medianMatch(r)})
  BY MedianMatch
<1> QED
  BY <1>1, <1>2, <1>3, NatMin, MajorityGrows, MostApplied, SingleMember DEF SetFacts

-----------------------------------------------------------------------------
(* The log after a MsgAppend *)

(* The log after the loop of handleAppendEntries: the two cases of Merge. *)
LEMMA MergeCases ==
    ASSUME SetFacts, NEW log \in Seq(Entry), NEW entries \in Seq(Entry),
           NEW prev \in 0 .. Len(log)
    PROVE  \/ /\ Merge(log, prev, entries) = log
              /\ prev + Len(entries) <= Len(log)
              /\ \A k \in 1 .. Len(entries) : log[prev + k].term = entries[k].term
           \/ \E k \in 1 .. Len(entries) :
                 /\ Merge(log, prev, entries)
                      = SubSeq(log, 1, prev + k - 1) \o SubSeq(entries, k, Len(entries))
                 /\ prev + k - 1 <= Len(log)
                 /\ \/ prev + k > Len(log)
                    \/ log[prev + k].term # entries[k].term
                 /\ \A l \in 1 .. k - 1 : log[prev + l].term = entries[l].term
<1> DEFINE differs == {k \in 1 .. Len(entries) :
                         \/ prev + k > Len(log)
                         \/ log[prev + k].term # entries[k].term}
<1>1. Len(log) \in Nat /\ Len(entries) \in Nat /\ prev \in Nat
  OBVIOUS
<1>2. CASE differs = {}
  <2>1. Merge(log, prev, entries) = log
    BY <1>2 DEF Merge
  <2>2. \A k \in 1 .. Len(entries) :
          prev + k <= Len(log) /\ log[prev + k].term = entries[k].term
    BY <1>1, <1>2
  <2>3. prev + Len(entries) <= Len(log)
    BY <1>1, <2>2
  <2> QED
    BY <2>1, <2>2, <2>3
<1>3. CASE differs # {}
  <2>0. differs \in SUBSET Nat
    BY SMT, <1>1
  <2>1. \E k \in differs : \A l \in differs : k <= l
    <3> HIDE DEF differs
    <3> QED
      BY <1>3, <2>0 DEF SetFacts
  <2>2. PICK k \in differs :
          /\ \A l \in differs : k <= l
          /\ Merge(log, prev, entries)
               = SubSeq(log, 1, prev + k - 1) \o SubSeq(entries, k, Len(entries))
    BY <1>3, <2>1 DEF Merge
  <2>3. \A l \in 1 .. k - 1 :
          prev + l <= Len(log) /\ log[prev + l].term = entries[l].term
    <3>1. TAKE l \in 1 .. k - 1
    <3>2. l \in 1 .. Len(entries) /\ ~ (k <= l)
      BY SMT, <1>1, <2>2, <3>1
    <3>3. l \notin differs
      BY <2>2, <3>2
    <3> QED
      BY <1>1, <3>2, <3>3
  <2>4. prev + k - 1 <= Len(log)
    <3>1. CASE k = 1
      BY <1>1, <3>1
    <3>2. CASE k # 1
      <4>1. k \in 1 .. Len(entries)
        BY <2>2
      <4>2. k - 1 \in 1 .. k - 1
        BY ONLY SMT, <1>1, <3>2, <4>1
      <4>3. prev + (k - 1) <= Len(log)
        BY <2>3, <4>2
      <4> QED
        BY ONLY SMT, <1>1, <4>1, <4>3
    <3> QED
      BY <3>1, <3>2
  <2> QED
    BY <2>2, <2>3, <2>4
<1> QED
  BY <1>2, <1>3

(* Where a prefix of log is followed by a part of entries. *)
LEMMA SplicedLog ==
    ASSUME NEW log \in Seq(Entry), NEW entries \in Seq(Entry),
           NEW n \in 0 .. Len(log), NEW k \in 1 .. Len(entries)
    PROVE  LET s == SubSeq(log, 1, n) \o SubSeq(entries, k, Len(entries)) IN
           /\ s \in Seq(Entry)
           /\ Len(s) = n + Len(entries) - k + 1
           /\ \A j \in 1 .. Len(s) :
                 s[j] = IF j <= n THEN log[j] ELSE entries[k + j - n - 1]
<1>1. /\ SubSeq(log, 1, n) \in Seq(Entry)
      /\ Len(SubSeq(log, 1, n)) = n
      /\ \A j \in 1 .. n : SubSeq(log, 1, n)[j] = log[j]
  OBVIOUS
<1>2. /\ SubSeq(entries, k, Len(entries)) \in Seq(Entry)
      /\ Len(SubSeq(entries, k, Len(entries))) = Len(entries) - k + 1
      /\ \A j \in 1 .. Len(entries) - k + 1 :
            SubSeq(entries, k, Len(entries))[j] = entries[k + j - 1]
  OBVIOUS
<1> DEFINE a == SubSeq(log, 1, n)
           b == SubSeq(entries, k, Len(entries))
<1>3. /\ a \o b \in Seq(Entry)
      /\ Len(a \o b) = Len(a) + Len(b)
      /\ \A j \in 1 .. Len(a) + Len(b) :
            (a \o b)[j] = IF j <= Len(a) THEN a[j] ELSE b[j - Len(a)]
  BY SMT, <1>1, <1>2
<1>4. Len(a \o b) = n + Len(entries) - k + 1
  BY SMT, <1>1, <1>2, <1>3
<1>5. ASSUME NEW j \in 1 .. Len(a \o b)
      PROVE  (a \o b)[j] = IF j <= n THEN log[j] ELSE entries[k + j - n - 1]
  <2> HIDE DEF a, b
  <2>1. CASE j <= n
    BY <1>1, <1>3, <1>5, <2>1 DEF a
  <2>2. CASE ~ (j <= n)
    <3>1. j - n \in 1 .. Len(entries) - k + 1
      BY <1>4, <1>5, <2>2
    <3>2. b[j - n] = entries[k + (j - n) - 1]
      BY <1>2, <3>1 DEF b
    <3> QED
      BY <1>1, <1>3, <1>5, <2>2, <3>2 DEF a
  <2> QED
    BY <2>1, <2>2
<1> QED
  BY <1>3, <1>4, <1>5

(* What the proofs about the handlers of MsgAppend use. *)
LEMMA MergesAre == MergeFacts
<1> SUFFICES ASSUME NEW log \in Seq(Entry), NEW entries \in Seq(Entry),
                    NEW prev \in 0 .. Len(log)
             PROVE  MergeIs(log, prev, entries, Merge(log, prev, entries))
  BY DEF MergeFacts
<1> DEFINE new == Merge(log, prev, entries)
<1>1. Len(log) \in Nat /\ Len(entries) \in Nat /\ prev \in Nat
  OBVIOUS
<1>2. CASE /\ new = log
           /\ prev + Len(entries) <= Len(log)
           /\ \A k \in 1 .. Len(entries) : log[prev + k].term = entries[k].term
  BY <1>2, Zenon DEF MergeIs
<1>3. ASSUME NEW k \in 1 .. Len(entries),
             new = SubSeq(log, 1, prev + k - 1) \o SubSeq(entries, k, Len(entries)),
             prev + k - 1 <= Len(log),
             prev + k > Len(log) \/ log[prev + k].term # entries[k].term,
             \A l \in 1 .. k - 1 : log[prev + l].term = entries[l].term
      PROVE  MergeIs(log, prev, entries, new)
  <2> DEFINE n == prev + k - 1
  <2>1. n \in 0 .. Len(log) /\ n \in Nat /\ k \in Nat
    BY SMT, <1>1, <1>3
  <2>2. /\ new \in Seq(Entry)
        /\ Len(new) = n + Len(entries) - k + 1
        /\ \A j \in 1 .. Len(new) :
              new[j] = IF j <= n THEN log[j] ELSE entries[k + j - n - 1]
    <3>1. new = SubSeq(log, 1, n) \o SubSeq(entries, k, Len(entries))
      BY <1>3
    <3> HIDE DEF n, new
    <3> QED
      BY <2>1, <3>1, SplicedLog
  <2> HIDE DEF new
  <2>3. Len(new) = prev + Len(entries)
    BY SMT, <1>1, <2>1, <2>2
  <2>4. \A j \in 1 .. prev + k - 1 : new[j] = log[j]
    <3> TAKE j \in 1 .. prev + k - 1
    <3>1. j \in 1 .. Len(new) /\ j <= n
      BY SMT, <1>1, <2>1, <2>3
    <3> QED
      BY <2>2, <3>1
  <2>5. \A j \in prev + k .. Len(new) : new[j] = entries[j - prev]
    <3> TAKE j \in prev + k .. Len(new)
    <3>1. j \in 1 .. Len(new) /\ ~(j <= n) /\ k + j - n - 1 = j - prev
      BY SMT, <1>1, <2>1, <2>3
    <3> QED
      BY <2>2, <3>1
  <2> QED
    BY <1>3, <2>2, <2>3, <2>4, <2>5 DEF MergeIs
<1> QED
  BY <1>2, <1>3, SetsAre, MergeCases

-----------------------------------------------------------------------------
(* Types of what the handlers return *)

(* sendAppend sends only messages, to others. *)
LEMMA SendAppendType ==
    ASSUME NEW i \in Server, NEW r \in Node, NEW j \in Server
    PROVE  sendAppend(i, r, j) \in SUBSET AppendRequest
<1> DEFINE prev == Dec(r.next[j])
<1>1. SUFFICES ASSUME NEW p \in {prev} \cap 0 .. Len(r.log)
               PROVE  [mtype |-> "MsgAppend", from |-> i, to |-> j,
                       term |-> r.Term, index |-> p,
                       logTerm |-> TermAt(r.log, p),
                       entries |-> [k \in 1 .. Len(r.log) - p |-> Wire(r.log[p + k])],
                       commit |-> r.committed] \in AppendRequest
  BY DEF sendAppend
<1>2. r.log \in Seq(Entry) /\ r.Term \in Nat /\ r.committed \in Nat
  BY DEF Node
<1>3. p \in Nat /\ Len(r.log) - p \in Nat
  BY <1>2
<1>4. \A k \in 1 .. Len(r.log) - p : Wire(r.log[p + k]) \in Entry
  <2>1. TAKE k \in 1 .. Len(r.log) - p
  <2>2. p + k \in 1 .. Len(r.log)
    BY <1>2, <1>3
  <2>3. r.log[p + k] \in Entry
    BY <1>2, <2>2, EntryIs
  <2> QED
    BY <2>3 DEF Wire, Entry, EntryType
<1>5. [k \in 1 .. Len(r.log) - p |-> Wire(r.log[p + k])] \in Seq(Entry)
  BY <1>3, <1>4
<1>6. TermAt(r.log, p) \in Nat
  BY <1>2, TermAtNat
<1> QED
  BY <1>2, <1>3, <1>5, <1>6 DEF AppendRequest

\* Sending MsgAppend to every peer keeps a node a node.
LEMMA BcastAppendType ==
    ASSUME NEW i \in Server, NEW r \in Node
    PROVE  bcastAppend(i, r) \in Node
<1>1. UNION {sendAppend(i, r, j) : j \in Server \ {i}} \subseteq Message
  BY SendAppendType DEF Message
<1> QED
  BY <1>1 DEF bcastAppend, Node

\* becomeFollower keeps a node a node.
LEMMA BecomeFollowerType ==
    ASSUME NEW r \in Node, NEW term \in Nat, NEW lead \in Server \cup {None}
    PROVE  becomeFollower(r, term, lead) \in Node
BY DEF becomeFollower, Node

\* becomeLeader, its no-op and its progress table included, keeps a node a
\* node.
LEMMA BecomeLeaderType ==
    ASSUME NEW i \in Server, NEW r \in Node
    PROVE  becomeLeader(i, r) \in Node
<1> DEFINE noop == [term |-> r.Term, data |-> NoData, type |-> "EntryNormal"]
           last == Len(r.log)
           l == [r EXCEPT !.State = "StateLeader",
                          !.Lead = i,
                          !.Vote = None,
                          !.granted = {},
                          !.rejected = {},
                          !.log = Append(@, noop),
                          !.match = [j \in Server |-> IF j = i THEN last + 1 ELSE 0],
                          !.next = [j \in Server |-> IF j = i THEN last + 2 ELSE last + 1]]
<1>1. noop \in Entry
  BY DEF Node, Entry, EntryType
<1>2. Append(r.log, noop) \in Seq(Entry) /\ last \in Nat
  BY SMT, <1>1 DEF Node
<1>3. l \in Node
  <2>1. /\ [j \in Server |-> IF j = i THEN last + 1 ELSE 0] \in [Server -> Nat]
        /\ [j \in Server |-> IF j = i THEN last + 2 ELSE last + 1] \in [Server -> Nat]
    BY <1>2
  <2> QED
    BY <1>2, <2>1 DEF Node
<1>4. [l EXCEPT !.committed = last + 1] \in Node
  BY <1>2, <1>3 DEF Node
<1> QED
  BY <1>3, <1>4, BcastAppendType DEF becomeLeader

\* becomeCandidate, which in a group of one goes on to becomeLeader, keeps a
\* node a node.
LEMMA BecomeCandidateType ==
    ASSUME NEW i \in Server, NEW r \in Node
    PROVE  becomeCandidate(i, r) \in Node
<1> DEFINE c == [r EXCEPT !.State = "StateCandidate",
                          !.Term = @ + 1,
                          !.Lead = None,
                          !.Vote = i,
                          !.granted = {i},
                          !.rejected = {}]
<1>1. c \in Node
  <2>1. r.Term + 1 \in Nat /\ {i} \in SUBSET Server /\ {} \in SUBSET Server
    BY SMT DEF Node
  <2> QED
    BY <2>1 DEF Node
<1> QED
  BY <1>1, BecomeLeaderType DEF becomeCandidate

\* newRaft makes a node of any saved hard state and log.
LEMMA NewRaftType ==
    ASSUME NEW hs \in HardState, NEW log \in Seq(Entry)
    PROVE  newRaft(hs, log) \in Node
BY DEF newRaft, HardState, Node

\* MsgHup, with the vote requests it sends, keeps a node a node.
LEMMA CampaignType ==
    ASSUME NEW i \in Server, NEW r \in Node
    PROVE  campaign(i, r) \in Node
<1> DEFINE c == becomeCandidate(i, r)
           msgs == {[mtype |-> "MsgRequestVote", from |-> i, to |-> j,
                     term |-> c.Term, index |-> Len(c.log),
                     logTerm |-> LastTerm(c.log)] : j \in Server \ {i}}
<1>1. c \in Node
  BY BecomeCandidateType
<1>2. c.log \in Seq(Entry) /\ c.Term \in Nat
  BY <1>1 DEF Node
<1>3. msgs \subseteq VoteRequest
  BY SMT, <1>2, TermAtNat DEF VoteRequest, LastTerm
<1>4. [c EXCEPT !.msgs = @ \cup msgs] \in Node
  BY <1>1, <1>3 DEF Node, Message
<1> QED
  BY <1>1, <1>4 DEF campaign

\* Answering MsgRequestVote keeps a node a node.
LEMMA HandleRequestVoteType ==
    ASSUME NEW i \in Server, NEW r \in Node, NEW m \in VoteRequest
    PROVE  handleRequestVote(i, r, m) \in Node
<1>1. \A b \in BOOLEAN :
        [mtype |-> "MsgRequestVoteResponse", from |-> i, to |-> m.from,
         term |-> r.Term, reject |-> b] \in Message
  BY DEF Node, VoteRequest, VoteResponse, Message
<1>2. m.from \in Server
  BY DEF VoteRequest
<1> QED
  BY <1>1, <1>2 DEF handleRequestVote, Node

\* Counting a vote, whichever way the election goes, keeps a node a node.
LEMMA HandleVoteResponseType ==
    ASSUME NEW i \in Server, NEW r \in Node, NEW m \in VoteResponse
    PROVE  handleVoteResponse(i, r, m) \in Node
<1> DEFINE v == [r EXCEPT !.granted = IF m.reject THEN @ \ {m.from}
                                      ELSE @ \cup {m.from},
                          !.rejected = IF m.reject THEN @ \cup {m.from}
                                       ELSE @ \ {m.from}]
<1>1. v \in Node
  BY DEF Node, VoteResponse
<1>2. becomeLeader(i, v) \in Node
  BY <1>1, BecomeLeaderType
<1>3. becomeFollower(v, v.Term, None) \in Node
  BY ZenonT(30), <1>1, BecomeFollowerType DEF Node
<1> QED
  BY <1>1, <1>2, <1>3 DEF handleVoteResponse

\* handleAppendEntries leaves a log of entries, whatever it cuts or appends.
LEMMA MergeType ==
    ASSUME MergeFacts, NEW log \in Seq(Entry), NEW entries \in Seq(Entry),
           NEW prev \in 0 .. Len(log)
    PROVE  Merge(log, prev, entries) \in Seq(Entry)
<1>1. MergeIs(log, prev, entries, Merge(log, prev, entries))
  BY DEF MergeFacts
<1> QED
  BY <1>1 DEF MergeIs

\* The answer to MsgAppend is a message.
LEMMA AppendResponseType ==
    ASSUME NEW i \in Server, NEW r \in Node, NEW m \in AppendRequest,
           NEW reject \in BOOLEAN, NEW index \in Nat
    PROVE  appendResponse(i, r, m, reject, index) \subseteq Message
BY SMT DEF appendResponse, Node, AppendRequest, AppendResponse, Message

\* handleAppendEntries keeps a node a node.
LEMMA HandleAppendEntriesType ==
    ASSUME MergeFacts, NEW i \in Server, NEW r \in Node, NEW m \in AppendRequest
    PROVE  handleAppendEntries(i, r, m) \in Node
<1>1. /\ r.log \in Seq(Entry) /\ r.committed \in Nat /\ Len(r.log) \in Nat
      /\ m.entries \in Seq(Entry) /\ m.index \in Nat /\ m.commit \in Nat
      /\ Len(m.entries) \in Nat
  <2>1. r.log \in Seq(Entry) /\ r.committed \in Nat
    BY DEF Node
  <2>2. m.entries \in Seq(Entry) /\ m.index \in Nat /\ m.commit \in Nat
    BY DEF AppendRequest
  <2> QED
    BY SMT, <2>1, <2>2
<1>2. \A reject \in BOOLEAN, index \in Nat :
        [r EXCEPT !.msgs = @ \cup appendResponse(i, r, m, reject, index)] \in Node
  BY AppendResponseType DEF Node
<1>3. CASE m.index > Len(r.log)
  <2>1. Len(r.log) + 1 \in Nat /\ TRUE \in BOOLEAN
    BY <1>1
  <2>2. [r EXCEPT !.msgs = @ \cup appendResponse(i, r, m, TRUE, Len(r.log) + 1)]
          \in Node
    BY <1>2, <2>1
  <2> QED
    BY <1>3, <2>2 DEF handleAppendEntries
<1>4. CASE ~(m.index > Len(r.log)) /\ TermAt(r.log, m.index) # m.logTerm
  BY <1>1, <1>2, <1>4 DEF handleAppendEntries
<1>5. CASE ~(m.index > Len(r.log)) /\ TermAt(r.log, m.index) = m.logTerm
  <2> DEFINE lastNew == m.index + Len(m.entries)
             log == Merge(r.log, m.index, m.entries)
             commit == IF m.commit > r.committed THEN min(m.commit, lastNew)
                       ELSE r.committed
             msgs == r.msgs \cup appendResponse(i, r, m, FALSE, lastNew)
  <2>0. m.index \in 0 .. Len(r.log) /\ lastNew \in Nat
    BY <1>1, <1>5
  <2>1. log \in Seq(Entry)
    BY <1>1, <2>0, MergeType
  <2>2. commit \in Nat
    BY <1>1 DEF min
  <2>3. msgs \in SUBSET Message
    <3> HIDE DEF lastNew
    <3>1. appendResponse(i, r, m, FALSE, lastNew) \subseteq Message
      BY <2>0, AppendResponseType
    <3> QED
      BY <3>1 DEF Node
  <2>4. handleAppendEntries(i, r, m)
          = [r EXCEPT !.log = log, !.committed = commit, !.msgs = msgs]
    BY <1>1, <1>5 DEF handleAppendEntries
  <2> HIDE DEF log, commit, msgs
  <2> QED
    BY <2>1, <2>2, <2>3, <2>4 DEF Node
<1> QED
  BY <1>3, <1>4, <1>5

\* MsgAppend keeps a node a node in every role.
LEMMA HandleAppendType ==
    ASSUME MergeFacts, NEW i \in Server, NEW r \in Node, NEW m \in AppendRequest
    PROVE  handleAppend(i, r, m) \in Node
<1>1. m.from \in Server /\ m.term \in Nat
  BY DEF AppendRequest
<1>2. becomeFollower(r, m.term, m.from) \in Node
  BY <1>1, BecomeFollowerType
<1>3. [r EXCEPT !.Lead = m.from] \in Node
  BY <1>1 DEF Node
<1> QED
  BY <1>2, <1>3, HandleAppendEntriesType DEF handleAppend

(* The progress of a leader after an acknowledgement or a refusal, and the
   commit index it computes. *)
LEMMA ProgressType ==
    ASSUME SetFacts, NEW r \in Node, NEW m \in AppendResponse
    PROVE  LET back == [r EXCEPT !.next[m.from] = Dec(@)]
               acked == [r EXCEPT !.match[m.from] = m.index,
                                  !.next[m.from] = m.index + 1]
               commit == medianMatch(acked)
           IN /\ back \in Node /\ acked \in Node
              /\ [acked EXCEPT !.committed = commit] \in Node
<1> DEFINE back == [r EXCEPT !.next[m.from] = Dec(@)]
           acked == [r EXCEPT !.match[m.from] = m.index,
                              !.next[m.from] = m.index + 1]
           commit == medianMatch(acked)
<1>1. m.from \in Server /\ m.index \in Nat
  BY DEF AppendResponse
<1>2. back \in Node
  <2>1. Dec(r.next[m.from]) \in Nat
    BY SMT, <1>1, DataAssumption DEF Dec, Node
  <2> QED
    BY <1>1, <2>1 DEF Node
<1>3. acked \in Node
  <2>1. /\ [r.match EXCEPT ![m.from] = m.index] \in [Server -> Nat]
        /\ [r.next EXCEPT ![m.from] = m.index + 1] \in [Server -> Nat]
    BY SMT, <1>1 DEF Node
  <2> QED
    BY <1>1, <2>1 DEF Node
<1>4. commit \in Nat
  BY <1>3 DEF SetFacts
<1>5. [acked EXCEPT !.committed = commit] \in Node
  BY <1>3, <1>4 DEF Node
<1> QED
  BY <1>2, <1>3, <1>5

(* A leader that took an answer to an append is a node. *)
LEMMA HandleAppendResponseType ==
    ASSUME SetFacts, NEW i \in Server, NEW r \in Node, NEW m \in AppendResponse
    PROVE  handleAppendResponse(i, r, m) \in Node
<1> DEFINE back == [r EXCEPT !.next[m.from] = Dec(@)]
           acked == [r EXCEPT !.match[m.from] = m.index,
                              !.next[m.from] = m.index + 1]
           commit == medianMatch(acked)
<1>1. m.from \in Server /\ m.index \in Nat
  BY DEF AppendResponse
<1>2. back \in Node /\ acked \in Node /\ [acked EXCEPT !.committed = commit] \in Node
  BY ProgressType
<1>3. [back EXCEPT !.msgs = @ \cup sendAppend(i, back, m.from)] \in Node
  <2> HIDE DEF back
  <2>1. sendAppend(i, back, m.from) \subseteq Message
    BY <1>1, <1>2, SendAppendType DEF Message
  <2> QED
    BY <1>2, <2>1 DEF Node
<1>4. bcastAppend(i, [acked EXCEPT !.committed = commit]) \in Node
  BY <1>2, BcastAppendType
<1> HIDE DEF back, acked
<1> QED
  BY <1>2, <1>3, <1>4 DEF handleAppendResponse, back, acked

\* MsgBeat keeps a node a node.
LEMMA BeatType ==
    ASSUME NEW i \in Server, NEW r \in Node
    PROVE  beat(i, r) \in Node
<1>1. {[mtype |-> "MsgHeartbeat", from |-> i, to |-> j, term |-> r.Term]
          : j \in Server \ {i}} \subseteq Message
  BY SMT DEF Node, Heartbeat, Message
<1> QED
  BY <1>1 DEF beat, Node

\* MsgHeartbeat keeps a node a node in every role.
LEMMA HandleHeartbeatType ==
    ASSUME NEW i \in Server, NEW r \in Node, NEW m \in Heartbeat
    PROVE  handleHeartbeat(i, r, m) \in Node
<1> DEFINE f == IF r.State = "StateFollower" THEN [r EXCEPT !.Lead = m.from]
                ELSE becomeFollower(r, m.term, m.from)
<1>1. m.from \in Server /\ m.term \in Nat
  BY DEF Heartbeat
<1>2. f \in Node
  <2>1. [r EXCEPT !.Lead = m.from] \in Node
    BY <1>1 DEF Node
  <2> QED
    BY <1>1, <2>1, BecomeFollowerType
<1> HIDE DEF f
<1>3. [mtype |-> "MsgHeartbeatResponse", from |-> i, to |-> m.from,
       term |-> f.Term] \in Message
  BY <1>1, <1>2 DEF Node, Heartbeat, Message
<1>4. f.msgs \cup {[mtype |-> "MsgHeartbeatResponse", from |-> i, to |-> m.from,
                    term |-> f.Term]} \in SUBSET Message
  BY <1>2, <1>3 DEF Node
<1>5. handleHeartbeat(i, r, m)
        = [f EXCEPT !.msgs = @ \cup {[mtype |-> "MsgHeartbeatResponse",
                                      from |-> i, to |-> m.from,
                                      term |-> f.Term]}]
  BY DEF handleHeartbeat, f
<1> QED
  BY <1>2, <1>4, <1>5 DEF Node

\* MsgHeartbeatResponse, with the MsgAppend it may send again, keeps a node a
\* node.
LEMMA HandleHeartbeatResponseType ==
    ASSUME NEW i \in Server, NEW r \in Node, NEW m \in Heartbeat
    PROVE  handleHeartbeatResponse(i, r, m) \in Node
<1>1. sendAppend(i, r, m.from) \subseteq Message
  BY SendAppendType DEF Heartbeat, Message
<1> QED
  BY <1>1 DEF handleHeartbeatResponse, Node

(* The log and the progress of a leader after it appended a proposal. *)
LEMMA ProposedType ==
    ASSUME NEW i \in Server, NEW r \in Node, NEW e \in Entry
    PROVE  [r EXCEPT !.log = Append(@, e),
                     !.match[i] = Len(r.log) + 1,
                     !.next[i] = Len(r.log) + 1 + 1] \in Node
<1> DEFINE last == Len(r.log) + 1
<1>1. Append(r.log, e) \in Seq(Entry) /\ last \in Nat
  BY SMT DEF Node
<1> HIDE DEF last
<1>2. /\ [r.match EXCEPT ![i] = last] \in [Server -> Nat]
      /\ [r.next EXCEPT ![i] = last + 1] \in [Server -> Nat]
  BY SMT, <1>1 DEF Node
<1>3. [r EXCEPT !.log = Append(@, e), !.match[i] = last, !.next[i] = last + 1] \in Node
  BY <1>1, <1>2 DEF Node
<1> QED
  BY <1>3 DEF last

(* A leader that took a proposal is a node. *)
LEMMA ProposeNodeType ==
    ASSUME NEW i \in Server, NEW r \in Node, NEW d \in Data,
           NEW type \in ProposeType
    PROVE  propose(i, r, d, type) \in Node
<1> DEFINE last == Len(r.log) + 1
           e == [term |-> r.Term, data |-> d, type |-> type]
           p == [r EXCEPT !.log = Append(@, e),
                          !.match[i] = last,
                          !.next[i] = last + 1]
<1>1. e \in Entry
  BY DataAssumption DEF Node, Entry
<1>2. last \in Nat
  BY SMT DEF Node
<1>3. p \in Node
  <2> HIDE DEF e
  <2> QED
    BY <1>1, ProposedType
<1>4. [p EXCEPT !.committed = last] \in Node
  <2> HIDE DEF p, last
  <2> QED
    BY <1>2, <1>3 DEF Node
<1>5. bcastAppend(i, p) \in Node
  BY <1>3, BcastAppendType
<1> QED
  BY <1>4, <1>5 DEF propose

(* A node that entered the term of a message is a node. *)
LEMMA EnterType ==
    ASSUME NEW r \in Node, NEW m \in Message
    PROVE  Enter(r, m) \in Node
<1>1. m.term \in Nat
  BY DEF Message, VoteRequest, VoteResponse, AppendRequest, AppendResponse, Heartbeat
<1> QED
  BY <1>1, BecomeFollowerType DEF Enter

\* A node whose messages have been sent is a node.
LEMMA NoMsgsType ==
    ASSUME NEW r \in Node
    PROVE  [r EXCEPT !.msgs = {}] \in Node
BY DEF Node

-----------------------------------------------------------------------------
(* How the handlers preserve the invariant of their node *)

(* A handler that keeps Term and Vote, and sends neither a vote nor a request
   for votes. *)
LEMMA OrdinaryStep ==
    ASSUME NEW i \in Server, NEW r \in Node, NEW n \in Node,
           NEW nw \in SUBSET Message, NEW el \in Elections,
           Good(i, r, nw, el),
           n.Term = r.Term, n.Vote = r.Vote,
           LogUpTo(n.log, n.Term),
           CandidacyKept(i, Sent(i, r, nw), r.Term, r.Vote, n.log, el),
           \A m \in n.msgs \ r.msgs :
               /\ m.from = i /\ m.term = r.Term
               /\ ~Granted(m) /\ ~IsRequest(m)
               /\ MessageOK(m, nw, el),
           n.State = "StateCandidate" =>
               /\ n.Vote = i
               /\ \A j \in n.granted \ {i} : VotedFor(j, i, n.Term, nw),
           n.State = "StateLeader" => Elected(i, n.Term) \in el,
           n.Lead # None => Elected(n.Lead, n.Term) \in el
    PROVE  Good(i, n, nw, el)
<1> DEFINE old == Sent(i, r, nw)
           new == Sent(i, n, nw)
<1>1. \A m \in new : \/ m \in old
                      \/ m \in n.msgs \ r.msgs
  BY DEF Sent
<1>2. \A m \in new : m.term <= n.Term
  BY SMT, <1>1 DEF Good, NodeOK, Node
<1>3. \A m \in new : Granted(m) \/ IsRequest(m) => m \in old
  BY <1>1
<1>4. VoteKept(new, n.Term, n.Vote)
  BY <1>3 DEF Good, NodeOK, VoteKept
<1>5. CandidacyKept(i, new, n.Term, n.Vote, n.log, el)
  BY <1>3 DEF CandidacyKept
<1>6. /\ \A m, q \in new :
           Granted(m) /\ Granted(q) /\ m.term = q.term => m.to = q.to
      /\ \A m \in new : Granted(m) => Elected(i, m.term) \notin el
  BY <1>3 DEF Good, NodeOK
<1>7. \A m \in n.msgs : m.from = i /\ MessageOK(m, nw, el)
  BY DEF Good, NodeOK
<1> HIDE DEF new, old
<1> QED
  BY <1>2, <1>4, <1>5, <1>6, <1>7 DEF Good, NodeOK, new

(* The prologue of Step: in a later term nothing has been sent yet. *)
LEMMA EnterGood ==
    ASSUME NEW i \in Server, NEW r \in Node, NEW m \in Message,
           NEW nw \in SUBSET Message, NEW el \in Elections,
           Good(i, r, nw, el), m.term >= r.Term
    PROVE  /\ Good(i, Enter(r, m), nw, el)
           /\ Enter(r, m).Term = m.term
<1>1. r.Term \in Nat /\ m.term \in Nat
  BY MessageIs DEF Node
<1>2. CASE m.term > r.Term
  <2> DEFINE n == becomeFollower(r, m.term, None)
  <2>1. /\ n.Term = m.term /\ n.Vote = None /\ n.Lead = None
        /\ n.State = "StateFollower" /\ n.log = r.log /\ n.msgs = r.msgs
    BY <1>1, <1>2 DEF becomeFollower, Node
  <2>2. Enter(r, m) = n
    BY <1>2 DEF Enter
  <2>3. Sent(i, n, nw) = Sent(i, r, nw)
    BY <2>1 DEF Sent
  <2>4. \A q \in Sent(i, r, nw) : q.term <= r.Term /\ q.term \in Nat
    BY MessageIs DEF Good, NodeOK, Sent, Node
  <2>5. \A q \in Sent(i, r, nw) : q.term <= n.Term /\ q.term # n.Term
    BY <1>1, <1>2, <2>1, <2>4
  <2>6. LogUpTo(n.log, n.Term)
    <3>1. ASSUME NEW k \in 1 .. Len(r.log) PROVE r.log[k].term <= m.term
      <4>1. r.log[k].term \in Nat
        BY EntryIs DEF Node
      <4>2. r.log[k].term <= r.Term
        BY DEF Good, NodeOK, LogUpTo
      <4> QED
        BY <1>1, <1>2, <4>1, <4>2
    <3> QED
      BY <2>1, <3>1 DEF LogUpTo
  <2> HIDE DEF n
  <2>7. /\ VoteKept(Sent(i, n, nw), n.Term, n.Vote)
        /\ CandidacyKept(i, Sent(i, n, nw), n.Term, n.Vote, n.log, el)
    BY <2>3, <2>5 DEF VoteKept, CandidacyKept
  <2>8. Good(i, n, nw, el)
    BY <2>1, <2>3, <2>5, <2>6, <2>7 DEF Good, NodeOK
  <2> QED
    BY <2>1, <2>2, <2>8
<1>3. CASE ~(m.term > r.Term)
  BY <1>1, <1>3 DEF Enter
<1> QED
  BY <1>2, <1>3

\* A message a leader sends in its term.
ByLeader(i, term, m) ==
    /\ FromLeader(m)
    /\ m.from = i /\ m.to # i /\ m.term = term
    /\ m.mtype = "MsgAppend" => LogUpTo(m.entries, term)

(* What sendAppend sends. *)
LEMMA SendAppendEffect ==
    ASSUME NEW i \in Server, NEW j \in Server \ {i}, NEW r \in Node,
           LogUpTo(r.log, r.Term), NEW m \in sendAppend(i, r, j)
    PROVE  ByLeader(i, r.Term, m)
<1> DEFINE Msg(p) ==
        [mtype |-> "MsgAppend", from |-> i, to |-> j, term |-> r.Term,
         index |-> p, logTerm |-> TermAt(r.log, p),
         entries |-> [k \in 1 .. Len(r.log) - p |-> Wire(r.log[p + k])],
         commit |-> r.committed]
<1>1. PICK p \in 0 .. Len(r.log) : m = Msg(p)
  BY Zenon DEF sendAppend
<1>2. m.entries = [k \in 1 .. Len(r.log) - p |-> Wire(r.log[p + k])]
  BY <1>1
<1>3. r.log \in Seq(Entry) /\ Len(r.log) \in Nat
  BY SMT DEF Node
<1>4. m.entries \in Seq(Entry) /\ Len(m.entries) = Len(r.log) - p
  <2>1. \A k \in 1 .. Len(r.log) - p : Wire(r.log[p + k]) \in Entry
    <3> TAKE k \in 1 .. Len(r.log) - p
    <3>1. p + k \in 1 .. Len(r.log)
      BY <1>3
    <3>2. r.log[p + k] \in Entry
      BY <1>3, <3>1, EntryIs
    <3> QED
      BY <3>2 DEF Wire, Entry, EntryType
  <2>2. Len(r.log) - p \in Nat
    BY <1>3
  <2>3. m.entries \in [1 .. Len(r.log) - p -> Entry]
    BY <1>2, <2>1
  <2> HIDE DEF Msg
  <2> QED
    BY <2>2, <2>3
<1>5. LogUpTo(m.entries, r.Term)
  <2>1. SUFFICES ASSUME NEW k \in 1 .. Len(r.log) - p
                 PROVE  m.entries[k].term <= r.Term
    BY <1>4 DEF LogUpTo
  <2>2. p + k \in 1 .. Len(r.log)
    BY <1>3
  <2>3. m.entries[k].term = r.log[p + k].term
    BY SMT, <1>2 DEF Wire
  <2> QED
    BY <2>2, <2>3 DEF LogUpTo
<1>6. m.mtype = "MsgAppend" /\ m.from = i /\ m.to = j /\ m.term = r.Term
  BY <1>1
<1> QED
  BY <1>5, <1>6 DEF ByLeader, FromLeader

(* bcastAppend only sends. *)
LEMMA BcastAppendEffect ==
    ASSUME NEW i \in Server, NEW r \in Node, LogUpTo(r.log, r.Term),
           NEW n, n = bcastAppend(i, r)
    PROVE  /\ n.Term = r.Term /\ n.Vote = r.Vote /\ n.State = r.State
           /\ n.Lead = r.Lead /\ n.log = r.log /\ n.granted = r.granted
           /\ r.msgs \subseteq n.msgs
           /\ \A m \in n.msgs \ r.msgs : ByLeader(i, r.Term, m)
<1>1. n.msgs = r.msgs \cup UNION {sendAppend(i, r, j) : j \in Server \ {i}}
  BY DEF bcastAppend, Node
<1>2. \A m \in n.msgs \ r.msgs : ByLeader(i, r.Term, m)
  BY <1>1, SendAppendEffect
<1> QED
  BY <1>1, <1>2 DEF bcastAppend, Node

(* A leader that appends to its log or sends to its followers. *)
LEMMA LeaderStep ==
    ASSUME NEW i \in Server, NEW r \in Node, NEW n \in Node,
           NEW nw \in SUBSET Message, NEW el \in Elections,
           Good(i, r, nw, el), r.State = "StateLeader",
           n.Term = r.Term, n.Vote = r.Vote, n.State = r.State, n.Lead = r.Lead,
           LogUpTo(n.log, r.Term),
           n.log = r.log \/ LastTerm(n.log) = r.Term,
           \A m \in n.msgs \ r.msgs : ByLeader(i, r.Term, m)
    PROVE  Good(i, n, nw, el)
<1>1. Elected(i, r.Term) \in el
  BY DEF Good, NodeOK
<1>2. CandidacyKept(i, Sent(i, r, nw), r.Term, r.Vote, n.log, el)
  BY <1>1 DEF Good, NodeOK, CandidacyKept
<1>3. \A m \in n.msgs \ r.msgs :
          /\ m.from = i /\ m.term = r.Term
          /\ ~Granted(m) /\ ~IsRequest(m)
          /\ MessageOK(m, nw, el)
  BY <1>1 DEF ByLeader, Granted, IsRequest, FromLeader, MessageOK
<1>4. n.Lead # None => Elected(n.Lead, n.Term) \in el
  BY DEF Good, NodeOK
<1> QED
  BY <1>1, <1>2, <1>3, <1>4, OrdinaryStep

(* MsgBeat. *)
LEMMA BeatGood ==
    ASSUME NEW i \in Server, NEW r \in Node,
           NEW nw \in SUBSET Message, NEW el \in Elections,
           Good(i, r, nw, el), r.State = "StateLeader"
    PROVE  Good(i, beat(i, r), nw, el)
<1> DEFINE n == beat(i, r)
<1>1. n \in Node
  BY BeatType
<1>2. /\ n.Term = r.Term /\ n.Vote = r.Vote /\ n.State = r.State
      /\ n.Lead = r.Lead /\ n.log = r.log
      /\ n.msgs = r.msgs \cup {[mtype |-> "MsgHeartbeat", from |-> i, to |-> j,
                                term |-> r.Term] : j \in Server \ {i}}
  BY DEF beat, Node
<1>3. \A m \in n.msgs \ r.msgs : ByLeader(i, r.Term, m)
  BY SMT, <1>2 DEF ByLeader, FromLeader
<1>4. LogUpTo(n.log, r.Term)
  BY <1>2 DEF Good, NodeOK
<1> HIDE DEF n
<1> QED
  BY <1>1, <1>2, <1>3, <1>4, LeaderStep DEF n

(* An entry of the current term at the end of a log. *)
LEMMA AppendEffect ==
    ASSUME NEW log \in Seq(Entry), NEW e \in Entry, LogUpTo(log, e.term)
    PROVE  LogUpTo(Append(log, e), e.term) /\ LastTerm(Append(log, e)) = e.term
<1>1. e.term \in Nat /\ Len(log) \in Nat
  BY SMT DEF Entry
<1>2. /\ Len(Append(log, e)) = Len(log) + 1
      /\ \A k \in 1 .. Len(log) : Append(log, e)[k] = log[k]
      /\ Append(log, e)[Len(log) + 1] = e
  OBVIOUS
<1>3. LogUpTo(Append(log, e), e.term)
  BY <1>1, <1>2 DEF LogUpTo
<1>4. LastTerm(Append(log, e)) = e.term
  BY <1>1, <1>2 DEF LastTerm, TermAt
<1> QED
  BY <1>3, <1>4

(* MsgPropose on a leader. *)
LEMMA ProposeGood ==
    ASSUME NEW i \in Server, NEW r \in Node, NEW d \in Data, NEW type \in ProposeType,
           NEW nw \in SUBSET Message, NEW el \in Elections,
           Good(i, r, nw, el), r.State = "StateLeader"
    PROVE  Good(i, propose(i, r, d, type), nw, el)
<1> DEFINE e == [term |-> r.Term, data |-> d, type |-> type]
           last == Len(r.log) + 1
           p == [r EXCEPT !.log = Append(@, e), !.match[i] = last, !.next[i] = last + 1]
           n == propose(i, r, d, type)
<1>1. e \in Entry /\ e.term = r.Term /\ r.log \in Seq(Entry)
  BY DataAssumption DEF Entry, Node
<1>2. LogUpTo(Append(r.log, e), r.Term) /\ LastTerm(Append(r.log, e)) = r.Term
  <2> HIDE DEF e
  <2> QED
    BY <1>1, AppendEffect DEF Good, NodeOK
<1>3. n \in Node
  BY ProposeNodeType
<1>4. /\ p.Term = r.Term /\ p.Vote = r.Vote /\ p.State = r.State /\ p.Lead = r.Lead
      /\ p.log = Append(r.log, e) /\ p.msgs = r.msgs
  BY DEF Node
<1>5. p \in Node
  <2> HIDE DEF e
  <2> QED
    BY <1>1, ProposedType
<1>6. n = IF Single THEN [p EXCEPT !.committed = last] ELSE bcastAppend(i, p)
  BY Zenon DEF propose
<1> HIDE DEF e, p, n, last
<1>7. /\ n.Term = r.Term /\ n.Vote = r.Vote /\ n.State = r.State /\ n.Lead = r.Lead
      /\ n.log = Append(r.log, e)
      /\ \A m \in n.msgs \ r.msgs : ByLeader(i, r.Term, m)
  <2>1. CASE Single
    BY <1>4, <1>5, <1>6, <2>1 DEF Node
  <2>2. CASE ~Single
    <3>1. n = bcastAppend(i, p) /\ LogUpTo(p.log, p.Term)
      BY <1>2, <1>4, <1>6, <2>2
    <3>2. /\ n.Term = p.Term /\ n.Vote = p.Vote /\ n.State = p.State
          /\ n.Lead = p.Lead /\ n.log = p.log
          /\ \A m \in n.msgs \ p.msgs : ByLeader(i, p.Term, m)
      BY <1>5, <3>1, BcastAppendEffect
    <3> QED
      BY <1>4, <3>2
  <2> QED
    BY <2>1, <2>2
<1> QED
  BY <1>2, <1>3, <1>7, LeaderStep DEF n

(* MsgHeartbeatResponse. *)
LEMMA HandleHeartbeatResponseGood ==
    ASSUME NEW i \in Server, NEW r \in Node, NEW m \in Heartbeat, m.from # i,
           NEW nw \in SUBSET Message, NEW el \in Elections,
           Good(i, r, nw, el)
    PROVE  Good(i, handleHeartbeatResponse(i, r, m), nw, el)
<1> DEFINE n == handleHeartbeatResponse(i, r, m)
<1>1. n \in Node
  BY HandleHeartbeatResponseType
<1>2. CASE r.State = "StateLeader" /\ r.next[m.from] <= Len(r.log)
  <2>1. LogUpTo(r.log, r.Term)
    BY DEF Good, NodeOK
  <2>2. /\ n.Term = r.Term /\ n.Vote = r.Vote /\ n.State = r.State
        /\ n.Lead = r.Lead /\ n.log = r.log
        /\ n.msgs = r.msgs \cup sendAppend(i, r, m.from)
    BY <1>2 DEF handleHeartbeatResponse, Node
  <2>3. \A q \in n.msgs \ r.msgs : ByLeader(i, r.Term, q)
    BY <2>1, <2>2, SendAppendEffect DEF Heartbeat
  <2> HIDE DEF n
  <2> QED
    BY <1>1, <1>2, <2>1, <2>2, <2>3, LeaderStep DEF n
<1>3. CASE ~(r.State = "StateLeader" /\ r.next[m.from] <= Len(r.log))
  BY <1>3 DEF handleHeartbeatResponse
<1> QED
  BY <1>2, <1>3

(* MsgAppendResponse. *)
LEMMA HandleAppendResponseGood ==
    ASSUME SetFacts, NEW i \in Server, NEW r \in Node, NEW m \in AppendResponse, m.from # i,
           NEW nw \in SUBSET Message, NEW el \in Elections,
           Good(i, r, nw, el)
    PROVE  Good(i, handleAppendResponse(i, r, m), nw, el)
<1> DEFINE n == handleAppendResponse(i, r, m)
           back == [r EXCEPT !.next[m.from] = Dec(@)]
           acked == [r EXCEPT !.match[m.from] = m.index,
                              !.next[m.from] = m.index + 1]
           commit == medianMatch(acked)
           told == [acked EXCEPT !.committed = commit]
<1>1. n \in Node /\ back \in Node /\ acked \in Node /\ told \in Node
  BY HandleAppendResponseType, ProgressType
<1>2. LogUpTo(r.log, r.Term) /\ m.from \in Server
  BY DEF Good, NodeOK, AppendResponse
<1>3. /\ back.Term = r.Term /\ back.Vote = r.Vote /\ back.State = r.State
      /\ back.Lead = r.Lead /\ back.log = r.log /\ back.msgs = r.msgs
      /\ acked.Term = r.Term /\ acked.Vote = r.Vote /\ acked.State = r.State
      /\ acked.Lead = r.Lead /\ acked.log = r.log /\ acked.msgs = r.msgs
      /\ told.Term = r.Term /\ told.Vote = r.Vote /\ told.State = r.State
      /\ told.Lead = r.Lead /\ told.log = r.log /\ told.msgs = r.msgs
  BY DEF Node
<1>4. \/ n = r
      \/ r.State = "StateLeader" /\ n = [back EXCEPT !.msgs = @ \cup sendAppend(i, back, m.from)]
      \/ r.State = "StateLeader" /\ n = bcastAppend(i, told)
      \/ r.State = "StateLeader" /\ n = acked
  <2> HIDE DEF back, acked, told
  <2> QED
    BY DEF handleAppendResponse, back, acked, told
<1> HIDE DEF n, back, acked, told, commit
<1>5. CASE r.State = "StateLeader" /\ n = [back EXCEPT !.msgs = @ \cup sendAppend(i, back, m.from)]
  <2>1. /\ n.Term = r.Term /\ n.Vote = r.Vote /\ n.State = r.State
        /\ n.Lead = r.Lead /\ n.log = r.log
        /\ n.msgs = r.msgs \cup sendAppend(i, back, m.from)
    BY <1>1, <1>3, <1>5 DEF Node
  <2>2. \A q \in n.msgs \ r.msgs : ByLeader(i, r.Term, q)
    BY <1>1, <1>2, <1>3, <2>1, SendAppendEffect
  <2> QED
    BY <1>1, <1>2, <1>5, <2>1, <2>2, LeaderStep DEF n
<1>6. CASE r.State = "StateLeader" /\ n = bcastAppend(i, told)
  <2>1. /\ n.Term = r.Term /\ n.Vote = r.Vote /\ n.State = r.State
        /\ n.Lead = r.Lead /\ n.log = r.log
        /\ \A q \in n.msgs \ r.msgs : ByLeader(i, r.Term, q)
    BY SMT, <1>1, <1>2, <1>3, <1>6, BcastAppendEffect
  <2> QED
    BY <1>1, <1>2, <1>6, <2>1, LeaderStep DEF n
<1>7. CASE r.State = "StateLeader" /\ n = acked
  BY <1>1, <1>2, <1>3, <1>7, LeaderStep DEF n
<1> QED
  BY <1>4, <1>5, <1>6, <1>7 DEF n

(* MsgHeartbeat: its sender won the election of the term. *)
LEMMA HandleHeartbeatGood ==
    ASSUME NEW i \in Server, NEW r \in Node, NEW m \in Heartbeat,
           NEW nw \in SUBSET Message, NEW el \in Elections,
           m.mtype = "MsgHeartbeat", m.to = i, m.term = r.Term,
           Good(i, r, nw, el), MessageOK(m, nw, el)
    PROVE  Good(i, handleHeartbeat(i, r, m), nw, el)
<1> DEFINE n == handleHeartbeat(i, r, m)
           a == [mtype |-> "MsgHeartbeatResponse", from |-> i, to |-> m.from,
                 term |-> r.Term]
<1>1. n \in Node
  BY HandleHeartbeatType
<1>2. Elected(m.from, r.Term) \in el /\ m.from # i
  BY DEF MessageOK, FromLeader
<1>3. /\ n.Term = r.Term /\ n.Vote = r.Vote /\ n.State = "StateFollower"
      /\ n.Lead = m.from /\ n.log = r.log
      /\ n.msgs = r.msgs \cup {a}
  BY SMT DEF handleHeartbeat, becomeFollower, Node
<1>4. \A q \in n.msgs \ r.msgs :
          /\ q.from = i /\ q.term = r.Term
          /\ ~Granted(q) /\ ~IsRequest(q)
          /\ MessageOK(q, nw, el)
  BY SMT, <1>2, <1>3 DEF Granted, IsRequest, FromLeader, MessageOK
<1>5. /\ LogUpTo(r.log, r.Term)
      /\ CandidacyKept(i, Sent(i, r, nw), r.Term, r.Vote, r.log, el)
  BY DEF Good, NodeOK
<1> HIDE DEF n
<1> QED
  BY <1>1, <1>2, <1>3, <1>4, <1>5, OrdinaryStep DEF n

(* Merge keeps the terms of a log below the term of the sender. *)
LEMMA MergeUpTo ==
    ASSUME MergeFacts, NEW log \in Seq(Entry), NEW prev \in 0 .. Len(log),
           NEW entries \in Seq(Entry), NEW term,
           LogUpTo(log, term), LogUpTo(entries, term)
    PROVE  LogUpTo(Merge(log, prev, entries), term)
<1>1. PICK new : new = Merge(log, prev, entries)
  OBVIOUS
<1>2. MergeIs(log, prev, entries, new)
  BY <1>1 DEF MergeFacts
<1>3. CASE new = log
  BY <1>1, <1>3
<1>4. ASSUME NEW k \in 1 .. Len(entries), new \in Seq(Entry),
             Len(new) = prev + Len(entries), prev + k - 1 <= Len(log),
             \A j \in 1 .. prev + k - 1 : new[j] = log[j],
             \A j \in prev + k .. Len(new) : new[j] = entries[j - prev]
      PROVE  LogUpTo(new, term)
  <2> SUFFICES ASSUME NEW j \in 1 .. Len(new) PROVE new[j].term <= term
    BY DEF LogUpTo
  <2>1. CASE j <= prev + k - 1
    <3>1. j \in 1 .. prev + k - 1 /\ j \in 1 .. Len(log)
      BY ONLY prev \in 0 .. Len(log), log \in Seq(Entry), k \in 1 .. Len(entries),
              entries \in Seq(Entry), j \in 1 .. Len(new), <1>4, <2>1
    <3> QED
      BY <1>4, <3>1 DEF LogUpTo
  <2>2. CASE ~(j <= prev + k - 1)
    <3>1. j \in prev + k .. Len(new) /\ j - prev \in 1 .. Len(entries)
      BY ONLY prev \in 0 .. Len(log), log \in Seq(Entry), k \in 1 .. Len(entries),
              entries \in Seq(Entry), j \in 1 .. Len(new), <1>4, <2>2
    <3> QED
      BY <1>4, <3>1 DEF LogUpTo
  <2> QED
    BY <2>1, <2>2
<1> QED
  BY <1>1, <1>2, <1>3, <1>4 DEF MergeIs

(* MsgAppend: its sender won the election of the term, so this node did not,
   and if it asked for votes in the term its own vote is still recorded. *)
LEMMA HandleAppendGood ==
    ASSUME MergeFacts, NEW i \in Server, NEW r \in Node, NEW m \in AppendRequest,
           NEW nw \in SUBSET Message, NEW el \in Elections,
           m.to = i, m.term = r.Term, OneLeader(el),
           Good(i, r, nw, el), MessageOK(m, nw, el)
    PROVE  Good(i, handleAppend(i, r, m), nw, el)
<1> DEFINE n == handleAppend(i, r, m)
<1>1. n \in Node
  BY HandleAppendType
<1>2. /\ Elected(m.from, r.Term) \in el /\ m.from # i
      /\ LogUpTo(m.entries, r.Term) /\ LogUpTo(r.log, r.Term)
  BY DEF MessageOK, FromLeader, AppendRequest, Good, NodeOK
<1>3. Elected(i, r.Term) \notin el
  BY <1>2 DEF OneLeader, Elected
<1>4. CandidacyKept(i, Sent(i, r, nw), r.Term, r.Vote, n.log, el)
  BY <1>3 DEF Good, NodeOK, CandidacyKept
<1>5. /\ n.Term = r.Term /\ n.Vote = r.Vote /\ n.State = "StateFollower"
      /\ n.Lead = m.from
      /\ \/ n.log = r.log
         \/ /\ n.log = Merge(r.log, m.index, m.entries)
            /\ m.index <= Len(r.log)
      /\ \/ n.msgs = r.msgs
         \/ \E reject, index :
               n.msgs = r.msgs \cup {[mtype |-> "MsgAppendResponse", from |-> i,
                                      to |-> m.from, term |-> r.Term,
                                      reject |-> reject, index |-> index]}
  <2> DEFINE f == IF r.State = "StateLeader" THEN becomeFollower(r, m.term, m.from)
                  ELSE [r EXCEPT !.Lead = m.from]
  <2>1. CASE r.State = "StateCandidate"
    BY SMT, <2>1 DEF handleAppend, becomeFollower, Node
  <2>2. CASE r.State # "StateCandidate"
    <3>1. /\ f.Term = r.Term /\ f.Vote = r.Vote /\ f.State = "StateFollower"
          /\ f.Lead = m.from /\ f.log = r.log /\ f.msgs = r.msgs
      BY SMT, <2>2 DEF becomeFollower, Node
    <3>2. f \in Node
      <4>1. m.from \in Server /\ m.term \in Nat
        BY DEF AppendRequest
      <4>2. [r EXCEPT !.Lead = m.from] \in Node
        BY <4>1 DEF Node
      <4> QED
        BY <4>1, <4>2, BecomeFollowerType
    <3>3. n = handleAppendEntries(i, f, m)
      BY <2>2 DEF handleAppend
    <3> HIDE DEF f, n
    <3>4. CASE m.index > Len(f.log)
      BY <3>1, <3>2, <3>3, <3>4 DEF handleAppendEntries, appendResponse, Node
    <3>5. CASE ~(m.index > Len(f.log)) /\ TermAt(f.log, m.index) # m.logTerm
      BY <3>1, <3>2, <3>3, <3>5 DEF handleAppendEntries, appendResponse, Node
    <3>6. CASE ~(m.index > Len(f.log)) /\ TermAt(f.log, m.index) = m.logTerm
      <4>1. m.index <= Len(f.log)
        BY SMT, <3>2, <3>6 DEF Node, AppendRequest
      <4> QED
        BY <3>1, <3>2, <3>3, <3>6, <4>1 DEF handleAppendEntries, appendResponse, Node
    <3> QED
      BY <3>4, <3>5, <3>6
  <2> QED
    BY <2>1, <2>2
<1>6. LogUpTo(n.log, r.Term)
  <2> HIDE DEF n
  <2>1. r.log \in Seq(Entry) /\ m.entries \in Seq(Entry) /\ m.index \in Nat
    BY DEF Node, AppendRequest
  <2> QED
    BY SMT, <1>2, <1>5, <2>1, MergeUpTo
<1> HIDE DEF n
<1>7. \A q \in n.msgs \ r.msgs :
          /\ q.from = i /\ q.term = r.Term
          /\ ~Granted(q) /\ ~IsRequest(q)
          /\ MessageOK(q, nw, el)
  BY ONLY SMTT(30), <1>2, <1>5 DEF Granted, IsRequest, FromLeader, MessageOK
<1> QED
  BY <1>1, <1>2, <1>4, <1>5, <1>6, <1>7, OrdinaryStep DEF n

(* MsgRequestVote.  A node that grants its vote has not asked for votes in the
   term: it would have its own vote, or the no-op of the term in its log, and
   then the candidate's log, which is of earlier terms, is not up to date.
   This is why a leader may forget its Vote. *)
LEMMA HandleRequestVoteGood ==
    ASSUME SetFacts, NEW i \in Server, NEW r \in Node, NEW m \in VoteRequest,
           NEW nw \in SUBSET Message, NEW el \in Elections,
           m \in nw, m.to = i, m.term = r.Term,
           Good(i, r, nw, el), MessageOK(m, nw, el),
           \A e \in el : ElectionOK(e, nw)
    PROVE  Good(i, handleRequestVote(i, r, m), nw, el)
<1> DEFINE grant == /\ r.State = "StateFollower"
                    /\ r.Vote \in {None, m.from}
                    /\ UpToDate(r, m)
           a == [mtype |-> "MsgRequestVoteResponse", from |-> i, to |-> m.from,
                 term |-> r.Term, reject |-> ~grant]
           n == handleRequestVote(i, r, m)
           old == Sent(i, r, nw)
           new == Sent(i, n, nw)
<1>0. /\ m.from \in Server /\ m.from # i /\ IsRequest(m)
      /\ m.logTerm \in Nat /\ m.logTerm < r.Term /\ r.Term \in Nat
  BY DEF VoteRequest, MessageOK, IsRequest, Node
<1>1. n \in Node
  BY HandleRequestVoteType
<1>2. /\ n.Term = r.Term /\ n.Vote = (IF grant THEN m.from ELSE r.Vote)
      /\ n.State = r.State /\ n.Lead = r.Lead /\ n.log = r.log
      /\ n.granted = r.granted /\ n.msgs = r.msgs \cup {a}
  BY DEF handleRequestVote, Node
<1>3. a.from = i /\ a.to = m.from /\ a.term = r.Term /\ ~IsRequest(a) /\ (Granted(a) <=> grant)
  BY DEF Granted, IsRequest
<1>4. MessageOK(a, nw, el)
  BY <1>0 DEF MessageOK, IsRequest, FromLeader, Granted, Requested
<1> HIDE DEF a, n
<1>5. CASE ~grant
  <2>1. \A q \in n.msgs \ r.msgs :
            /\ q.from = i /\ q.term = r.Term
            /\ ~Granted(q) /\ ~IsRequest(q)
            /\ MessageOK(q, nw, el)
    BY <1>2, <1>3, <1>4, <1>5
  <2>2. /\ LogUpTo(n.log, n.Term)
        /\ CandidacyKept(i, Sent(i, r, nw), r.Term, r.Vote, n.log, el)
        /\ n.State = "StateCandidate" =>
               /\ n.Vote = i
               /\ \A j \in n.granted \ {i} : VotedFor(j, i, n.Term, nw)
        /\ n.State = "StateLeader" => Elected(i, n.Term) \in el
        /\ n.Lead # None => Elected(n.Lead, n.Term) \in el
    BY <1>2, <1>5 DEF Good, NodeOK
  <2> QED
    BY <1>1, <1>2, <1>5, <2>1, <2>2, OrdinaryStep DEF n
<1>6. CASE grant
  <2>1. \A q \in old : ~(IsRequest(q) /\ q.term = r.Term)
    <3> SUFFICES ASSUME NEW q \in old, IsRequest(q), q.term = r.Term PROVE FALSE
      OBVIOUS
    <3>1. r.Vote # i
      BY <1>0, <1>6, ServerAssumption
    <3>2. LastTerm(r.log) = r.Term
      BY <3>1 DEF Good, NodeOK, CandidacyKept
    <3> QED
      BY <1>0, <1>6, <3>2 DEF UpToDate
  <2>2. Elected(i, r.Term) \notin el
    <3> SUFFICES ASSUME Elected(i, r.Term) \in el PROVE FALSE
      OBVIOUS
    <3>1. ~Single
      BY <1>0 DEF SetFacts
    <3>2. Requested(i, r.Term, nw)
      BY <3>1 DEF ElectionOK, Elected
    <3> QED
      BY <2>1, <3>2 DEF Requested, Sent
  <2>3. \A q \in old : Granted(q) /\ q.term = r.Term => q.to = m.from
    <3> SUFFICES ASSUME NEW q \in old, Granted(q), q.term = r.Term PROVE q.to = m.from
      OBVIOUS
    <3>1. q.to = r.Vote
      BY DEF Good, NodeOK, VoteKept
    <3>2. q.to \in Server
      BY MessageIs DEF Sent, Node
    <3> QED
      BY <1>6, <3>1, <3>2, ServerAssumption
  <2>4. \A q \in new : q \in old \/ q = a
    BY <1>2 DEF Sent
  <2> HIDE DEF new, old
  <2>5. \A q \in new : q.term <= n.Term
    <3>1. \A q \in old : q.term <= r.Term
      BY DEF Good, NodeOK, old
    <3>2. a.term <= r.Term
      BY <1>0, <1>3
    <3> QED
      BY <1>2, <2>4, <3>1, <3>2
  <2>6. VoteKept(new, n.Term, n.Vote)
    BY <1>2, <1>3, <1>6, <2>3, <2>4 DEF VoteKept
  <2>7. CandidacyKept(i, new, n.Term, n.Vote, n.log, el)
    BY <1>2, <1>3, <2>1, <2>4 DEF CandidacyKept
  <2>8. \A p, q \in new : Granted(p) /\ Granted(q) /\ p.term = q.term => p.to = q.to
    BY <1>3, <2>3, <2>4 DEF Good, NodeOK, old
  <2>9. \A q \in new : Granted(q) => Elected(i, q.term) \notin el
    BY <1>3, <2>2, <2>4 DEF Good, NodeOK, old
  <2>10. \A q \in n.msgs : q.from = i /\ MessageOK(q, nw, el)
    BY <1>2, <1>3, <1>4 DEF Good, NodeOK
  <2>11. /\ LogUpTo(n.log, n.Term)
         /\ n.State = "StateFollower"
         /\ n.Lead # None => Elected(n.Lead, n.Term) \in el
    BY <1>2, <1>6 DEF Good, NodeOK
  <2> QED
    BY <2>5, <2>6, <2>7, <2>8, <2>9, <2>10, <2>11 DEF Good, NodeOK, new, n
<1> QED
  BY <1>5, <1>6

-----------------------------------------------------------------------------
(* How the handlers of votes, candidacies and answers preserve the invariant *)

(* What becomeLeader leaves: a log that ends with the no-op of the term, no
   vote, and messages to the followers. *)
LEMMA BecomeLeaderEffect ==
    ASSUME NEW i \in Server, NEW r \in Node, LogUpTo(r.log, r.Term),
           NEW n, n = becomeLeader(i, r)
    PROVE  /\ n.Term = r.Term /\ n.Vote = None /\ n.State = "StateLeader"
           /\ n.Lead = i
           /\ LogUpTo(n.log, r.Term) /\ LastTerm(n.log) = r.Term
           /\ r.msgs \subseteq n.msgs
           /\ \A m \in n.msgs \ r.msgs : ByLeader(i, r.Term, m)
<1> DEFINE noop == [term |-> r.Term, data |-> NoData, type |-> "EntryNormal"]
           last == Len(r.log)
           l == [r EXCEPT !.State = "StateLeader",
                          !.Lead = i,
                          !.Vote = None,
                          !.granted = {},
                          !.rejected = {},
                          !.log = Append(@, noop),
                          !.match = [j \in Server |-> IF j = i THEN last + 1 ELSE 0],
                          !.next = [j \in Server |-> IF j = i THEN last + 2 ELSE last + 1]]
<1>1. noop \in Entry /\ noop.term = r.Term /\ r.log \in Seq(Entry) /\ last \in Nat
  BY SMT DEF Node, Entry, EntryType
<1>2. LogUpTo(Append(r.log, noop), r.Term) /\ LastTerm(Append(r.log, noop)) = r.Term
  <2> HIDE DEF noop
  <2> QED
    BY <1>1, AppendEffect
<1>3. Append(r.log, noop) \in Seq(Entry)
  <2> HIDE DEF noop
  <2> QED
    BY <1>1
<1>4. l \in Node
  <2>1. /\ [j \in Server |-> IF j = i THEN last + 1 ELSE 0] \in [Server -> Nat]
        /\ [j \in Server |-> IF j = i THEN last + 2 ELSE last + 1] \in [Server -> Nat]
    BY <1>1
  <2> HIDE DEF noop, last
  <2> QED
    BY <1>3, <2>1 DEF Node
<1>5. /\ l.Term = r.Term /\ l.Vote = None /\ l.State = "StateLeader" /\ l.Lead = i
      /\ l.log = Append(r.log, noop) /\ l.msgs = r.msgs
  BY DEF Node
<1>6. n = IF Single THEN [l EXCEPT !.committed = last + 1] ELSE bcastAppend(i, l)
  BY DEF becomeLeader
<1> HIDE DEF l, noop, last
<1>7. CASE Single
  BY <1>2, <1>4, <1>5, <1>6, <1>7 DEF Node
<1>8. CASE ~Single
  <2>1. n = bcastAppend(i, l) /\ LogUpTo(l.log, l.Term)
    BY <1>2, <1>5, <1>6, <1>8
  <2>2. /\ n.Term = l.Term /\ n.Vote = l.Vote /\ n.State = l.State
        /\ n.Lead = l.Lead /\ n.log = l.log
        /\ l.msgs \subseteq n.msgs
        /\ \A m \in n.msgs \ l.msgs : ByLeader(i, l.Term, m)
    BY <1>4, <2>1, BcastAppendEffect
  <2> QED
    BY <1>2, <1>5, <2>2
<1> QED
  BY <1>7, <1>8

(* A candidate that becomes leader may forget its vote: it has voted for no
   other node in the term, and the no-op stands for its own vote. *)
LEMMA BecomeLeaderGood ==
    ASSUME NEW i \in Server, NEW r \in Node,
           NEW nw \in SUBSET Message, NEW el \in Elections,
           Good(i, r, nw, el), r.State = "StateCandidate",
           \A m \in nw : MessageOK(m, nw, el)
    PROVE  Good(i, becomeLeader(i, r), nw, el \cup {Elected(i, r.Term)})
<1> DEFINE n == becomeLeader(i, r)
           el2 == el \cup {Elected(i, r.Term)}
           old == Sent(i, r, nw)
           new == Sent(i, n, nw)
<1>a. n = becomeLeader(i, r)
  OBVIOUS
<1> HIDE DEF n
<1>b. LogUpTo(r.log, r.Term)
  BY DEF Good, NodeOK
<1>1. /\ n.Term = r.Term /\ n.Vote = None /\ n.State = "StateLeader"
      /\ n.Lead = i
      /\ LogUpTo(n.log, r.Term) /\ LastTerm(n.log) = r.Term
      /\ \A m \in n.msgs \ r.msgs : ByLeader(i, r.Term, m)
  BY ONLY SMTT(30), <1>a, <1>b, i \in Server, r \in Node, BecomeLeaderEffect
<1>2. Elected(i, r.Term) \in el2 /\ el \subseteq el2 /\ r.Term \in Nat
  BY DEF Node
<1>3. \A m \in old : ~(Granted(m) /\ m.term = r.Term)
  <2> SUFFICES ASSUME NEW m \in old, Granted(m), m.term = r.Term PROVE FALSE
    OBVIOUS
  <2>1. m.to = i
    BY DEF Good, NodeOK, VoteKept
  <2>2. m.from = i /\ m.from # m.to
    BY DEF Good, NodeOK, Sent, MessageOK
  <2> QED
    BY <2>1, <2>2
<1>4. \A m \in new : m \in old \/ ByLeader(i, r.Term, m)
  BY <1>1 DEF Sent
<1>5. \A m \in new : m.term <= n.Term
  <2>1. \A m \in old : m.term <= r.Term
    BY DEF Good, NodeOK
  <2>2. \A m : ByLeader(i, r.Term, m) => m.term <= r.Term
    BY <1>2 DEF ByLeader
  <2> HIDE DEF new, old
  <2> QED
    BY <1>1, <1>4, <2>1, <2>2
<1>6. \A m \in new : Granted(m) => m \in old /\ m.term # r.Term
  BY <1>3, <1>4 DEF ByLeader, FromLeader, Granted
<1>7. /\ VoteKept(new, n.Term, n.Vote)
      /\ CandidacyKept(i, new, n.Term, n.Vote, n.log, el2)
  BY <1>1, <1>2, <1>6 DEF VoteKept, CandidacyKept
<1>8. \A m, q \in new : Granted(m) /\ Granted(q) /\ m.term = q.term => m.to = q.to
  BY <1>6 DEF Good, NodeOK
<1>9. \A m \in new : Granted(m) => Elected(i, m.term) \notin el2
  BY <1>6 DEF Good, NodeOK, Elected
<1>10. \A m \in n.msgs : m.from = i /\ MessageOK(m, nw, el2)
  <2>1. \A m \in n.msgs : m \in r.msgs \/ ByLeader(i, r.Term, m)
    BY <1>1
  <2>2. \A m \in r.msgs : m.from = i /\ MessageOK(m, nw, el2)
    BY <1>2 DEF Good, NodeOK, MessageOK
  <2>3. \A m : ByLeader(i, r.Term, m) => m.from = i /\ MessageOK(m, nw, el2)
    BY <1>2 DEF ByLeader, MessageOK, FromLeader, Granted, IsRequest
  <2> QED
    BY <2>1, <2>2, <2>3
<1> HIDE DEF new, old, el2
<1>11. NodeOK(i, n, nw, el2)
  BY <1>1, <1>2, <1>5, <1>7, <1>8, <1>9, <1>10 DEF NodeOK, new
<1> QED
  BY <1>10, <1>11 DEF Good, n, el2

\* The node i, of a step to n, keeps the invariant, and if it has just been
\* elected a majority voted for it.
GoodStep(i, n, nw, el) ==
    \/ Good(i, n, nw, el)
    \/ /\ n.State = "StateLeader"
       /\ Good(i, n, nw, el \cup {Elected(i, n.Term)})
       /\ ElectionOK(Elected(i, n.Term), nw)

(* MsgRequestVoteResponse. *)
LEMMA HandleVoteResponseGood ==
    ASSUME NEW i \in Server, NEW r \in Node, NEW m \in VoteResponse,
           NEW nw \in SUBSET Message, NEW el \in Elections,
           m \in nw, m.to = i, m.term = r.Term,
           Good(i, r, nw, el),
           \A q \in nw : MessageOK(q, nw, el)
    PROVE  GoodStep(i, handleVoteResponse(i, r, m), nw, el)
<1> DEFINE v == [r EXCEPT !.granted = IF m.reject THEN @ \ {m.from}
                                      ELSE @ \cup {m.from},
                          !.rejected = IF m.reject THEN @ \cup {m.from}
                                       ELSE @ \ {m.from}]
           n == handleVoteResponse(i, r, m)
<1>1. v \in Node
  BY DEF Node, VoteResponse
<1>2. /\ v.Term = r.Term /\ v.Vote = r.Vote /\ v.State = r.State /\ v.Lead = r.Lead
      /\ v.log = r.log /\ v.msgs = r.msgs
      /\ v.granted = IF m.reject THEN r.granted \ {m.from} ELSE r.granted \cup {m.from}
  BY DEF Node
<1>3. \/ n = r
      \/ r.State = "StateCandidate" /\ IsMajority(v.granted) /\ n = becomeLeader(i, v)
      \/ n = becomeFollower(v, v.Term, None)
      \/ r.State = "StateCandidate" /\ n = v
  <2> HIDE DEF v
  <2> QED
    BY DEF handleVoteResponse, v
<1> HIDE DEF v, n
<1>4. /\ LogUpTo(r.log, r.Term)
      /\ CandidacyKept(i, Sent(i, r, nw), r.Term, r.Vote, r.log, el)
      /\ r.Lead # None => Elected(r.Lead, r.Term) \in el
  BY DEF Good, NodeOK
<1>5. ASSUME r.State = "StateCandidate"
      PROVE  \A j \in v.granted \ {i} : VotedFor(j, i, v.Term, nw)
  <2>1. m.reject \/ VotedFor(m.from, i, r.Term, nw)
    BY DEF VotedFor, Granted, VoteResponse
  <2>2. \A j \in r.granted \ {i} : VotedFor(j, i, r.Term, nw)
    BY <1>5 DEF Good, NodeOK
  <2> QED
    BY <1>2, <2>1, <2>2
<1>6. ASSUME r.State = "StateCandidate" PROVE Good(i, v, nw, el)
  <2>1. v.Vote = i
    BY <1>2, <1>6 DEF Good, NodeOK
  <2> QED
    BY <1>1, <1>2, <1>4, <1>5, <1>6, <2>1, OrdinaryStep
<1>7. CASE r.State = "StateCandidate" /\ IsMajority(v.granted) /\ n = becomeLeader(i, v)
  <2>1. Good(i, n, nw, el \cup {Elected(i, v.Term)})
    BY <1>1, <1>2, <1>6, <1>7, BecomeLeaderGood
  <2>2. n.State = "StateLeader" /\ n.Term = v.Term
    <3>1. LogUpTo(v.log, v.Term)
      BY <1>2, <1>4
    <3> QED
      BY SMT, <1>1, <1>7, <3>1, BecomeLeaderEffect
  <2>3. v.granted \in SUBSET Server
    BY <1>1 DEF Node
  <2>4. Single \/ Requested(i, v.Term, nw)
    <3> SUFFICES ASSUME ~Single PROVE Requested(i, v.Term, nw)
      OBVIOUS
    <3>1. PICK j \in v.granted : j # i
      BY <1>7, <2>3, MajorityHasAnother
    <3>2. VotedFor(j, i, v.Term, nw)
      BY <1>5, <1>7, <3>1
    <3> QED
      BY <3>2 DEF VotedFor, MessageOK
  <2>5. ElectionOK(Elected(i, v.Term), nw)
    BY <1>5, <1>7, <2>3, <2>4 DEF ElectionOK, Elected
  <2> QED
    BY <2>1, <2>2, <2>5 DEF GoodStep, n
<1>8. CASE n = becomeFollower(v, v.Term, None)
  <2>1. /\ n.Term = r.Term /\ n.Vote = r.Vote /\ n.State = "StateFollower"
        /\ n.Lead = None /\ n.log = r.log /\ n.msgs = r.msgs
    BY SMT, <1>1, <1>2, <1>8 DEF becomeFollower, Node
  <2>2. n \in Node
    BY <1>1, <1>8, BecomeFollowerType DEF Node
  <2>3. Good(i, n, nw, el)
    BY <1>4, <2>1, <2>2, OrdinaryStep
  <2> QED
    BY <2>3 DEF GoodStep, n
<1> QED
  BY <1>3, <1>6, <1>7, <1>8 DEF GoodStep, n

(* The last entry of a log bounded by a term. *)
LEMMA LastUpTo ==
    ASSUME NEW log \in Seq(Entry), NEW term \in Nat, LogUpTo(log, term)
    PROVE  LastTerm(log) \in Nat /\ LastTerm(log) <= term
<1>1. Len(log) \in Nat
  OBVIOUS
<1>2. CASE Len(log) = 0
  BY <1>2 DEF LastTerm, TermAt
<1>3. CASE Len(log) # 0
  BY <1>1, <1>3, EntryIs DEF LastTerm, TermAt, LogUpTo
<1> QED
  BY <1>2, <1>3

(* MsgHup: a new candidate votes for itself in a term nobody has heard of from
   it; a group of one elects it at once. *)
LEMMA CampaignGood ==
    ASSUME NEW i \in Server, NEW r \in Node,
           NEW nw \in SUBSET Message, NEW el \in Elections,
           Good(i, r, nw, el), \A q \in nw : MessageOK(q, nw, el)
    PROVE  GoodStep(i, campaign(i, r), nw, el)
<1> DEFINE c == [r EXCEPT !.State = "StateCandidate",
                          !.Term = @ + 1,
                          !.Lead = None,
                          !.Vote = i,
                          !.granted = {i},
                          !.rejected = {}]
           n == campaign(i, r)
           old == Sent(i, r, nw)
<1>1. /\ c.State = "StateCandidate" /\ c.Term = r.Term + 1 /\ c.Lead = None
      /\ c.Vote = i /\ c.granted = {i} /\ c.log = r.log /\ c.msgs = r.msgs
  BY DEF Node
<1>2. c \in Node
  <2>1. r.Term + 1 \in Nat /\ {i} \in SUBSET Server /\ {} \in SUBSET Server
    BY SMT DEF Node
  <2> QED
    BY <2>1 DEF Node
<1>3. ~Single =>
        n = [c EXCEPT !.msgs = @ \cup
                {[mtype |-> "MsgRequestVote", from |-> i, to |-> j,
                  term |-> c.Term, index |-> Len(c.log),
                  logTerm |-> LastTerm(c.log)] : j \in Server \ {i}}]
  <2> SUFFICES ASSUME ~Single
               PROVE  n = [c EXCEPT !.msgs = @ \cup
                             {[mtype |-> "MsgRequestVote", from |-> i, to |-> j,
                               term |-> c.Term, index |-> Len(c.log),
                               logTerm |-> LastTerm(c.log)] : j \in Server \ {i}}]
    OBVIOUS
  <2>1. becomeCandidate(i, r) = c
    BY DEF becomeCandidate
  <2>2. becomeCandidate(i, r).State = "StateCandidate"
    BY <1>1, <2>1
  <2> DEFINE b == becomeCandidate(i, r)
  <2>3. n = [b EXCEPT !.msgs = @ \cup
               {[mtype |-> "MsgRequestVote", from |-> i, to |-> j,
                 term |-> b.Term, index |-> Len(b.log),
                 logTerm |-> LastTerm(b.log)] : j \in Server \ {i}}]
    BY <2>2 DEF campaign
  <2>4. b = c
    BY <2>1
  <2> HIDE DEF b, c, n
  <2> QED
    BY <2>3, <2>4, Zenon
<1>4. Single => n = becomeLeader(i, c)
  <2> SUFFICES ASSUME Single PROVE n = becomeLeader(i, c)
    OBVIOUS
  <2>1. becomeCandidate(i, r) = becomeLeader(i, c)
    BY DEF becomeCandidate
  <2>2. becomeLeader(i, c).State = "StateLeader"
    <3> HIDE DEF c
    <3> QED
      BY <1>2 DEF becomeLeader, Node
  <2> QED
    BY <2>1, <2>2 DEF campaign
<1> HIDE DEF c, n
<1>5. r.Term \in Nat /\ r.log \in Seq(Entry) /\ LogUpTo(r.log, r.Term)
  BY DEF Node, Good, NodeOK
<1>6. \A q \in old : q.term <= r.Term /\ q.term \in Nat
  BY MessageIs DEF Good, NodeOK, Sent, Node
<1>7. \A q \in old : q.term <= c.Term /\ q.term # c.Term
  BY <1>1, <1>5, <1>6
<1>8. LogUpTo(r.log, c.Term)
  <2>1. ASSUME NEW k \in 1 .. Len(r.log) PROVE r.log[k].term <= c.Term
    <3>1. r.log[k].term \in Nat
      BY <1>5, EntryIs
    <3>2. r.log[k].term <= r.Term
      BY <1>5 DEF LogUpTo
    <3> QED
      BY SMT, <1>1, <1>5, <3>1, <3>2
  <2> QED
    BY <2>1 DEF LogUpTo
<1>9. Good(i, c, nw, el)
  <2>1. Sent(i, c, nw) = old
    BY <1>1 DEF Sent
  <2> HIDE DEF old
  <2>2. /\ VoteKept(old, c.Term, c.Vote)
        /\ CandidacyKept(i, old, c.Term, c.Vote, c.log, el)
    BY <1>1, <1>7 DEF VoteKept, CandidacyKept
  <2>3. \A m, q \in old : Granted(m) /\ Granted(q) /\ m.term = q.term => m.to = q.to
    BY DEF Good, NodeOK, old
  <2>4. \A m \in old : Granted(m) => Elected(i, m.term) \notin el
    BY DEF Good, NodeOK, old
  <2>5. \A m \in c.msgs : m.from = i /\ MessageOK(m, nw, el)
    BY <1>1 DEF Good, NodeOK
  <2> QED
    BY <1>1, <1>7, <1>8, <2>1, <2>2, <2>3, <2>4, <2>5 DEF Good, NodeOK
<1>10. CASE Single
  <2>1. Good(i, n, nw, el \cup {Elected(i, c.Term)})
    BY SMTT(60), <1>1, <1>2, <1>4, <1>9, <1>10, BecomeLeaderGood
  <2>2. n.State = "StateLeader" /\ n.Term = c.Term
    BY SMTT(60), <1>1, <1>2, <1>4, <1>8, <1>10, BecomeLeaderEffect
  <2>3. ElectionOK(Elected(i, c.Term), nw)
    <3>1. IsMajority({i}) /\ {i} \in SUBSET Server
      BY <1>10, MajorityHasAnother
    <3> QED
      BY <1>10, <3>1 DEF ElectionOK, Elected
  <2> QED
    BY <2>1, <2>2, <2>3 DEF GoodStep, n
<1>11. CASE ~Single
  <2> DEFINE asked == {[mtype |-> "MsgRequestVote", from |-> i, to |-> j,
                        term |-> c.Term, index |-> Len(c.log),
                        logTerm |-> LastTerm(c.log)] : j \in Server \ {i}}
             new == Sent(i, n, nw)
  <2>1. /\ n.State = "StateCandidate" /\ n.Term = c.Term /\ n.Lead = None
        /\ n.Vote = i /\ n.granted = {i} /\ n.log = r.log
        /\ n.msgs = r.msgs \cup asked
    BY <1>1, <1>2, <1>3, <1>11 DEF Node
  <2>2. LastTerm(c.log) < c.Term
    BY <1>1, <1>5, LastUpTo
  <2>3. \A m \in asked : /\ m.from = i /\ m.term = c.Term /\ ~Granted(m)
                         /\ MessageOK(m, nw, el)
    <3> SUFFICES ASSUME NEW m \in asked
                 PROVE  m.from = i /\ m.term = c.Term /\ ~Granted(m) /\ MessageOK(m, nw, el)
      OBVIOUS
    <3>1. PICK j \in Server \ {i} :
              m = [mtype |-> "MsgRequestVote", from |-> i, to |-> j, term |-> c.Term,
                   index |-> Len(c.log), logTerm |-> LastTerm(c.log)]
      OBVIOUS
    <3>2. /\ m.mtype = "MsgRequestVote" /\ m.from = i /\ m.to = j
          /\ m.term = c.Term /\ m.logTerm = LastTerm(c.log)
      BY <3>1
    <3> QED
      BY <2>2, <3>2 DEF Granted, IsRequest, FromLeader, MessageOK
  <2> HIDE DEF asked
  <2>4. \A m \in new : m \in old \/ m \in asked
    BY <2>1 DEF Sent
  <2> HIDE DEF old, new
  <2>5. \A m \in new : m.term <= n.Term
    <3> SUFFICES ASSUME NEW m \in new PROVE m.term <= n.Term
      OBVIOUS
    <3>1. CASE m \in old
      BY <1>7, <2>1, <3>1
    <3>2. CASE m \in asked
      <4>1. c.Term \in Nat
        BY SMT, <1>1, <1>5
      <4> QED
        BY ONLY SMTT(30), <2>1, <2>3, <3>2, <4>1
    <3> QED
      BY <2>4, <3>1, <3>2
  <2>6. \A m \in new : Granted(m) => m \in old
    BY <2>3, <2>4
  <2>7. /\ VoteKept(new, n.Term, n.Vote)
        /\ CandidacyKept(i, new, n.Term, n.Vote, n.log, el)
    BY <1>7, <2>1, <2>6 DEF VoteKept, CandidacyKept
  <2>8. /\ \A m, q \in new : Granted(m) /\ Granted(q) /\ m.term = q.term => m.to = q.to
        /\ \A m \in new : Granted(m) => Elected(i, m.term) \notin el
    BY <2>6 DEF Good, NodeOK, old
  <2>9. \A m \in n.msgs : m.from = i /\ MessageOK(m, nw, el)
    BY <2>1, <2>3 DEF Good, NodeOK
  <2>10. Good(i, n, nw, el)
    BY <1>8, <2>1, <2>5, <2>7, <2>8, <2>9 DEF Good, NodeOK, new
  <2> QED
    BY <2>10 DEF GoodStep, n
<1> QED
  BY <1>10, <1>11

-----------------------------------------------------------------------------
(* Type correctness *)

(* A step of one node that leaves a node keeps the types. *)
LEMMA UpdateType ==
    ASSUME TypeOK, NEW i \in Server, NEW r \in Node, Update(i, r)
    PROVE  TypeOK'
<1>1. r.Term \in Nat
  BY DEF Node
<1>2. elections' \in SUBSET [term : Nat, leader : Server]
  BY SMT, <1>1 DEF Update, TypeOK
<1>3. raft' \in [Server -> Node]
  BY DEF Update, TypeOK
<1> QED
  BY <1>2, <1>3 DEF Update, TypeOK

\* The initial states of a group, nodes made by newRaft over empty storage,
\* have the types of TypeOK.
LEMMA InitType == Init => TypeOK
<1> SUFFICES ASSUME Init PROVE TypeOK
  OBVIOUS
<1>1. hardState \in [Server -> HardState]
  BY DEF Init, HardState
<1>2. stableLog \in [Server -> Seq(Entry)]
  BY DEF Init
<1>3. raft \in [Server -> Node]
  BY <1>1, <1>2, NewRaftType DEF Init
<1> QED
  BY <1>1, <1>2, <1>3 DEF Init, TypeOK

\* Every step of a group, a handler, a Ready or a restart, keeps TypeOK.
LEMMA NextType == TypeOK /\ [Next]_vars => TypeOK'
<1> SUFFICES ASSUME TypeOK, [Next]_vars PROVE TypeOK'
  OBVIOUS
<1>0. /\ \A i \in Server : raft[i] \in Node
      /\ \A m \in network : m \in Message /\ raft[m.to] \in Node /\ m.to \in Server
  BY MessageIs DEF TypeOK
<1>1. ASSUME NEW i \in Server, Hup(i) PROVE TypeOK'
  BY <1>0, <1>1, CampaignType, UpdateType DEF Hup
<1>2. ASSUME NEW i \in Server, Beat(i) PROVE TypeOK'
  BY <1>0, <1>2, BeatType, UpdateType DEF Beat
<1>3. ASSUME NEW i \in Server, NEW d \in Data, NEW type \in ProposeType,
             Propose(i, d, type)
      PROVE  TypeOK'
  BY <1>0, <1>3, ProposeNodeType, UpdateType DEF Propose
<1>4. ASSUME NEW i \in Server, Ready(i) PROVE TypeOK'
  <2>1. raft[i].msgs \subseteq Message /\ raft[i].log \in Seq(Entry)
    BY <1>0 DEF Node
  <2>2. HardStateOf(raft[i]) \in HardState
    BY <1>0 DEF Node, HardStateOf, HardState
  <2>3. [raft[i] EXCEPT !.msgs = {}] \in Node
    BY <1>0, NoMsgsType
  <2>4. raft' \in [Server -> Node]
    <3>1. raft' = [raft EXCEPT ![i] = [raft[i] EXCEPT !.msgs = {}]]
      BY <1>4, Zenon DEF Ready
    <3> QED
      BY <2>3, <3>1 DEF TypeOK
  <2> QED
    BY <1>4, <2>1, <2>2, <2>4 DEF Ready, TypeOK
<1>5. ASSUME NEW i \in Server, Restart(i) PROVE TypeOK'
  <2>1. newRaft(hardState[i], stableLog[i]) \in Node
    BY NewRaftType DEF TypeOK
  <2> QED
    BY <1>5, <2>1 DEF Restart, TypeOK
<1>6. ASSUME NEW m \in network, StepRequestVote(m) PROVE TypeOK'
  <2>1. m \in VoteRequest /\ Enter(raft[m.to], m) \in Node
    BY <1>0, <1>6, MessageIs, EnterType DEF StepRequestVote, Fresh
  <2> QED
    BY <1>0, <1>6, <2>1, HandleRequestVoteType, UpdateType DEF StepRequestVote
<1>7. ASSUME NEW m \in network, StepVoteResponse(m) PROVE TypeOK'
  <2>1. m \in VoteResponse /\ Enter(raft[m.to], m) \in Node
    BY <1>0, <1>7, MessageIs, EnterType DEF StepVoteResponse, Fresh
  <2> QED
    BY <1>0, <1>7, <2>1, HandleVoteResponseType, UpdateType DEF StepVoteResponse
<1>8. ASSUME NEW m \in network, StepAppend(m) PROVE TypeOK'
  <2>1. m \in AppendRequest /\ Enter(raft[m.to], m) \in Node
    BY <1>0, <1>8, MessageIs, EnterType DEF StepAppend, Fresh
  <2> QED
    BY <1>0, <1>8, <2>1, HandleAppendType, MergesAre, UpdateType DEF StepAppend
<1>9. ASSUME NEW m \in network, StepAppendResponse(m) PROVE TypeOK'
  <2>1. m \in AppendResponse /\ Enter(raft[m.to], m) \in Node
    BY <1>0, <1>9, MessageIs, EnterType DEF StepAppendResponse, Fresh
  <2> QED
    BY <1>0, <1>9, <2>1, HandleAppendResponseType, SetsAre, UpdateType DEF StepAppendResponse
<1>10. ASSUME NEW m \in network, StepHeartbeat(m) PROVE TypeOK'
  <2>1. m \in Heartbeat /\ Enter(raft[m.to], m) \in Node
    BY <1>0, <1>10, MessageIs, EnterType DEF StepHeartbeat, Fresh
  <2> QED
    BY <1>0, <1>10, <2>1, HandleHeartbeatType, UpdateType DEF StepHeartbeat
<1>11. ASSUME NEW m \in network, StepHeartbeatResponse(m) PROVE TypeOK'
  <2>1. m \in Heartbeat /\ Enter(raft[m.to], m) \in Node
    BY <1>0, <1>11, MessageIs, EnterType DEF StepHeartbeatResponse, Fresh
  <2> QED
    BY <1>0, <1>11, <2>1, HandleHeartbeatResponseType, UpdateType
       DEF StepHeartbeatResponse
<1>12. CASE UNCHANGED vars
  BY <1>12 DEF TypeOK, vars
<1> QED
  BY <1>1, <1>2, <1>3, <1>4, <1>5, <1>6, <1>7, <1>8, <1>9, <1>10, <1>11, <1>12
     DEF Next

(* Every variable keeps its type, whatever the nodes receive and whenever
   they crash: in particular medianMatch and Merge are always defined. *)
THEOREM TypeCorrect == Spec => []TypeOK
BY InitType, NextType, PTL DEF Spec

-----------------------------------------------------------------------------
(* Election safety *)

(* The invariant implies election safety: a common voter of two winners voted
   for one of them only, and a winner voted for nobody else. *)
LEMMA OneLeaderPerTerm ==
    ASSUME NEW nw \in SUBSET Message, NEW el \in Elections, NEW r \in [Server -> Node],
           \A i \in Server : NodeOK(i, r[i], nw, el),
           \A m \in nw : MessageOK(m, nw, el),
           \A e \in el : ElectionOK(e, nw)
    PROVE  OneLeader(el)
<1> SUFFICES ASSUME NEW e \in el, NEW f \in el, e.term = f.term
             PROVE  e.leader = f.leader
  BY DEF OneLeader
<1>1. PICK P \in SUBSET Server :
         /\ IsMajority(P)
         /\ \A j \in P \ {e.leader} : VotedFor(j, e.leader, e.term, nw)
  BY DEF ElectionOK
<1>2. PICK Q \in SUBSET Server :
         /\ IsMajority(Q)
         /\ \A j \in Q \ {f.leader} : VotedFor(j, f.leader, f.term, nw)
  BY DEF ElectionOK
<1>3. PICK j \in Server : j \in P /\ j \in Q
  BY <1>1, <1>2, MajoritiesMeet
<1>4. /\ e = Elected(e.leader, e.term) /\ f = Elected(f.leader, f.term)
      /\ e.leader \in Server /\ f.leader \in Server
  BY DEF Elections, Elected
<1>5. \A m \in nw : Granted(m) /\ m.from = j => Elected(j, m.term) \notin el
  BY DEF NodeOK, Sent
<1>6. \A m, q \in nw : Granted(m) /\ m.from = j /\ Granted(q) /\ q.from = j
                       /\ m.term = q.term => m.to = q.to
  <2>1. \A m \in nw : m.from = j => m \in Sent(j, r[j], nw)
    BY DEF Sent
  <2>2. \A m, q \in Sent(j, r[j], nw) :
           Granted(m) /\ Granted(q) /\ m.term = q.term => m.to = q.to
    BY DEF NodeOK
  <2> QED
    BY <2>1, <2>2
<1>7. CASE j = e.leader
  <2>1. ~VotedFor(j, f.leader, f.term, nw)
    BY <1>4, <1>5, <1>7 DEF VotedFor
  <2> QED
    BY <1>2, <1>3, <1>7, <2>1
<1>8. CASE j = f.leader
  <2>1. ~VotedFor(j, e.leader, e.term, nw)
    BY <1>4, <1>5, <1>8 DEF VotedFor
  <2> QED
    BY <1>1, <1>3, <1>8, <2>1
<1>9. CASE j # e.leader /\ j # f.leader
  <2>1. VotedFor(j, e.leader, e.term, nw) /\ VotedFor(j, f.leader, f.term, nw)
    BY <1>1, <1>2, <1>3, <1>9
  <2> QED
    BY <1>6, <2>1 DEF VotedFor
<1> QED
  BY <1>7, <1>8, <1>9

(* Another node is elected. *)
LEMMA NodeKept ==
    ASSUME NEW j \in Server, NEW r, NEW nw, NEW el, NEW el2,
           NodeOK(j, r, nw, el), el \subseteq el2,
           \A e \in el2 \ el : e.leader # j
    PROVE  NodeOK(j, r, nw, el2)
<1>1. \A term : Elected(j, term) \notin el => Elected(j, term) \notin el2
  BY DEF Elected
<1>2. CandidacyKept(j, Sent(j, r, nw), r.Term, r.Vote, r.log, el2)
  BY DEF NodeOK, CandidacyKept
<1> QED
  BY <1>1, <1>2 DEF NodeOK

(* Messages are added to the network, and what the node itself sent is the
   same. *)
LEMMA NodeHears ==
    ASSUME NEW j \in Server, NEW r, NEW r2, NEW nw, NEW nw2, NEW el,
           NodeOK(j, r, nw, el), nw \subseteq nw2,
           Sent(j, r2, nw2) = Sent(j, r, nw),
           r2.msgs \subseteq r.msgs,
           r2.Term = r.Term, r2.Vote = r.Vote, r2.State = r.State,
           r2.Lead = r.Lead, r2.granted = r.granted, r2.log = r.log
    PROVE  NodeOK(j, r2, nw2, el)
<1>1. \A k : VotedFor(k, j, r.Term, nw) => VotedFor(k, j, r.Term, nw2)
  BY DEF VotedFor
<1> QED
  BY <1>1 DEF NodeOK

(* One node takes a step. *)
LEMMA UpdateInv ==
    ASSUME ElectionInv, NEW i \in Server, NEW n \in Node,
           Update(i, n), GoodStep(i, n, network, elections)
    PROVE  ElectionInv'
<1>1. TypeOK'
  BY UpdateType DEF ElectionInv
<1>2. /\ elections \subseteq elections'
      /\ Good(i, n, network, elections')
      /\ \A e \in elections' \ elections : e.leader = i /\ ElectionOK(e, network)
  <2>1. elections' = elections \cup {e \in {Elected(i, n.Term)} : n.State = "StateLeader"}
    BY DEF Update, Elected
  <2>2. CASE Good(i, n, network, elections)
    <3>1. elections' = elections
      BY <2>1, <2>2 DEF Good, NodeOK
    <3> QED
      BY <2>2, <3>1
  <2>3. CASE /\ n.State = "StateLeader"
             /\ Good(i, n, network, elections \cup {Elected(i, n.Term)})
             /\ ElectionOK(Elected(i, n.Term), network)
    <3>1. elections' = elections \cup {Elected(i, n.Term)}
      BY <2>1, <2>3
    <3> QED
      BY <2>3, <3>1 DEF Elected
  <2> QED
    BY <2>2, <2>3 DEF GoodStep
<1>3. /\ raft' = [raft EXCEPT ![i] = n] /\ raft \in [Server -> Node]
      /\ UNCHANGED <<hardState, stableLog, network>>
  BY DEF Update, ElectionInv, TypeOK
<1>4. ASSUME NEW j \in Server
      PROVE  /\ NodeOK(j, raft'[j], network', elections')
             /\ \A m \in raft'[j].msgs : MessageOK(m, network', elections')
  <2>1. CASE j = i
    BY <1>2, <1>3, <2>1 DEF Good
  <2>2. CASE j # i
    <3>1. raft'[j] = raft[j]
      BY <1>3, <2>2
    <3>2. NodeOK(j, raft[j], network, elections')
      BY <1>2, <2>2, NodeKept DEF ElectionInv
    <3>3. \A m \in raft[j].msgs : MessageOK(m, network, elections')
      BY <1>2 DEF ElectionInv, MessageOK
    <3> QED
      BY <1>3, <3>1, <3>2, <3>3
  <2> QED
    BY <2>1, <2>2
<1>5. ASSUME NEW j \in Server
      PROVE  StableOK(j, hardState'[j], stableLog'[j], network', elections')
  BY <1>2, <1>3 DEF ElectionInv, StableOK, CandidacyKept
<1>6. \A m \in network' : MessageOK(m, network', elections')
  BY <1>2, <1>3 DEF ElectionInv, MessageOK
<1>7. \A e \in elections' : ElectionOK(e, network')
  BY <1>2, <1>3 DEF ElectionInv
<1> QED
  BY <1>1, <1>4, <1>5, <1>6, <1>7 DEF ElectionInv

(* The application saves the state of a node and sends its messages. *)
LEMMA ReadyInv ==
    ASSUME ElectionInv, TypeOK', NEW i \in Server, Ready(i)
    PROVE  ElectionInv'
<1> DEFINE r == raft[i]
<1>1. /\ r \in Node /\ raft \in [Server -> Node]
      /\ hardState \in [Server -> HardState] /\ stableLog \in [Server -> Seq(Entry)]
  BY DEF ElectionInv, TypeOK
<1>2. /\ hardState' = [hardState EXCEPT ![i] = HardStateOf(r)]
      /\ stableLog' = [stableLog EXCEPT ![i] = r.log]
      /\ network' = network \cup r.msgs
      /\ elections' = elections
      /\ raft' = [raft EXCEPT ![i] = [r EXCEPT !.msgs = {}]]
  BY Zenon DEF Ready
<1>3. \A m \in r.msgs : m.from = i
  BY DEF ElectionInv, NodeOK
<1>4. \A j \in Server \ {i} : {m \in network' : m.from = j} = {m \in network : m.from = j}
  BY <1>2, <1>3
<1>5. {m \in network' : m.from = i} = Sent(i, r, network)
  BY <1>2, <1>3 DEF Sent
<1>6. \A m : MessageOK(m, network, elections) => MessageOK(m, network', elections')
  BY <1>2 DEF MessageOK, Requested
<1>7. ASSUME NEW j \in Server
      PROVE  /\ NodeOK(j, raft'[j], network', elections')
             /\ raft'[j].msgs \subseteq raft[j].msgs
  <2>1. CASE j = i
    <3>1. raft'[i] = [r EXCEPT !.msgs = {}]
      BY <1>1, <1>2
    <3>2. /\ raft'[i].msgs = {} /\ raft'[i].Term = r.Term /\ raft'[i].Vote = r.Vote
          /\ raft'[i].State = r.State /\ raft'[i].Lead = r.Lead
          /\ raft'[i].granted = r.granted /\ raft'[i].log = r.log
      BY <1>1, <3>1 DEF Node
    <3>3. Sent(i, raft'[i], network') = Sent(i, r, network)
      BY <1>5, <3>2 DEF Sent
    <3>4. NodeOK(i, r, network, elections) /\ network \subseteq network'
      BY <1>2 DEF ElectionInv
    <3> HIDE DEF r
    <3>5. NodeOK(i, raft'[i], network', elections)
      BY <3>2, <3>3, <3>4, NodeHears
    <3> QED
      BY <1>2, <2>1, <3>2, <3>5
  <2>2. CASE j # i
    <3>1. raft'[j] = raft[j]
      BY <1>1, <1>2, <2>2
    <3>2. Sent(j, raft[j], network') = Sent(j, raft[j], network)
      BY <1>4, <2>2 DEF Sent
    <3>3. NodeOK(j, raft[j], network, elections) /\ network \subseteq network'
      BY <1>2 DEF ElectionInv
    <3>4. NodeOK(j, raft[j], network', elections)
      BY <3>2, <3>3, NodeHears
    <3> QED
      BY <1>2, <3>1, <3>4
  <2> QED
    BY <2>1, <2>2
<1>8. ASSUME NEW j \in Server
      PROVE  StableOK(j, hardState'[j], stableLog'[j], network', elections')
  <2>1. CASE j = i
    <3>1. hardState'[i] = HardStateOf(r) /\ stableLog'[i] = r.log
      BY <1>1, <1>2
    <3>2. HardStateOf(r).term = r.Term /\ HardStateOf(r).vote = r.Vote
      BY DEF HardStateOf
    <3>3. NodeOK(i, r, network, elections)
      BY DEF ElectionInv
    <3> HIDE DEF r
    <3> QED
      BY <1>2, <1>5, <2>1, <3>1, <3>2, <3>3 DEF StableOK, NodeOK
  <2>2. CASE j # i
    <3>1. hardState'[j] = hardState[j] /\ stableLog'[j] = stableLog[j]
      BY <1>1, <1>2, <2>2
    <3>2. StableOK(j, hardState[j], stableLog[j], network, elections)
      BY DEF ElectionInv
    <3> QED
      BY <1>2, <1>4, <2>2, <3>1, <3>2 DEF StableOK
  <2> QED
    BY <2>1, <2>2
<1>9. /\ \A m \in network' : MessageOK(m, network', elections')
      /\ \A j \in Server : \A m \in raft'[j].msgs : MessageOK(m, network', elections')
  BY <1>2, <1>6, <1>7 DEF ElectionInv
<1>10. \A e \in elections' : ElectionOK(e, network')
  <2>1. network \subseteq network' /\ elections' = elections
    BY <1>2
  <2>2. \A j, k, term : /\ VotedFor(j, k, term, network) => VotedFor(j, k, term, network')
                        /\ Requested(k, term, network) => Requested(k, term, network')
    BY <2>1 DEF VotedFor, Requested
  <2> TAKE e \in elections'
  <2>3. ElectionOK(e, network)
    BY <2>1 DEF ElectionInv
  <2> QED
    BY <2>2, <2>3 DEF ElectionOK
<1> HIDE DEF r
<1> QED
  BY <1>7, <1>8, <1>9, <1>10 DEF ElectionInv

(* A node restarts from what it saved. *)
LEMMA RestartInv ==
    ASSUME ElectionInv, TypeOK', NEW i \in Server, Restart(i)
    PROVE  ElectionInv'
<1> DEFINE n == newRaft(hardState[i], stableLog[i])
<1>1. /\ raft' = [raft EXCEPT ![i] = n] /\ raft \in [Server -> Node]
      /\ UNCHANGED <<hardState, stableLog, network, elections>>
  BY DEF Restart, ElectionInv, TypeOK
<1>2. /\ n.Term = hardState[i].term /\ n.Vote = hardState[i].vote
      /\ n.State = "StateFollower" /\ n.Lead = None /\ n.log = stableLog[i]
      /\ n.msgs = {}
  BY DEF newRaft
<1> HIDE DEF n
<1>3. Sent(i, n, network) = {m \in network : m.from = i}
  BY <1>2 DEF Sent
<1>4. /\ \A m, q \in Sent(i, n, network) :
           Granted(m) /\ Granted(q) /\ m.term = q.term => m.to = q.to
      /\ \A m \in Sent(i, n, network) : Granted(m) => Elected(i, m.term) \notin elections
  <2>1. NodeOK(i, raft[i], network, elections)
    BY DEF ElectionInv
  <2> QED
    BY <1>3, <2>1 DEF NodeOK, Sent
<1>5. NodeOK(i, n, network, elections)
  <2>1. StableOK(i, hardState[i], stableLog[i], network, elections)
    BY DEF ElectionInv
  <2> QED
    BY <1>2, <1>3, <1>4, <2>1 DEF NodeOK, StableOK
<1>6. \A j \in Server : raft'[j] = IF j = i THEN n ELSE raft[j]
  BY <1>1
<1> QED
  BY <1>1, <1>2, <1>5, <1>6 DEF ElectionInv

(* In the initial state nothing has been sent. *)
LEMMA InitInv == Init => ElectionInv
<1> SUFFICES ASSUME Init PROVE ElectionInv
  OBVIOUS
<1>1. TypeOK /\ network = {} /\ elections = {}
  BY InitType DEF Init
<1>2. ASSUME NEW i \in Server
      PROVE  /\ raft[i].State = "StateFollower" /\ raft[i].Lead = None
             /\ raft[i].msgs = {} /\ raft[i].log = << >>
             /\ stableLog[i] = << >>
  BY DEF Init, newRaft
<1>3. \A term : LogUpTo(<< >>, term)
  BY DEF LogUpTo
<1>4. ASSUME NEW i \in Server
      PROVE  /\ NodeOK(i, raft[i], network, elections)
             /\ StableOK(i, hardState[i], stableLog[i], network, elections)
             /\ raft[i].msgs = {}
  <2>1. Sent(i, raft[i], network) = {}
    BY <1>1, <1>2 DEF Sent
  <2> QED
    BY <1>1, <1>2, <1>3, <2>1 DEF NodeOK, StableOK, VoteKept, CandidacyKept
<1> QED
  BY <1>1, <1>4 DEF ElectionInv

(* Every step preserves the invariant. *)
LEMMA NextInv == ElectionInv /\ [Next]_vars => ElectionInv'
<1> SUFFICES ASSUME ElectionInv, [Next]_vars PROVE ElectionInv'
  OBVIOUS
<1> USE DEF Elections
<1>1. TypeOK' /\ TypeOK /\ network \in SUBSET Message /\ elections \in Elections
  BY NextType DEF ElectionInv, TypeOK
<1>2. ASSUME NEW i \in Server
      PROVE  raft[i] \in Node /\ Good(i, raft[i], network, elections)
  BY <1>1 DEF ElectionInv, Good, TypeOK
<1>3. /\ \A m \in network : MessageOK(m, network, elections)
      /\ \A e \in elections : ElectionOK(e, network)
      /\ OneLeader(elections)
  BY <1>1, OneLeaderPerTerm DEF ElectionInv, TypeOK
<1>4. ASSUME NEW m \in network, m.term >= raft[m.to].Term
      PROVE  LET r == Enter(raft[m.to], m) IN
             /\ m \in Message /\ m.to \in Server /\ m.from # m.to
             /\ r \in Node /\ m.term = r.Term
             /\ Good(m.to, r, network, elections)
  <2>1. m \in Message /\ m.to \in Server /\ m.from # m.to
    BY <1>1, <1>3, MessageIs DEF MessageOK
  <2> QED
    BY <1>1, <1>2, <1>4, <2>1, EnterType, EnterGood
<1>5. ASSUME NEW i \in Server, Hup(i) PROVE ElectionInv'
  <2>1. GoodStep(i, campaign(i, raft[i]), network, elections)
    BY <1>1, <1>2, <1>3, CampaignGood
  <2> QED
    BY <1>2, <1>5, <2>1, CampaignType, UpdateInv DEF Hup
<1>6. ASSUME NEW i \in Server, Beat(i) PROVE ElectionInv'
  <2>1. Good(i, beat(i, raft[i]), network, elections)
    BY <1>1, <1>2, <1>6, BeatGood DEF Beat
  <2> QED
    BY <1>2, <1>6, <2>1, BeatType, UpdateInv DEF Beat, GoodStep
<1>7. ASSUME NEW i \in Server, NEW d \in Data, NEW type \in ProposeType,
             Propose(i, d, type)
      PROVE  ElectionInv'
  <2>1. Good(i, propose(i, raft[i], d, type), network, elections)
    BY <1>1, <1>2, <1>7, ProposeGood DEF Propose
  <2> QED
    BY <1>2, <1>7, <2>1, ProposeNodeType, UpdateInv DEF Propose, GoodStep
<1>8. ASSUME NEW i \in Server, Ready(i) PROVE ElectionInv'
  BY <1>1, <1>8, ReadyInv
<1>9. ASSUME NEW i \in Server, Restart(i) PROVE ElectionInv'
  BY <1>1, <1>9, RestartInv
<1>10. ASSUME NEW m \in network, StepRequestVote(m) PROVE ElectionInv'
  <2> DEFINE r == Enter(raft[m.to], m)
  <2>1. /\ m \in VoteRequest /\ m.to \in Server /\ r \in Node /\ m.term = r.Term
        /\ Good(m.to, r, network, elections)
    BY <1>4, <1>10, MessageIs DEF StepRequestVote, Fresh
  <2> HIDE DEF r
  <2>2. Good(m.to, handleRequestVote(m.to, r, m), network, elections)
    BY <1>1, <1>3, <2>1, HandleRequestVoteGood, SetsAre
  <2>3. handleRequestVote(m.to, r, m) \in Node
    BY <2>1, HandleRequestVoteType
  <2> QED
    BY <1>10, <2>1, <2>2, <2>3, UpdateInv DEF StepRequestVote, GoodStep, r
<1>11. ASSUME NEW m \in network, StepVoteResponse(m) PROVE ElectionInv'
  <2> DEFINE r == Enter(raft[m.to], m)
  <2>1. /\ m \in VoteResponse /\ m.to \in Server /\ r \in Node /\ m.term = r.Term
        /\ Good(m.to, r, network, elections)
    BY <1>4, <1>11, MessageIs DEF StepVoteResponse, Fresh
  <2> HIDE DEF r
  <2>2. GoodStep(m.to, handleVoteResponse(m.to, r, m), network, elections)
    BY <1>1, <1>3, <2>1, HandleVoteResponseGood
  <2>3. handleVoteResponse(m.to, r, m) \in Node
    BY <2>1, HandleVoteResponseType
  <2> QED
    BY <1>11, <2>1, <2>2, <2>3, UpdateInv DEF StepVoteResponse, r
<1>12. ASSUME NEW m \in network, StepAppend(m) PROVE ElectionInv'
  <2> DEFINE r == Enter(raft[m.to], m)
  <2>1. /\ m \in AppendRequest /\ m.to \in Server /\ r \in Node /\ m.term = r.Term
        /\ Good(m.to, r, network, elections)
    BY <1>4, <1>12, MessageIs DEF StepAppend, Fresh
  <2> HIDE DEF r
  <2>2. Good(m.to, handleAppend(m.to, r, m), network, elections)
    BY <1>1, <1>3, <2>1, HandleAppendGood, MergesAre
  <2>3. handleAppend(m.to, r, m) \in Node
    BY <2>1, HandleAppendType, MergesAre
  <2> QED
    BY <1>12, <2>1, <2>2, <2>3, UpdateInv DEF StepAppend, GoodStep, r
<1>13. ASSUME NEW m \in network, StepAppendResponse(m) PROVE ElectionInv'
  <2> DEFINE r == Enter(raft[m.to], m)
  <2>1. /\ m \in AppendResponse /\ m.to \in Server /\ r \in Node /\ m.from # m.to
        /\ Good(m.to, r, network, elections)
    BY <1>4, <1>13, MessageIs DEF StepAppendResponse, Fresh
  <2> HIDE DEF r
  <2>2. Good(m.to, handleAppendResponse(m.to, r, m), network, elections)
    BY <1>1, <1>3, <2>1, HandleAppendResponseGood, SetsAre
  <2>3. handleAppendResponse(m.to, r, m) \in Node
    BY <2>1, HandleAppendResponseType, SetsAre
  <2> QED
    BY <1>13, <2>1, <2>2, <2>3, UpdateInv DEF StepAppendResponse, GoodStep, r
<1>14. ASSUME NEW m \in network, StepHeartbeat(m) PROVE ElectionInv'
  <2> DEFINE r == Enter(raft[m.to], m)
  <2>1. /\ m \in Heartbeat /\ m.mtype = "MsgHeartbeat" /\ m.to \in Server
        /\ r \in Node /\ m.term = r.Term
        /\ Good(m.to, r, network, elections)
    BY <1>4, <1>14, MessageIs DEF StepHeartbeat, Fresh
  <2> HIDE DEF r
  <2>2. Good(m.to, handleHeartbeat(m.to, r, m), network, elections)
    BY <1>1, <1>3, <2>1, HandleHeartbeatGood
  <2>3. handleHeartbeat(m.to, r, m) \in Node
    BY <2>1, HandleHeartbeatType
  <2> QED
    BY <1>14, <2>1, <2>2, <2>3, UpdateInv DEF StepHeartbeat, GoodStep, r
<1>15. ASSUME NEW m \in network, StepHeartbeatResponse(m) PROVE ElectionInv'
  <2> DEFINE r == Enter(raft[m.to], m)
  <2>1. /\ m \in Heartbeat /\ m.to \in Server /\ r \in Node /\ m.from # m.to
        /\ Good(m.to, r, network, elections)
    BY <1>4, <1>15, MessageIs DEF StepHeartbeatResponse, Fresh
  <2> HIDE DEF r
  <2>2. Good(m.to, handleHeartbeatResponse(m.to, r, m), network, elections)
    BY <1>1, <1>3, <2>1, HandleHeartbeatResponseGood
  <2>3. handleHeartbeatResponse(m.to, r, m) \in Node
    BY <2>1, HandleHeartbeatResponseType
  <2> QED
    BY <1>15, <2>1, <2>2, <2>3, UpdateInv DEF StepHeartbeatResponse, GoodStep, r
<1>16. CASE UNCHANGED vars
  BY <1>16 DEF vars, ElectionInv, TypeOK
<1> QED
  BY <1>5, <1>6, <1>7, <1>8, <1>9, <1>10, <1>11, <1>12, <1>13, <1>14, <1>15, <1>16
     DEF Next

(* The election invariant holds in every reachable state. *)
LEMMA InvHolds == Spec => []ElectionInv
BY InitInv, NextInv, PTL DEF Spec

(* At most one node is elected in a term, however messages are lost,
   duplicated and reordered and whenever nodes crash, as long as the hard
   state and the log are saved before messages are sent: becomeLeader clears
   Vote, and the no-op it appends keeps the node from voting again. *)
THEOREM OneLeaderHolds == Spec => []ElectionSafety
<1>1. ElectionInv => ElectionSafety
  <2> SUFFICES ASSUME ElectionInv PROVE ElectionSafety
    OBVIOUS
  <2>1. OneLeader(elections)
    BY OneLeaderPerTerm DEF ElectionInv, TypeOK, Elections
  <2> QED
    BY <2>1 DEF OneLeader, ElectionSafety
<1> QED
  BY <1>1, InvHolds, PTL

(* The leader a node names, and would redirect clients to, was elected in the
   term the node is in. *)
THEOREM LeadHolds == Spec => []LeadIsElected
<1>1. ElectionInv => LeadIsElected
  BY DEF ElectionInv, NodeOK, LeadIsElected, Elected
<1> QED
  BY <1>1, InvHolds, PTL

-----------------------------------------------------------------------------
(* A group of one member *)

(* A member that is alone commits what it appends at once. *)
LEMMA SingleGrows ==
    ASSUME Single, TypeOK, SingleInv, NEW i \in Server, NEW n \in Node, Update(i, n),
           n.msgs = {}, Grown(raft[i].log, n.log),
           n.committed >= raft[i].committed, n.committed <= Len(n.log)
    PROVE  SingleInv'
<1>1. /\ raft \in [Server -> Node] /\ stableLog[i] \in Seq(Entry) /\ raft[i].log \in Seq(Entry)
      /\ n.log \in Seq(Entry) /\ hardState[i].commit \in Nat
      /\ raft[i].committed \in Nat /\ n.committed \in Nat
  BY DEF TypeOK, Node, HardState
<1>2. SingleOK(i, raft[i]) /\ network = {}
  BY DEF SingleInv
<1>3. Grown(stableLog[i], n.log)
  BY SMT, <1>1, <1>2 DEF SingleOK, Grown
<1>4. hardState[i].commit <= n.committed
  BY <1>1, <1>2 DEF SingleOK
<1>5. SingleOK(i, n)
  BY <1>2, <1>3, <1>4 DEF SingleOK
<1>6. \A j \in Server : raft'[j] = n /\ j = i
  BY <1>1, SingleMember DEF Update
<1>7. UNCHANGED <<hardState, stableLog, network>>
  BY DEF Update
<1> QED
  BY <1>2, <1>5, <1>6, <1>7 DEF SingleInv, SingleOK

(* Appending an entry only grows the log. *)
LEMMA GrownAppend ==
    ASSUME NEW log \in Seq(Entry), NEW e \in Entry
    PROVE  Grown(log, Append(log, e)) /\ Len(Append(log, e)) = Len(log) + 1
BY DEF Grown

(* becomeLeader in a group of one commits the no-op at once. *)
LEMMA SingleLeader ==
    ASSUME Single, NEW i \in Server, NEW c \in Node, NEW b, b = becomeLeader(i, c)
    PROVE  /\ b.State = "StateLeader" /\ b.msgs = c.msgs /\ Grown(c.log, b.log)
           /\ b.committed = Len(b.log) /\ Len(b.log) = Len(c.log) + 1
<1> DEFINE noop == [term |-> c.Term, data |-> NoData, type |-> "EntryNormal"]
<1>1. noop \in Entry /\ c.log \in Seq(Entry)
  BY DataAssumption DEF Entry, EntryType, Node
<1>2. /\ b.State = "StateLeader" /\ b.log = Append(c.log, noop)
      /\ b.committed = Len(c.log) + 1 /\ b.msgs = c.msgs
  BY DEF becomeLeader, Node
<1> QED
  BY <1>1, <1>2, GrownAppend

(* So does a campaign in a group of one, which it wins at once. *)
LEMMA SingleCampaign ==
    ASSUME Single, NEW i \in Server, NEW r \in Node, r.msgs = {}, r.committed <= Len(r.log),
           NEW n, n = campaign(i, r)
    PROVE  /\ n.msgs = {} /\ Grown(r.log, n.log)
           /\ n.committed >= r.committed /\ n.committed <= Len(n.log)
<1> DEFINE c == [r EXCEPT !.State = "StateCandidate",
                          !.Term = @ + 1,
                          !.Lead = None,
                          !.Vote = i,
                          !.granted = {i},
                          !.rejected = {}]
<1>1. c.msgs = {} /\ c.log = r.log
  BY DEF Node
<1>2. c \in Node
  <2>1. r.Term + 1 \in Nat
    BY SMT DEF Node
  <2> QED
    BY <2>1 DEF Node
<1>3. r.committed \in Nat /\ Len(r.log) \in Nat
  BY SMT DEF Node
<1>4. becomeCandidate(i, r) = becomeLeader(i, c)
  BY DEF becomeCandidate
<1> HIDE DEF c
<1>5. /\ becomeLeader(i, c).State = "StateLeader" /\ becomeLeader(i, c).msgs = {}
      /\ Grown(r.log, becomeLeader(i, c).log)
      /\ becomeLeader(i, c).committed = Len(r.log) + 1
      /\ Len(becomeLeader(i, c).log) = Len(r.log) + 1
  BY SMT, <1>1, <1>2, SingleLeader
<1>6. n = becomeLeader(i, c)
  BY <1>4, <1>5 DEF campaign
<1> QED
  BY SMT, <1>3, <1>5, <1>6

(* Next, for a group of one member. *)
LEMMA NextSingle ==
    ASSUME Single, TypeOK, SingleInv, [Next]_vars
    PROVE  SingleInv'
<1>1. /\ raft \in [Server -> Node] /\ stableLog \in [Server -> Seq(Entry)]
      /\ hardState \in [Server -> HardState] /\ network = {}
      /\ \A i \in Server : SingleOK(i, raft[i])
  BY DEF TypeOK, SingleInv
<1>2. CASE UNCHANGED vars
  BY <1>1, <1>2 DEF vars, SingleInv, SingleOK
<1>3. ASSUME NEW i \in Server, Hup(i) PROVE SingleInv'
  <2>1. campaign(i, raft[i]) \in Node /\ Update(i, campaign(i, raft[i]))
    BY <1>1, <1>3, CampaignType DEF Hup
  <2>2. raft[i] \in Node /\ raft[i].msgs = {} /\ raft[i].committed <= Len(raft[i].log)
    BY <1>1 DEF SingleOK
  <2> QED
    BY <2>1, <2>2, SingleCampaign, SingleGrows
<1>4. ASSUME NEW i \in Server, Beat(i) PROVE SingleInv'
  <2>1. beat(i, raft[i]) \in Node /\ Update(i, beat(i, raft[i]))
    BY <1>1, <1>4, BeatType DEF Beat
  <2>2. raft[i] \in Node /\ raft[i].msgs = {} /\ raft[i].committed <= Len(raft[i].log)
    BY <1>1 DEF SingleOK
  <2>3. Server \ {i} = {}
    BY SingleMember
  <2>4. /\ beat(i, raft[i]).msgs = {} /\ beat(i, raft[i]).log = raft[i].log
        /\ beat(i, raft[i]).committed = raft[i].committed
    BY <2>2, <2>3 DEF beat, Node
  <2>5. Grown(raft[i].log, raft[i].log) /\ raft[i].committed >= raft[i].committed
    BY SMT, <2>2 DEF Grown, Node
  <2> QED
    BY <2>1, <2>2, <2>4, <2>5, SingleGrows
<1>5. ASSUME NEW i \in Server, NEW d \in Data, NEW type \in ProposeType,
             Propose(i, d, type)
      PROVE  SingleInv'
  <2> DEFINE r == raft[i]
             n == propose(i, r, d, type)
             e == [term |-> r.Term, data |-> d, type |-> type]
  <2>1. r \in Node /\ r.msgs = {} /\ r.committed <= Len(r.log)
    BY <1>1 DEF SingleOK
  <2> HIDE DEF r
  <2>2. n \in Node
    BY <1>5, <2>1, ProposeNodeType
  <2>3. e \in Entry /\ r.log \in Seq(Entry) /\ r.committed \in Nat /\ Len(r.log) \in Nat
    BY SMT, <2>1, DataAssumption DEF Entry, Node
  <2>4. n.log = Append(r.log, e) /\ n.committed = Len(r.log) + 1 /\ n.msgs = {}
    BY <2>1 DEF propose, Node
  <2> HIDE DEF n, e
  <2>5. /\ Grown(r.log, n.log) /\ n.committed >= r.committed /\ n.committed <= Len(n.log)
    BY SMT, <2>1, <2>3, <2>4, GrownAppend
  <2> QED
    BY <1>5, <2>2, <2>4, <2>5, SingleGrows DEF Propose, n, r
<1>6. ASSUME NEW i \in Server, Ready(i) PROVE SingleInv'
  <2>1. /\ hardState' = [hardState EXCEPT ![i] = HardStateOf(raft[i])]
        /\ stableLog' = [stableLog EXCEPT ![i] = raft[i].log]
        /\ network' = network \cup raft[i].msgs
        /\ raft' = [raft EXCEPT ![i] = [raft[i] EXCEPT !.msgs = {}]]
    BY <1>6, Zenon DEF Ready
  <2>2. \A j \in Server : j = i
    BY SingleMember
  <2>3. /\ raft[i].msgs = {} /\ raft[i].committed <= Len(raft[i].log)
        /\ raft[i].log \in Seq(Entry) /\ raft[i].committed \in Nat
    BY <1>1 DEF SingleOK, Node
  <2>4. /\ raft'[i].msgs = {} /\ raft'[i].log = raft[i].log
        /\ raft'[i].committed = raft[i].committed
        /\ stableLog'[i] = raft[i].log /\ hardState'[i].commit = raft[i].committed
    BY SMT, <1>1, <2>1 DEF HardStateOf, Node
  <2>5. Grown(raft[i].log, raft[i].log)
    BY <2>3 DEF Grown
  <2>6. SingleOK(i, raft[i])'
    BY <2>3, <2>4, <2>5 DEF SingleOK
  <2> QED
    BY <1>1, <2>1, <2>2, <2>3, <2>6 DEF SingleInv
<1>7. ASSUME NEW i \in Server, Restart(i) PROVE SingleInv'
  <2>1. /\ raft'[i] = newRaft(hardState[i], stableLog[i])
        /\ UNCHANGED <<hardState, stableLog, network>>
    BY <1>1, <1>7 DEF Restart
  <2>2. \A j \in Server : j = i
    BY SingleMember
  <2>3. /\ raft'[i].msgs = {} /\ raft'[i].log = stableLog[i]
        /\ raft'[i].committed = hardState[i].commit
    BY <2>1 DEF newRaft
  <2>4. /\ hardState[i].commit \in Nat /\ hardState[i].commit <= Len(stableLog[i])
        /\ stableLog[i] \in Seq(Entry)
    BY <1>1 DEF SingleOK, HardState
  <2>5. Grown(stableLog[i], stableLog[i])
    BY <2>4 DEF Grown
  <2>6. SingleOK(i, raft[i])'
    BY <2>1, <2>3, <2>4, <2>5 DEF SingleOK
  <2> QED
    BY <1>1, <2>1, <2>2, <2>6 DEF SingleInv
<1> QED
  BY <1>1, <1>2, <1>3, <1>4, <1>5, <1>6, <1>7 DEF Next

(* A group of one starts with nothing saved and nothing sent. *)
LEMMA InitSingle == Init => SingleInv
<1> SUFFICES ASSUME Init PROVE SingleInv
  OBVIOUS
<1>1. \A h, log : LET r == newRaft(h, log) IN
          r.log = log /\ r.committed = h.commit /\ r.msgs = {}
  BY DEF newRaft
<1>2. \A i \in Server : /\ hardState[i].commit = 0 /\ stableLog[i] = << >>
                        /\ raft[i] = newRaft(hardState[i], stableLog[i])
  BY DEF Init
<1>3. Grown(<< >>, << >>)
  BY DEF Grown
<1>4. \A i \in Server : SingleOK(i, raft[i])
  BY SMT, <1>1, <1>2, <1>3 DEF SingleOK
<1> QED
  BY <1>4 DEF Init, SingleInv

(* In a group of one the saved log agrees with the log in memory. *)
LEMMA SingleAgrees ==
    ASSUME Single, TypeOK, SingleInv
    PROVE  LogsAgree
<1>1. PICK i \in Server : \A j \in Server : j = i
  BY ServerAssumption, SingleMember
<1>2. /\ raft[i].log \in Seq(Entry) /\ stableLog[i] \in Seq(Entry)
      /\ hardState[i].commit \in Nat /\ Grown(stableLog[i], raft[i].log)
      /\ hardState[i].commit <= raft[i].committed
      /\ hardState[i].commit <= Len(stableLog[i])
  BY DEF TypeOK, Node, HardState, SingleInv, SingleOK
<1>3. /\ \A k \in 1 .. Len(stableLog[i]) : raft[i].log[k] = stableLog[i][k]
      /\ Len(stableLog[i]) \in Nat /\ Len(raft[i].log) \in Nat
      /\ Len(stableLog[i]) <= Len(raft[i].log)
  BY <1>2 DEF Grown
<1>4. LogMatching
  <2>1. \A a \in Logs : /\ Len(a) \in Nat /\ Len(a) <= Len(raft[i].log)
                        /\ \A k \in 1 .. Len(a) : a[k] = raft[i].log[k]
    BY SMT, <1>1, <1>3 DEF Logs
  <2> SUFFICES ASSUME NEW a \in Logs, NEW b \in Logs,
                      NEW k \in 1 .. min(Len(a), Len(b)), NEW l \in 1 .. k
               PROVE  a[l].term = b[l].term /\ a[l].data = b[l].data
    BY DEF LogMatching
  <2>2. l \in 1 .. Len(a) /\ l \in 1 .. Len(b)
    BY <2>1 DEF min
  <2> QED
    BY <2>1, <2>2
<1>5. LeaderCompleteness
  BY SMT, <1>1, <1>2, <1>3 DEF LeaderCompleteness
<1>6. Same(stableLog[i], raft[i].log, hardState[i].commit)
  BY <1>2, <1>3 DEF Same
<1>7. \A n \in 0 .. hardState[i].commit : Same(stableLog[i], stableLog[i], n)
  BY <1>2 DEF Same
<1> QED
  BY <1>1, <1>2, <1>4, <1>5, <1>6, <1>7 DEF LogsAgree

=============================================================================
