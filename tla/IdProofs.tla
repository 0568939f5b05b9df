------------------------------ MODULE IdProofs ------------------------------
(***************************************************************************)
(* No id is handed out twice, for any number of members, any length of the *)
(* ranges and any number of ids.  The invariant is RangesApart.            *)
(***************************************************************************)
EXTENDS IdAllocator, TLAPS

IdInv == TypeOK /\ RangesApart

\* With nothing reserved the ranges are apart.
LEMMA InitIds == Init => IdInv
BY IdAssumption DEF Init, IdInv, TypeOK, RangesApart

\* A step that only moves the recorded end forward, and ends one generate, keeps
\* the ranges apart: what was reserved is then nobody's.
LEMMA EndMovesForward ==
    ASSUME IdInv, NEW m \in Members,
           savedEnd' \in Nat, savedEnd <= savedEnd',
           read' = [read EXCEPT ![m] = -1],
           UNCHANGED <<leaderKey, base, end, given>>
    PROVE  IdInv'
<1>1. TypeOK'
  BY DEF IdInv, TypeOK
<1>2. \A n \in Members : end'[n] <= savedEnd' /\ read'[n] <= savedEnd'
  BY DEF IdInv, TypeOK, RangesApart
<1>3. RangesApart'
  BY <1>1, <1>2 DEF IdInv, TypeOK, RangesApart
<1>4. QED
  BY <1>1, <1>3 DEF IdInv

\* Every step keeps the ranges apart and hands out no id again.
LEMMA StepIds ==
    ASSUME IdInv, [Next]_vars
    PROVE  /\ IdInv'
           /\ \A m \in Members : base'[m] # base[m] /\ base'[m] # 0 => base'[m] \notin given
<1> USE IdAssumption
<1> DEFINE Fresh == \A m \in Members : base'[m] # base[m] /\ base'[m] # 0 => base'[m] \notin given
<1>0. CASE UNCHANGED vars
  BY <1>0 DEF vars, IdInv, TypeOK, RangesApart
<1>1. CASE LeaderKeyMoves
  BY <1>1 DEF LeaderKeyMoves, IdInv, TypeOK, RangesApart
<1>2. ASSUME NEW m \in Members, AllocFromRange(m) PROVE IdInv' /\ Fresh
  <2> DEFINE id == base[m] + 1
  <2>1. /\ base[m] \in Nat /\ end[m] \in Nat /\ base[m] < end[m]
        /\ base' = [base EXCEPT ![m] = id] /\ given' = given \cup {id}
        /\ UNCHANGED <<leaderKey, savedEnd, end, read>>
    <3>1. base[m] \in Nat /\ end[m] \in Nat /\ base[m] <= end[m]
      BY DEF IdInv, TypeOK, RangesApart
    <3> QED
      BY <1>2, <3>1 DEF AllocFromRange
  <2>2. id \in Nat /\ id <= end[m] /\ id <= savedEnd /\ id \notin given
    BY <2>1 DEF IdInv, TypeOK, RangesApart
  <2>3. TypeOK'
    BY <2>1, <2>2 DEF IdInv, TypeOK
  <2>4. \A n \in Members, i \in given' : ~(base'[n] < i /\ i <= end'[n])
    BY <2>1, <2>2 DEF IdInv, TypeOK, RangesApart
  <2>5. RangesApart'
    BY <2>1, <2>2, <2>3, <2>4 DEF IdInv, TypeOK, RangesApart
  <2>6. Fresh
    BY <2>1, <2>2 DEF IdInv, TypeOK
  <2>7. QED
    BY <2>3, <2>5, <2>6 DEF IdInv
<1>3. ASSUME NEW m \in Members, GenerateRead(m) PROVE IdInv' /\ Fresh
  BY <1>3 DEF GenerateRead, IdInv, TypeOK, RangesApart
<1>4. ASSUME NEW m \in Members, GenerateCommit(m) PROVE IdInv' /\ Fresh
  <2> DEFINE from == savedEnd
             to == savedEnd + allocStep
  <2>1. /\ from \in Nat /\ to \in Nat /\ from < to
        /\ savedEnd' = to /\ end' = [end EXCEPT ![m] = to]
        /\ base' = [base EXCEPT ![m] = from + 1] /\ given' = given \cup {from + 1}
        /\ read' = [read EXCEPT ![m] = -1] /\ leaderKey' = leaderKey
    BY <1>4 DEF GenerateCommit, MayReserve, IdInv, TypeOK
  <2>2. TypeOK'
    BY <2>1 DEF IdInv, TypeOK
  <2>3. \A n \in Members : base'[n] <= end'[n] /\ end'[n] <= savedEnd' /\ read'[n] <= savedEnd'
    BY <2>1 DEF IdInv, TypeOK, RangesApart
  <2>4. \A i \in given' : i <= from + 1
    BY <2>1 DEF IdInv, TypeOK, RangesApart
  <2>5. \A n \in Members, i \in given' : ~(base'[n] < i /\ i <= end'[n])
    BY <2>1, <2>4 DEF IdInv, TypeOK, RangesApart
  <2>6. \A n, o \in Members : n # o => end'[n] <= base'[o] \/ end'[o] <= base'[n]
                                        \/ base'[n] = end'[n] \/ base'[o] = end'[o]
    BY <2>1 DEF IdInv, TypeOK, RangesApart
  <2>7. Fresh
    BY <2>1 DEF IdInv, TypeOK, RangesApart
  <2>8. QED
    BY <2>1, <2>2, <2>3, <2>4, <2>5, <2>6, <2>7 DEF IdInv, TypeOK, RangesApart
<1>5. ASSUME NEW m \in Members, GenerateError(m) PROVE IdInv' /\ Fresh
  <2>1. savedEnd' \in Nat /\ savedEnd <= savedEnd' /\ read' = [read EXCEPT ![m] = -1]
        /\ UNCHANGED <<leaderKey, base, end, given>>
    BY <1>5 DEF GenerateError, MayReserve, IdInv, TypeOK
  <2>2. QED
    BY <2>1, EndMovesForward
<1>6. ASSUME NEW m \in Members, Restart(m) PROVE IdInv' /\ Fresh
  <2>1. /\ savedEnd' \in Nat /\ savedEnd <= savedEnd'
        /\ base' = [base EXCEPT ![m] = 0] /\ end' = [end EXCEPT ![m] = 0]
        /\ read' = [read EXCEPT ![m] = -1] /\ UNCHANGED <<leaderKey, given>>
    BY <1>6 DEF Restart, MayReserve, IdInv, TypeOK
  <2>2. TypeOK'
    BY <2>1 DEF IdInv, TypeOK
  <2>3. \A n \in Members : base'[n] <= end'[n] /\ end'[n] <= savedEnd' /\ read'[n] <= savedEnd'
    BY <2>1 DEF IdInv, TypeOK, RangesApart
  <2>4. RangesApart'
    BY <2>1, <2>2, <2>3 DEF IdInv, TypeOK, RangesApart
  <2>5. Fresh
    BY <2>1 DEF IdInv, TypeOK
  <2>6. QED
    BY <2>2, <2>4, <2>5 DEF IdInv
<1>7. QED
  BY <1>0, <1>1, <1>2, <1>3, <1>4, <1>5, <1>6 DEF Next, Alloc

\* An id that Alloc returns is never returned again, by any member.
THEOREM IdsUnique == Spec => NoIdTwice
<1>1. IdInv /\ [Next]_vars => IdInv'
  BY StepIds
<1>2. IdInv /\ [Next]_vars =>
        [\A m \in Members : base'[m] # base[m] /\ base'[m] # 0 => base'[m] \notin given]_vars
  BY StepIds
<1>3. QED
  BY <1>1, <1>2, InitIds, PTL DEF Spec, NoIdTwice
=============================================================================
