---------------------------- MODULE IdAllocator ----------------------------
(***************************************************************************)
(* The id allocator of the scheduler members (scheduler/server/id/id.go):  *)
(* every member hands out ids from a range it has reserved in etcd, and    *)
(* reserves the next range with a transaction that requires it to own the  *)
(* leader key and the saved end not to have moved since it was read.       *)
(* Alloc holds the allocator's mutex, so a member runs one at a time.      *)
(***************************************************************************)
EXTENDS Integers

CONSTANTS
    Members,     \* the members of the scheduler
    NoMember,    \* no member owns the leader key
    allocStep,   \* ids reserved at a time
    MaxId        \* bound: ids that may be reserved

ASSUME IdAssumption == NoMember \notin Members /\ allocStep \in Nat \ {0} /\ MaxId \in Nat

VARIABLES
    leaderKey,   \* the member in etcd's leader key
    savedEnd,    \* etcd's alloc_id, 0 when the key does not exist
    base, end,   \* AllocatorImpl.base and .end of each member
    read,        \* the value a member inside generate has read, or -1
    given        \* history: the ids handed out so far

vars == <<leaderKey, savedEnd, base, end, read, given>>

Init ==
    /\ leaderKey = NoMember
    /\ savedEnd = 0
    /\ base = [m \in Members |-> 0] /\ end = [m \in Members |-> 0]
    /\ read = [m \in Members |-> -1]
    /\ given = {}

\* Alloc with ids left in the member's range.
AllocFromRange(m) ==
    /\ read[m] = -1 /\ base[m] # end[m]
    /\ base' = [base EXCEPT ![m] = @ + 1]
    /\ given' = given \cup {base[m] + 1}
    /\ UNCHANGED <<leaderKey, savedEnd, end, read>>

\* Alloc with none left: generate reads the saved end.
GenerateRead(m) ==
    /\ read[m] = -1 /\ base[m] = end[m]
    /\ savedEnd + allocStep <= MaxId
    /\ read' = [read EXCEPT ![m] = savedEnd]
    /\ UNCHANGED <<leaderKey, savedEnd, base, end, given>>

\* The comparisons of generate's transaction; the first one is a mutant.
MayReserveUnread(m) == leaderKey = m
MayReserve(m) == leaderKey = m /\ savedEnd = read[m]

\* The transaction succeeds: Alloc takes the first id of the new range.
GenerateCommit(m) ==
    /\ read[m] # -1 /\ MayReserve(m)
    /\ savedEnd' = read[m] + allocStep
    /\ end' = [end EXCEPT ![m] = read[m] + allocStep]
    /\ base' = [base EXCEPT ![m] = read[m] + 1]
    /\ given' = given \cup {read[m] + 1}
    /\ read' = [read EXCEPT ![m] = -1]
    /\ UNCHANGED leaderKey

\* Alloc returns an error: a comparison failed, or etcd's answer did not come,
\* whether or not the transaction was made.
GenerateError(m) ==
    /\ read[m] # -1
    /\ \/ UNCHANGED savedEnd
       \/ MayReserve(m) /\ savedEnd' = read[m] + allocStep
    /\ read' = [read EXCEPT ![m] = -1]
    /\ UNCHANGED <<leaderKey, base, end, given>>

\* The member's process starts again, with an empty range; a transaction it was
\* waiting for is made or not.
Restart(m) ==
    /\ base' = [base EXCEPT ![m] = 0] /\ end' = [end EXCEPT ![m] = 0]
    /\ read' = [read EXCEPT ![m] = -1]
    /\ \/ UNCHANGED savedEnd
       \/ read[m] # -1 /\ MayReserve(m) /\ savedEnd' = read[m] + allocStep
    /\ UNCHANGED <<leaderKey, given>>

\* Another member, or nobody, comes to own the leader key.
LeaderKeyMoves ==
    /\ leaderKey' \in Members \cup {NoMember}
    /\ UNCHANGED <<savedEnd, base, end, read, given>>

Alloc(m) == AllocFromRange(m) \/ GenerateRead(m) \/ GenerateCommit(m) \/ GenerateError(m)

Next == LeaderKeyMoves \/ \E m \in Members : Alloc(m) \/ Restart(m)

Spec == Init /\ [][Next]_vars
-----------------------------------------------------------------------------
TypeOK ==
    /\ leaderKey \in Members \cup {NoMember}
    /\ savedEnd \in Nat
    /\ base \in [Members -> Nat] /\ end \in [Members -> Nat]
    /\ read \in [Members -> Nat \cup {-1}]
    /\ given \in SUBSET Nat

\* Whoever hands out an id, nobody handed it out before: the ranges of the
\* members never overlap, although leaders change between a range's read and
\* its transaction, old leaders go on with what they reserved, and a
\* transaction that ended in an error may have been made.
NoIdTwice ==
    [][\A m \in Members : base'[m] # base[m] /\ base'[m] # 0 => base'[m] \notin given]_vars

\* The strengthening that makes NoIdTwice inductive: what is handed out or held
\* in reserve is within what etcd has recorded, a member holds nothing that was
\* handed out, no two members hold the same id, and what a member read is not
\* ahead of what is recorded.
RangesApart ==
    /\ \A m \in Members : base[m] <= end[m] /\ end[m] <= savedEnd /\ read[m] <= savedEnd
    /\ \A i \in given : i <= savedEnd
    /\ \A m \in Members, i \in given : ~(base[m] < i /\ i <= end[m])
    /\ \A m, n \in Members : m # n => end[m] <= base[n] \/ end[n] <= base[m]
                                        \/ base[m] = end[m] \/ base[n] = end[n]
=============================================================================
