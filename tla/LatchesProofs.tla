--------------------------- MODULE LatchesProofs ---------------------------
(***************************************************************************)
(* Latches exclude, for any number of threads, keys and key lists.  None   *)
(* of Exclusive and BlockedOnHolder is inductive: both rest on the exact   *)
(* contents of latchMap, and LatchInv joins them.                          *)
(***************************************************************************)
EXTENDS Latches, SequenceTheorems, TLAPS

\* The inductive invariant: the map holds exactly the running commands'
\* latches, and whoever is blocked is blocked on a running command, one that has
\* a key: its release finds the wait group under the first of its keys.
LatchInv ==
    /\ TypeOK
    /\ MapIsHolders
    /\ BlockedOnHolder
    /\ \A t \in Threads : waitOn[t] # NoThread => keys[waitOn[t]] # <<>>

\* Before any command arrives no key is latched and nobody waits.
LEMMA InitLatch == Init => LatchInv
BY LatchAssumption, EmptySeq DEF Init, LatchInv, TypeOK, MapIsHolders, BlockedOnHolder

\* A key of a list is a key, and is at one of the list's positions.
LEMMA RangeKeys ==
    ASSUME NEW ks \in Seq(Keys)
    PROVE  /\ Range(ks) \subseteq Keys
           /\ \A i \in DOMAIN ks : ks[i] \in Range(ks)
           /\ \A k \in Range(ks) : \E i \in DOMAIN ks : k = ks[i]
           /\ ks # <<>> => 1 \in DOMAIN ks
<1>1. DOMAIN ks = 1 .. Len(ks) /\ Len(ks) \in Nat /\ \A i \in 1 .. Len(ks) : ks[i] \in Keys
  BY LenProperties, ElementOfSeq
<1>2. ks # <<>> => Len(ks) # 0
  BY EmptySeq
<1>3. QED
  BY <1>1, <1>2 DEF Range

\* A step of any thread keeps the invariant.
LEMMA StepLatch == LatchInv /\ [Next]_vars => LatchInv'
<1> SUFFICES ASSUME LatchInv, [Next]_vars PROVE LatchInv'
  OBVIOUS
<1> USE LatchAssumption
<1>0. CASE UNCHANGED vars
  BY <1>0 DEF vars, LatchInv, TypeOK, MapIsHolders, BlockedOnHolder
<1>1. ASSUME NEW t \in Threads, Begin(t) PROVE LatchInv'
  <2>1. PICK ks \in Requests : keys' = [keys EXCEPT ![t] = ks]
    BY <1>1 DEF Begin
  <2>2. ks \in Seq(Keys) /\ pc[t] = "idle" /\ pc' = [pc EXCEPT ![t] = "acquire"]
        /\ latchMap' = latchMap /\ waitOn' = waitOn
    BY <1>1, <2>1 DEF Begin
  <2>3. TypeOK'
    BY <2>1, <2>2 DEF LatchInv, TypeOK
  <2>4. MapIsHolders'
    BY <2>1, <2>2 DEF LatchInv, TypeOK, MapIsHolders
  <2>5. BlockedOnHolder'
    BY <2>1, <2>2 DEF LatchInv, TypeOK, BlockedOnHolder
  <2>6. \A u \in Threads : waitOn'[u] # NoThread => keys'[waitOn'[u]] # <<>>
    BY <2>1, <2>2 DEF LatchInv, TypeOK, BlockedOnHolder
  <2>7. QED
    BY <2>3, <2>4, <2>5, <2>6 DEF LatchInv
<1>2. ASSUME NEW t \in Threads, AcquireLatches(t) PROVE LatchInv'
  <2> DEFINE ks == keys[t]
  <2>1. ks \in Seq(Keys) /\ pc[t] = "acquire" /\ keys' = keys /\ waitOn' = waitOn
        /\ pc' = [pc EXCEPT ![t] = "holding"]
        /\ latchMap' = [k \in Keys |-> IF k \in Range(ks) THEN t ELSE latchMap[k]]
    BY <1>2 DEF AcquireLatches, LatchInv, TypeOK
  <2>2. \A k \in Range(ks) : latchMap[k] = NoThread
    BY <1>2, <2>1, RangeKeys DEF AcquireLatches, LatchedAt
  <2>3. TypeOK'
    BY <2>1 DEF LatchInv, TypeOK
  <2>4. ASSUME NEW k \in Keys, NEW u \in Threads
        PROVE  latchMap'[k] = u <=> pc'[u] = "holding" /\ k \in Range(keys'[u])
    <3>1. CASE u = t
      BY <2>1, <3>1 DEF LatchInv, TypeOK, MapIsHolders
    <3>2. CASE u # t
      BY <2>1, <2>2, <3>2 DEF LatchInv, TypeOK, MapIsHolders
    <3>3. QED
      BY <3>1, <3>2
  <2>5. BlockedOnHolder'
    BY <2>1 DEF LatchInv, TypeOK, BlockedOnHolder
  <2>6. QED
    BY <2>1, <2>3, <2>4, <2>5 DEF LatchInv, MapIsHolders
<1>3. ASSUME NEW t \in Threads, FindLatched(t) PROVE LatchInv'
  <2>1. PICK i \in LatchedAt(keys[t]) : waitOn' = [waitOn EXCEPT ![t] = latchMap[keys[t][i]]]
    BY <1>3 DEF FindLatched
  <2>2. keys[t] \in Seq(Keys) /\ pc[t] = "acquire" /\ keys' = keys /\ latchMap' = latchMap
        /\ pc' = [pc EXCEPT ![t] = "wait"]
    BY <1>3 DEF FindLatched, LatchInv, TypeOK
  <2>3. PICK k \in Keys : k = keys[t][i] /\ latchMap[k] # NoThread
    BY <2>1, <2>2, RangeKeys DEF LatchedAt
  <2>4. latchMap[k] \in Threads /\ pc[latchMap[k]] = "holding" /\ keys[latchMap[k]] # <<>>
    <3>1. latchMap[k] \in Threads /\ pc[latchMap[k]] = "holding" /\ k \in Range(keys[latchMap[k]])
      BY <2>3 DEF LatchInv, TypeOK, MapIsHolders
    <3>2. QED
      BY <3>1 DEF Range
  <2>5. TypeOK'
    BY <2>1, <2>2, <2>3, <2>4 DEF LatchInv, TypeOK
  <2>6. MapIsHolders'
    BY <2>2 DEF LatchInv, TypeOK, MapIsHolders
  <2>7. BlockedOnHolder'
    BY <2>1, <2>2, <2>3, <2>4 DEF LatchInv, TypeOK, BlockedOnHolder
  <2>8. QED
    BY <2>1, <2>2, <2>3, <2>4, <2>5, <2>6, <2>7 DEF LatchInv, TypeOK
<1>4. ASSUME NEW t \in Threads, Wait(t) PROVE LatchInv'
  BY <1>4 DEF Wait, LatchInv, TypeOK, MapIsHolders, BlockedOnHolder
<1>5. ASSUME NEW t \in Threads, ReleaseLatches(t) PROVE LatchInv'
  <2> DEFINE ks == keys[t]
  <2>1. ks \in Seq(Keys) /\ pc[t] = "holding" /\ keys' = [keys EXCEPT ![t] = <<>>]
        /\ pc' = [pc EXCEPT ![t] = "idle"]
        /\ latchMap' = [k \in Keys |-> IF k \in Range(ks) THEN NoThread ELSE latchMap[k]]
    BY <1>5 DEF ReleaseLatches, Unlatched, LatchInv, TypeOK
  <2>2. waitOn' = [u \in Threads |->
                     IF ks # <<>> /\ waitOn[u] = latchMap[ks[1]] THEN NoThread ELSE waitOn[u]]
    BY <1>5 DEF ReleaseLatches, Done
  <2>3. TypeOK'
    BY <2>1, <2>2, EmptySeq DEF LatchInv, TypeOK
  <2>4. ASSUME NEW k \in Keys, NEW u \in Threads
        PROVE  latchMap'[k] = u <=> pc'[u] = "holding" /\ k \in Range(keys'[u])
    <3>1. CASE u = t
      BY <2>1, <3>1 DEF LatchInv, TypeOK, MapIsHolders
    <3>2. CASE u # t
      BY <2>1, <3>2 DEF LatchInv, TypeOK, MapIsHolders
    <3>3. QED
      BY <3>1, <3>2
  \* Whoever waits on t waits on the wait group that is under its first key.
  <2>5. ASSUME NEW u \in Threads, waitOn[u] = t PROVE waitOn'[u] = NoThread
    <3>1. ks # <<>>
      BY <2>5 DEF LatchInv
    <3>2. ks[1] \in Range(ks) /\ ks[1] \in Keys
      BY <2>1, <3>1, RangeKeys
    <3>3. latchMap[ks[1]] = t
      BY <2>1, <3>2 DEF LatchInv, MapIsHolders
    <3>4. QED
      BY <2>2, <2>5, <3>1, <3>3
  <2>6. ASSUME NEW u \in Threads, waitOn'[u] # NoThread
        PROVE  pc'[u] = "wait" /\ pc'[waitOn'[u]] = "holding" /\ keys'[waitOn'[u]] # <<>>
    <3>1. waitOn'[u] = waitOn[u] /\ waitOn[u] # t /\ waitOn[u] \in Threads
      BY <2>2, <2>5, <2>6 DEF LatchInv, TypeOK
    <3>2. pc[u] = "wait" /\ pc[waitOn[u]] = "holding" /\ keys[waitOn[u]] # <<>>
      BY <2>6, <3>1 DEF LatchInv, BlockedOnHolder
    <3>3. QED
      BY <2>1, <3>1, <3>2 DEF LatchInv, TypeOK
  <2>7. QED
    BY <2>3, <2>4, <2>6 DEF LatchInv, MapIsHolders, BlockedOnHolder
<1>6. QED
  BY <1>0, <1>1, <1>2, <1>3, <1>4, <1>5 DEF Next, WaitForLatches

\* Latches exclude: whatever the threads, keys and lists, two commands that share
\* a key are never both between WaitForLatches and ReleaseLatches.
THEOREM LatchesExclude == Spec => []Exclusive
<1>1. LatchInv => Exclusive
  <2> SUFFICES ASSUME LatchInv, NEW t \in Threads, NEW u \in Threads, t # u,
                      pc[t] = "holding", pc[u] = "holding",
                      NEW k \in Range(keys[t]), k \in Range(keys[u])
               PROVE  FALSE
    BY DEF Exclusive
  <2>1. k \in Keys
    BY RangeKeys DEF LatchInv, TypeOK
  <2>2. latchMap[k] = t /\ latchMap[k] = u
    BY <2>1 DEF LatchInv, MapIsHolders
  <2>3. QED
    BY <2>2
<1>2. QED
  BY <1>1, InitLatch, StepLatch, PTL DEF Spec

\* No wakeup is lost: at all times a blocked command is blocked on one that runs.
THEOREM NoLostWakeup == Spec => []BlockedOnHolder
<1>1. LatchInv => BlockedOnHolder
  BY DEF LatchInv
<1>2. QED
  BY <1>1, InitLatch, StepLatch, PTL DEF Spec
=============================================================================
