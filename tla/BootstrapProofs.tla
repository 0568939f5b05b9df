-------------------------- MODULE BootstrapProofs --------------------------
(***************************************************************************)
(* One first region, for any number of stores, scheduler members, crashes, *)
(* lost answers and changes of the leader.  A region that is not the one   *)
(* under PrepareBootstrapKey is one its store keeps; BootstrapInv says who *)
(* may keep one: the store etcd's cluster root was created for, and it     *)
(* keeps no second one.                                                    *)
(***************************************************************************)
EXTENDS Bootstrap, TLAPS

USE BootstrapAssumption

Steps == {"start", "allocStore", "check", "alloc", "prepareRaft", "bootstrap", "wait",
          "already", "won", "clear", "clear2", "put", "load", "up"}

\* Where Node.Start deals with the region it prepared, and where it has none.
Preparing == {"prepareRaft", "bootstrap", "wait", "already", "won", "clear", "clear2"}
Unprepared == {"alloc", "put", "load", "up"}

TypeOK ==
    /\ ident \in [Stores -> BOOLEAN]
    /\ prepare \in [Stores -> {0} \cup RegionNos]
    /\ regions \in [Stores -> SUBSET RegionNos]
    /\ raftStates \in [Stores -> SUBSET RegionNos]
    /\ pc \in [Stores -> Steps]
    /\ firstRegion \in [Stores -> {0} \cup RegionNos]
    /\ call \in [Stores -> Members \cup {NoMember}]
    /\ late \subseteq Stores \X Members
    /\ running \in [Members -> BOOLEAN]
    /\ root \in Stores \cup {NoStore}
    /\ cache \in [Members -> (Stores \X RegionNos) \cup {NoRegion}]
    /\ unheard \in BOOLEAN

\* The regions a store keeps, whether or not it prepares another one.
Kept(s) == regions[s] \ {prepare[s]}

\* The region under PrepareBootstrapKey has its states in the Kv engine, and is
\* the one Start deals with; the Raft engine has no region that the Kv engine
\* has not, and every one when the store is up.
EngineInv ==
    \A s \in Stores :
        /\ prepare[s] # 0 => prepare[s] \in regions[s]
        /\ raftStates[s] \subseteq regions[s]
        /\ pc[s] \in Preparing => prepare[s] # 0 /\ firstRegion[s] = prepare[s]
        /\ pc[s] \in Unprepared => prepare[s] = 0
        /\ pc[s] = "clear2" => firstRegion[s] \notin raftStates[s]
        /\ pc[s] = "up" => raftStates[s] = regions[s]
        /\ pc[s] = "wait" => call[s] # NoMember

\* Only the store of the cluster root keeps a region, and only one; it does so
\* from when it has heard that it won; the scheduler knows only kept regions.
KeptInv ==
    /\ \A s \in Stores :
        /\ Kept(s) # {} => root = s
        /\ \A r, q \in Kept(s) : r = q
        /\ pc[s] = "won" => root = s /\ Kept(s) = {}
        /\ root = s /\ ~unheard => pc[s] = "won" \/ Kept(s) # {}
    /\ \A m \in Members, s \in Stores, r \in RegionNos :
        cache[m] = <<s, r>> => r \in Kept(s)

BootstrapInv == TypeOK /\ EngineInv /\ KeptInv

-----------------------------------------------------------------------------
\* Stores start with empty engines, and no cluster root.
LEMMA InitBootstrap == Init => BootstrapInv
<1> SUFFICES ASSUME Init PROVE BootstrapInv
  OBVIOUS
<1>1. TypeOK
  BY DEF Init, TypeOK, Steps
<1>2. EngineInv
  BY DEF Init, EngineInv, Preparing, Unprepared
<1>3. KeptInv
  BY DEF Init, KeptInv, Kept, NoRegion
<1>4. QED
  BY <1>1, <1>2, <1>3 DEF BootstrapInv

\* PrepareKv finds a number for its region: a store that has prepared none
\* keeps at most one.
LEMMA NewRegion ==
    ASSUME BootstrapInv, NEW s \in Stores, pc[s] = "alloc"
    PROVE  Min(RegionNos \ (regions[s] \cup raftStates[s])) \in RegionNos \ regions[s]
<1> DEFINE S == RegionNos \ (regions[s] \cup raftStates[s])
<1>1. prepare[s] = 0 /\ raftStates[s] \subseteq regions[s] /\ regions[s] \subseteq RegionNos
  BY DEF BootstrapInv, TypeOK, EngineInv, Unprepared
<1>2. \A r, q \in regions[s] : r = q
  BY <1>1 DEF BootstrapInv, KeptInv, Kept, RegionNos
<1>3. \E x \in S : \A y \in S : x <= y
  <2>1. CASE 1 \in S
    BY <2>1 DEF RegionNos
  <2>2. CASE 1 \notin S
    <3>1. 2 \in S
      BY <1>1, <1>2, <2>2 DEF RegionNos
    <3>2. QED
      BY <2>2, <3>1 DEF RegionNos
  <2>3. QED
    BY <2>1, <2>2
<1>4. Min(S) \in S
  BY <1>3 DEF Min
<1>5. QED
  BY <1>4

\* A step of Start that changes neither engine, nor the cluster root, and does
\* not go on to "won".
LEMMA StartStep ==
    ASSUME BootstrapInv, NEW s \in Stores, NEW to \in Steps \ {"won", "clear2", "up"},
           pc[s] # "won", pc' = [pc EXCEPT ![s] = to],
           firstRegion' \in [Stores -> {0} \cup RegionNos],
           \A t \in Stores : t # s => firstRegion'[t] = firstRegion[t] /\ call'[t] = call[t],
           to \in Preparing => prepare[s] # 0 /\ firstRegion'[s] = prepare[s],
           to \in Unprepared => prepare[s] = 0,
           call' \in [Stores -> Members \cup {NoMember}], to = "wait" => call'[s] # NoMember,
           late' \subseteq Stores \X Members,
           unheard' = unheard,
           UNCHANGED <<prepare, regions, raftStates, serverVars>>,
           ident' \in [Stores -> BOOLEAN]
    PROVE  BootstrapInv'
<1>1. TypeOK'
  BY DEF BootstrapInv, TypeOK, serverVars
<1>2. EngineInv'
  BY DEF BootstrapInv, TypeOK, EngineInv, Preparing, Unprepared
<1>3. KeptInv'
  BY DEF BootstrapInv, TypeOK, KeptInv, Kept, serverVars
<1>4. QED
  BY <1>1, <1>2, <1>3 DEF BootstrapInv

\* bootstrapCluster's transaction, for a call that a store waits for or not.
LEMMA RootStep ==
    ASSUME BootstrapInv, NEW s \in Stores, NEW m \in Members, NEW ok \in BOOLEAN,
           CreateRoot(s, m, ok)
    PROVE  /\ running' \in [Members -> BOOLEAN]
           /\ root' \in Stores \cup {NoStore}
           /\ cache' \in [Members -> (Stores \X RegionNos) \cup {NoRegion}]
           /\ root # NoStore => root' = root
           /\ root = NoStore => root' = s
           /\ \A n \in Members : cache'[n] \in {cache[n], NoRegion}
BY DEF CreateRoot, BootstrapInv, TypeOK
\* A step of the scheduler's members keeps what the stores have.
LEMMA ServerStep ==
    ASSUME BootstrapInv,
           running' \in [Members -> BOOLEAN],
           cache' \in [Members -> (Stores \X RegionNos) \cup {NoRegion}],
           \A n \in Members : cache'[n] \in {cache[n], NoRegion},
           UNCHANGED <<storeVars, nodeVars, call, late, root, unheard>>
    PROVE  BootstrapInv'
<1>1. TypeOK'
  BY DEF BootstrapInv, TypeOK, storeVars, nodeVars
<1>2. EngineInv'
  BY DEF BootstrapInv, EngineInv, storeVars, nodeVars
<1>3. \A m \in Members, t \in Stores, r \in RegionNos : cache'[m] = <<t, r>> => cache[m] = <<t, r>>
  BY DEF NoRegion
<1>4. KeptInv'
  BY <1>3 DEF BootstrapInv, KeptInv, Kept, storeVars, nodeVars
<1>5. QED
  BY <1>1, <1>2, <1>4 DEF BootstrapInv

\* Every step keeps the invariant.
LEMMA StepBootstrap == BootstrapInv /\ [Next]_vars => BootstrapInv'
<1> SUFFICES ASSUME BootstrapInv, [Next]_vars PROVE BootstrapInv'
  OBVIOUS
<1>0. CASE UNCHANGED vars
  BY <1>0 DEF vars, storeVars, nodeVars, serverVars, BootstrapInv, TypeOK, EngineInv, KeptInv, Kept
<1>1. ASSUME NEW m \in Members, Campaign(m) PROVE BootstrapInv'
  BY <1>1, ServerStep DEF Campaign, BootstrapInv, TypeOK
<1>2. CASE LoseKey
  BY <1>2, ServerStep DEF LoseKey, BootstrapInv, TypeOK
<1>3. ASSUME NEW m \in Members, StepDown(m) PROVE BootstrapInv'
  BY <1>3, ServerStep DEF StepDown, BootstrapInv, TypeOK
<1>4. ASSUME NEW s \in Stores, CheckStore(s) PROVE BootstrapInv'
  BY <1>4, StartStep DEF CheckStore, Goto, BootstrapInv, TypeOK, Steps, Preparing, Unprepared, storeVars
<1>5. ASSUME NEW s \in Stores, NEW m \in Members, BootstrapStore(s, m) PROVE BootstrapInv'
  BY <1>5, StartStep DEF BootstrapStore, EnginesEmpty, Goto, BootstrapInv, TypeOK, Steps, Preparing, Unprepared
<1>6. ASSUME NEW s \in Stores, CheckPrepared(s) PROVE BootstrapInv'
  BY <1>6, StartStep DEF CheckPrepared, Goto, BootstrapInv, TypeOK, Steps, Preparing, Unprepared, storeVars
<1>7. ASSUME NEW s \in Stores, NEW m \in Members, CheckClusterBootstrapped(s, m) PROVE BootstrapInv'
  BY <1>7, StartStep DEF CheckClusterBootstrapped, Goto, BootstrapInv, TypeOK, Steps, Preparing, Unprepared, storeVars
<1>8. ASSUME NEW s \in Stores, NEW m \in Members, PrepareKv(s, m) PROVE BootstrapInv'
  <2> DEFINE new == Min(RegionNos \ (regions[s] \cup raftStates[s]))
  <2>1. /\ pc[s] = "alloc" /\ pc' = [pc EXCEPT ![s] = "prepareRaft"]
        /\ firstRegion' = [firstRegion EXCEPT ![s] = new]
        /\ prepare' = [prepare EXCEPT ![s] = new]
        /\ regions' = [regions EXCEPT ![s] = @ \cup {new}]
        /\ UNCHANGED <<ident, raftStates, call, late, running, root, cache, unheard>>
    BY <1>8 DEF PrepareKv, Goto, serverVars
  <2>2. new \in RegionNos \ regions[s] /\ new # 0
    BY <2>1, NewRegion DEF RegionNos
  <2> HIDE DEF new
  <2>3. prepare[s] = 0
    BY <2>1 DEF BootstrapInv, EngineInv, Unprepared
  <2>4. TypeOK'
    BY <2>1, <2>2 DEF BootstrapInv, TypeOK, Steps
  <2>5. EngineInv'
    BY <2>1, <2>2 DEF BootstrapInv, TypeOK, EngineInv, Preparing, Unprepared
  <2>6. \A t \in Stores : Kept(t)' = Kept(t) /\ (pc'[t] = "won" <=> pc[t] = "won")
    BY <2>1, <2>2, <2>3 DEF Kept, BootstrapInv, TypeOK, RegionNos
  <2>7. KeptInv'
    BY <2>1, <2>6 DEF BootstrapInv, KeptInv
  <2>8. QED
    BY <2>4, <2>5, <2>7 DEF BootstrapInv
<1>9. ASSUME NEW s \in Stores, PrepareRaft(s) PROVE BootstrapInv'
  <2>1. /\ pc[s] = "prepareRaft" /\ pc' = [pc EXCEPT ![s] = "bootstrap"]
        /\ raftStates' = [raftStates EXCEPT ![s] = @ \cup {firstRegion[s]}]
        /\ firstRegion[s] = prepare[s] /\ prepare[s] # 0 /\ prepare[s] \in regions[s]
        /\ UNCHANGED <<ident, prepare, regions, firstRegion, call, late, running, root, cache, unheard>>
    BY <1>9 DEF PrepareRaft, Goto, serverVars, BootstrapInv, EngineInv, Preparing
  <2>2. TypeOK'
    BY <2>1 DEF BootstrapInv, TypeOK, Steps
  <2>3. EngineInv'
    BY <2>1 DEF BootstrapInv, TypeOK, EngineInv, Preparing, Unprepared
  <2>4. KeptInv'
    BY <2>1 DEF BootstrapInv, TypeOK, KeptInv, Kept
  <2>5. QED
    BY <2>2, <2>3, <2>4 DEF BootstrapInv
<1>10. ASSUME NEW s \in Stores, NEW m \in Members, SendBootstrap(s, m) PROVE BootstrapInv'
  <2>1. /\ pc[s] = "bootstrap" /\ firstRegion[s] = prepare[s] /\ prepare[s] # 0
        /\ call' = [call EXCEPT ![s] = IF running[m] THEN @ ELSE m]
        /\ pc' = [pc EXCEPT ![s] = IF running[m] THEN "already" ELSE "wait"]
        /\ UNCHANGED <<storeVars, firstRegion, late, serverVars, unheard>>
    BY <1>10 DEF SendBootstrap, Goto, BootstrapInv, EngineInv, Preparing
  <2>2. QED
    BY <2>1, StartStep DEF BootstrapInv, TypeOK, Steps, Preparing, Unprepared, storeVars
<1>11. ASSUME NEW s \in Stores, BootstrapAnswered(s) PROVE BootstrapInv'
  <2>0. PICK ok \in BOOLEAN :
          /\ Outcome(ok) /\ CreateRoot(s, call[s], ok)
          /\ Goto(s, "wait", IF root = NoStore /\ ok THEN "won" ELSE "bootstrap")
          /\ unheard' = (unheard \/ ~ok)
    BY <1>11 DEF BootstrapAnswered
  <2>1. /\ call[s] \in Members /\ CreateRoot(s, call[s], ok)
        /\ pc[s] = "wait" /\ pc' = [pc EXCEPT ![s] = IF root = NoStore /\ ok THEN "won" ELSE "bootstrap"]
        /\ unheard' = (unheard \/ ~ok) /\ (~ok => root = NoStore)
        /\ call' = [call EXCEPT ![s] = NoMember]
        /\ UNCHANGED <<ident, prepare, regions, raftStates, firstRegion, late>>
    BY <1>11, <2>0 DEF BootstrapAnswered, Outcome, Goto, storeVars, BootstrapInv, TypeOK
  <2>2. /\ running' \in [Members -> BOOLEAN]
        /\ root' \in Stores \cup {NoStore}
        /\ cache' \in [Members -> (Stores \X RegionNos) \cup {NoRegion}]
        /\ root # NoStore => root' = root
        /\ root = NoStore => root' = s
        /\ \A n \in Members : cache'[n] \in {cache[n], NoRegion}
    BY <2>1, RootStep
  <2>3. TypeOK'
    BY <2>1, <2>2 DEF BootstrapInv, TypeOK, Steps
  <2>4. EngineInv'
    BY <2>1 DEF BootstrapInv, TypeOK, EngineInv, Preparing, Unprepared
  <2>5. \A n \in Members, t \in Stores, r \in RegionNos : cache'[n] = <<t, r>> => cache[n] = <<t, r>>
    BY <2>2 DEF NoRegion
  <2>6. /\ \A t \in Stores : Kept(t)' = Kept(t)
        /\ \A t \in Stores : t # s => pc'[t] = pc[t]
        /\ pc'[s] = IF root = NoStore /\ ok THEN "won" ELSE "bootstrap"
    BY <2>1 DEF BootstrapInv, TypeOK, Kept
  <2>7. CASE ok /\ root = NoStore
    <3>1. unheard' = unheard /\ root' = s /\ pc'[s] = "won"
      BY <2>1, <2>2, <2>6, <2>7 DEF BootstrapInv, TypeOK
    <3>2. \A t \in Stores : Kept(t) = {}
      BY <2>7 DEF BootstrapInv, KeptInv
    <3>3. KeptInv'
      BY <2>1, <2>5, <2>6, <3>1, <3>2 DEF BootstrapInv, KeptInv
    <3>4. QED
      BY <2>3, <2>4, <3>3 DEF BootstrapInv
  <2>8. CASE ~ok
    <3>1. unheard' /\ root' = s /\ root = NoStore /\ pc'[s] = "bootstrap"
      BY <2>1, <2>2, <2>6, <2>8
    <3>2. \A t \in Stores : Kept(t) = {}
      BY <3>1 DEF BootstrapInv, KeptInv
    <3>3. KeptInv'
      BY <2>1, <2>5, <2>6, <3>1, <3>2 DEF BootstrapInv, KeptInv
    <3>4. QED
      BY <2>3, <2>4, <3>3 DEF BootstrapInv
  <2>9. CASE ok /\ root # NoStore
    <3>1. unheard' = unheard /\ root' = root /\ pc'[s] = "bootstrap"
      BY <2>1, <2>2, <2>6, <2>9 DEF BootstrapInv, TypeOK
    <3>2. KeptInv'
      BY <2>1, <2>5, <2>6, <3>1 DEF BootstrapInv, KeptInv
    <3>3. QED
      BY <2>3, <2>4, <3>2 DEF BootstrapInv
  <2>10. QED
    BY <2>7, <2>8, <2>9
<1>12. ASSUME NEW s \in Stores, BootstrapTimeout(s) PROVE BootstrapInv'
  <2>1. /\ pc[s] = "wait" /\ pc' = [pc EXCEPT ![s] = "bootstrap"]
        /\ firstRegion[s] = prepare[s] /\ prepare[s] # 0
        /\ call[s] \in Members /\ late' = late \cup {<<s, call[s]>>}
        /\ call' = [call EXCEPT ![s] = NoMember]
        /\ UNCHANGED <<storeVars, firstRegion, serverVars, unheard>>
    BY <1>12 DEF BootstrapTimeout, Goto, BootstrapInv, TypeOK, EngineInv, Preparing
  <2>2. late' \subseteq Stores \X Members
    BY <2>1 DEF BootstrapInv, TypeOK
  <2>3. QED
    BY <2>1, <2>2, StartStep DEF BootstrapInv, TypeOK, Steps, Preparing, Unprepared, storeVars
<1>13. ASSUME NEW s \in Stores, NEW m \in Members, BootstrapUnheard(s, m) PROVE BootstrapInv'
  <2>1. /\ late' \subseteq late
        /\ unheard' = (unheard \/ root = NoStore)
        /\ UNCHANGED <<ident, prepare, regions, raftStates, pc, firstRegion, call>>
        /\ \E ok \in BOOLEAN : CreateRoot(s, m, ok)
    BY <1>13 DEF BootstrapUnheard, storeVars, nodeVars
  <2>2. /\ running' \in [Members -> BOOLEAN]
        /\ root' \in Stores \cup {NoStore}
        /\ cache' \in [Members -> (Stores \X RegionNos) \cup {NoRegion}]
        /\ root # NoStore => root' = root
        /\ root = NoStore => root' = s
        /\ \A n \in Members : cache'[n] \in {cache[n], NoRegion}
    BY <2>1, RootStep
  <2>3. TypeOK'
    BY <2>1, <2>2 DEF BootstrapInv, TypeOK
  <2>4. EngineInv'
    BY <2>1 DEF BootstrapInv, EngineInv
  <2>5. \A n \in Members, t \in Stores, r \in RegionNos : cache'[n] = <<t, r>> => cache[n] = <<t, r>>
    BY <2>2 DEF NoRegion
  <2>6. ~unheard' => ~unheard /\ root' = root
    BY <2>1, <2>2
  <2>7. \A t \in Stores : Kept(t)' = Kept(t)
    BY <2>1 DEF Kept
  <2>8. KeptInv'
    BY <2>1, <2>2, <2>5, <2>6, <2>7 DEF BootstrapInv, TypeOK, KeptInv
  <2>9. QED
    BY <2>3, <2>4, <2>8 DEF BootstrapInv
<1>14. ASSUME NEW s \in Stores, ClearPrepareBootstrapState(s) PROVE BootstrapInv'
  <2>1. /\ pc[s] = "won" /\ pc' = [pc EXCEPT ![s] = "put"]
        /\ prepare' = [prepare EXCEPT ![s] = 0]
        /\ root = s /\ prepare[s] \in regions[s] /\ Kept(s) = {}
        /\ UNCHANGED <<ident, regions, raftStates, firstRegion, call, late, running, root, cache, unheard>>
    BY <1>14 DEF ClearPrepareBootstrapState, Goto, serverVars, BootstrapInv, EngineInv, KeptInv, Preparing
  <2>2. TypeOK'
    BY <2>1 DEF BootstrapInv, TypeOK, Steps
  <2>3. EngineInv'
    BY <2>1 DEF BootstrapInv, TypeOK, EngineInv, Preparing, Unprepared
  <2>4. regions[s] = {prepare[s]} /\ Kept(s)' = {prepare[s]}
    BY <2>1 DEF Kept, BootstrapInv, TypeOK, RegionNos
  <2>5. \A t \in Stores : t # s => Kept(t)' = Kept(t) /\ pc'[t] = pc[t]
    BY <2>1 DEF Kept, BootstrapInv, TypeOK
  <2>6. ASSUME NEW t \in Stores
        PROVE  /\ Kept(t)' # {} => root = t
               /\ \A r, q \in Kept(t)' : r = q
               /\ pc'[t] # "won"
               /\ root = t => Kept(t)' # {} \/ unheard
    <3>1. CASE t = s
      BY <2>1, <2>4, <3>1 DEF BootstrapInv, TypeOK
    <3>2. CASE t # s
      BY <2>1, <2>5, <3>2 DEF BootstrapInv, KeptInv
    <3>3. QED
      BY <3>1, <3>2
  <2>7. \A m \in Members, t \in Stores, r \in RegionNos : cache'[m] = <<t, r>> => r \in Kept(t)'
    BY <2>1, <2>5 DEF BootstrapInv, KeptInv
  <2>8. KeptInv'
    BY <2>1, <2>6, <2>7 DEF KeptInv
  <2>9. QED
    BY <2>2, <2>3, <2>8 DEF BootstrapInv
<1>15. ASSUME NEW s \in Stores, NEW m \in Members, GetRegion(s, m) PROVE BootstrapInv'
  <2>1. /\ pc[s] = "already" /\ pc' = [pc EXCEPT ![s] = AfterGetRegion(s, m)]
        /\ firstRegion[s] = prepare[s] /\ prepare[s] # 0
        /\ UNCHANGED <<storeVars, firstRegion, call, late, serverVars, unheard>>
    BY <1>15 DEF GetRegion, Goto, BootstrapInv, EngineInv, Preparing
  \* A region the scheduler knows is kept, and no longer under PrepareBootstrapKey.
  <2>2. cache[m] # <<s, firstRegion[s]>>
    BY <2>1 DEF BootstrapInv, TypeOK, KeptInv, Kept
  <2>3. AfterGetRegion(s, m) \in {"bootstrap", "clear"}
    BY <2>2 DEF AfterGetRegion, BootstrapInv, TypeOK
  <2>4. QED
    BY <2>1, <2>3, StartStep DEF BootstrapInv, TypeOK, Steps, Preparing, Unprepared, storeVars
<1>16. ASSUME NEW s \in Stores, ClearPrepareBootstrap(s) PROVE BootstrapInv'
  <2>1. pc[s] \in {"clear", "clear2"} /\ firstRegion[s] = prepare[s] /\ prepare[s] # 0
        /\ UNCHANGED <<ident, firstRegion, call, late, running, root, cache, unheard>>
    BY <1>16 DEF ClearPrepareBootstrap, Goto, serverVars, BootstrapInv, EngineInv, Preparing
  <2>2. CASE Goto(s, "clear", "clear2") /\ DeleteRaftState(s)
    <3>1. TypeOK'
      BY <2>1, <2>2 DEF Goto, DeleteRaftState, BootstrapInv, TypeOK, Steps
    <3>2. EngineInv'
      BY <2>1, <2>2 DEF Goto, DeleteRaftState, BootstrapInv, TypeOK, EngineInv, Preparing, Unprepared
    <3>3. KeptInv'
      BY <2>1, <2>2 DEF Goto, DeleteRaftState, BootstrapInv, TypeOK, KeptInv, Kept
    <3>4. QED
      BY <3>1, <3>2, <3>3 DEF BootstrapInv
  <2>3. CASE Goto(s, "clear2", "put") /\ DeleteRegionState(s)
    <3>1. TypeOK'
      BY <2>1, <2>3 DEF Goto, DeleteRegionState, BootstrapInv, TypeOK, Steps
    <3>2. EngineInv'
      BY <2>1, <2>3 DEF Goto, DeleteRegionState, BootstrapInv, TypeOK, EngineInv, Preparing, Unprepared
    <3>3. \A t \in Stores : Kept(t)' = Kept(t) /\ (pc'[t] = "won" <=> pc[t] = "won")
      BY <2>1, <2>3 DEF Goto, DeleteRegionState, Kept, BootstrapInv, TypeOK, RegionNos
    <3>4. KeptInv'
      BY <2>1, <3>3 DEF BootstrapInv, KeptInv
    <3>5. QED
      BY <3>1, <3>2, <3>4 DEF BootstrapInv
  <2>4. QED
    BY <1>16, <2>2, <2>3 DEF ClearPrepareBootstrap
<1>17. ASSUME NEW s \in Stores, NEW m \in Members, PutStore(s, m) PROVE BootstrapInv'
  <2>1. /\ pc[s] = "put" /\ pc' = [pc EXCEPT ![s] = IF running[m] THEN "load" ELSE "start"]
        /\ prepare[s] = 0
        /\ UNCHANGED <<storeVars, firstRegion, call, late, serverVars, unheard>>
    BY <1>17 DEF PutStore, Goto, BootstrapInv, EngineInv, Unprepared
  <2>2. QED
    BY <2>1, StartStep DEF BootstrapInv, TypeOK, Steps, Preparing, Unprepared, storeVars
<1>18. ASSUME NEW s \in Stores, LoadPeers(s) PROVE BootstrapInv'
  <2>1. /\ pc[s] = "load" /\ pc' = [pc EXCEPT ![s] = "up"] /\ prepare[s] = 0
        /\ raftStates' = [raftStates EXCEPT ![s] = @ \cup regions[s]]
        /\ UNCHANGED <<ident, prepare, regions, firstRegion, call, late, running, root, cache, unheard>>
    BY <1>18 DEF LoadPeers, Goto, serverVars, BootstrapInv, EngineInv, Unprepared
  <2>2. TypeOK'
    BY <2>1 DEF BootstrapInv, TypeOK, Steps
  <2>3. EngineInv'
    BY <2>1 DEF BootstrapInv, TypeOK, EngineInv, Preparing, Unprepared
  <2>4. KeptInv'
    BY <2>1 DEF BootstrapInv, TypeOK, KeptInv, Kept
  <2>5. QED
    BY <2>2, <2>3, <2>4 DEF BootstrapInv
<1>19. ASSUME NEW s \in Stores, NEW m \in Members, RegionHeartbeat(s, m) PROVE BootstrapInv'
  <2>1. PICK r \in regions[s] : cache' = [cache EXCEPT ![m] = <<s, r>>]
    BY <1>19 DEF RegionHeartbeat
  <2>2. /\ pc[s] = "up" /\ prepare[s] = 0 /\ r \in RegionNos /\ r \in Kept(s)
        /\ UNCHANGED <<storeVars, nodeVars, call, late, running, root, unheard>>
    BY <1>19 DEF RegionHeartbeat, BootstrapInv, TypeOK, EngineInv, Unprepared, Kept, RegionNos
  <2>3. TypeOK'
    BY <2>1, <2>2 DEF BootstrapInv, TypeOK, storeVars, nodeVars
  <2>4. EngineInv'
    BY <2>2 DEF BootstrapInv, EngineInv, storeVars, nodeVars
  <2>5. \A t \in Stores : Kept(t)' = Kept(t) /\ pc'[t] = pc[t]
    BY <2>2 DEF Kept, storeVars, nodeVars
  <2>6. KeptInv'
    BY <2>1, <2>2, <2>5 DEF BootstrapInv, TypeOK, KeptInv
  <2>7. QED
    BY <2>3, <2>4, <2>6 DEF BootstrapInv
<1>20. ASSUME NEW s \in Stores, Crash(s) PROVE BootstrapInv'
  <2>1. /\ pc' = [pc EXCEPT ![s] = "start"] /\ firstRegion' = [firstRegion EXCEPT ![s] = 0]
        /\ late' = (IF call[s] = NoMember THEN late ELSE late \cup {<<s, call[s]>>})
        /\ call' = [call EXCEPT ![s] = NoMember]
        /\ unheard' = (unheard \/ pc[s] = "won")
        /\ UNCHANGED <<ident, prepare, regions, raftStates, running, root, cache>>
    BY <1>20 DEF Crash, storeVars, serverVars
  <2>2. TypeOK'
    BY <2>1 DEF BootstrapInv, TypeOK, Steps
  <2>3. EngineInv'
    BY <2>1 DEF BootstrapInv, TypeOK, EngineInv, Preparing, Unprepared
  <2>4. (~unheard' => ~unheard /\ pc[s] # "won") /\ (\A t \in Stores : Kept(t)' = Kept(t))
    BY <2>1 DEF Kept
  <2>5. \A t \in Stores : pc'[t] = "won" => pc[t] = "won" /\ t # s
    BY <2>1 DEF BootstrapInv, TypeOK
  <2>6. \A t \in Stores : pc[t] = "won" /\ t # s => pc'[t] = "won"
    BY <2>1 DEF BootstrapInv, TypeOK
  <2>7. KeptInv'
    BY <2>1, <2>4, <2>5, <2>6 DEF BootstrapInv, KeptInv
  <2>8. QED
    BY <2>2, <2>3, <2>7 DEF BootstrapInv
<1>21. QED
  BY <1>0, <1>1, <1>2, <1>3, <1>4, <1>5, <1>6, <1>7, <1>8, <1>9, <1>10, <1>11, <1>12, <1>13, <1>14,
     <1>15, <1>16, <1>17, <1>18, <1>19, <1>20 DEF Next, Local, Remote

-----------------------------------------------------------------------------
\* At most one first region is ever loaded, by however many stores, members,
\* crashes and lost answers there are (BootstrapCluster).
THEOREM OneFirstRegionHolds == Spec => []OneFirstRegion
<1>1. BootstrapInv => OneFirstRegion
  <2> SUFFICES ASSUME BootstrapInv, NEW s \in Stores, NEW t \in Stores, pc[s] = "up", pc[t] = "up",
                      NEW r \in regions[s], NEW q \in regions[t]
               PROVE  s = t /\ r = q
    BY DEF OneFirstRegion
  <2>1. r \in Kept(s) /\ q \in Kept(t)
    BY DEF BootstrapInv, TypeOK, EngineInv, Unprepared, Kept, RegionNos
  <2>2. QED
    BY <2>1 DEF BootstrapInv, KeptInv
<1>2. QED
  BY <1>1, InitBootstrap, StepBootstrap, PTL DEF Spec

\* A store that is up has the same regions in its two engines, wherever between
\* two writes it crashed before (PrepareBootstrapCluster, ClearPrepareBootstrap,
\* loadPeers).
THEOREM EnginesAgreeHolds == Spec => []EnginesAgree
<1>1. BootstrapInv => EnginesAgree
  BY DEF BootstrapInv, EngineInv, EnginesAgree
<1>2. QED
  BY <1>1, InitBootstrap, StepBootstrap, PTL DEF Spec

\* The store the cluster was created for keeps its first region, if it lived to
\* handle the answer of the Bootstrap that created the cluster.
THEOREM FirstRegionKeptHolds == Spec => []FirstRegionKept
<1>1. BootstrapInv => FirstRegionKept
  BY DEF BootstrapInv, TypeOK, EngineInv, KeptInv, Kept, Preparing, FirstRegionKept
<1>2. QED
  BY <1>1, InitBootstrap, StepBootstrap, PTL DEF Spec
=============================================================================
