--------------------------- MODULE RaftStoreProofs ---------------------------
(***************************************************************************)
(* What a store's workers do to its peer, for any history of the region's  *)
(* configurations, any channel capacity and any number of messages and     *)
(* restarts.  RoutingInv says which messages there can be, what the raft   *)
(* worker may have cached, and why it destroys the peer; from this follows *)
(* that it never destroys the group's member.                              *)
(***************************************************************************)
EXTENDS RaftStore, SequenceTheorems, TLAPS

USE RaftStoreAssumption

(* The messages there can be when the group's configuration is the v-th: what
   the store sends itself; Raft's messages, sent under an earlier configuration
   to the peer it has on this store; and gc messages, sent under one that has
   none, to the peer of the first configuration: no other asks for votes. *)
LocalKinds == {"none", "start", "tick", "storeStart", "storeTick"}
Msgs == [kind : LocalKinds \cup {"vote", "heartbeat", "gc"}, to : Nat, epoch : Nat]

FromGroup(v, m) ==
    /\ m.epoch \in 1 .. v
    /\ \/ m.kind \in {"vote", "heartbeat"} /\ m.to = MemberAt[m.epoch]
       \/ m.kind = "gc" /\ m.to = MemberAt[1] /\ MemberAt[m.epoch] = 0

Good(v) ==
    {m \in Msgs : IF m.to = 0 THEN m.kind \in LocalKinds ELSE FromGroup(v, m)}

FirstPeer == [id |-> MemberAt[1], epoch |-> 1]
PeersOf == {p \in [id : Nat, epoch : {0, 1}] : p.id # 0 /\ (p.epoch = 1 => p = FirstPeer)}

RaftSteps == {"idle", "handle", "tick", "start", "lock", "destroy", "forward"}
StoreSteps == {"idle", "schedule", "route", "create", "start", "resend"}

TypeOK ==
    /\ ver \in Versions
    /\ votes \subseteq {FirstPeer}
    /\ gcs \subseteq Good(ver)
    /\ localState \in [state : {"normal", "tombstone"}, epoch : Nat]
    /\ raftState \in BOOLEAN
    /\ router \in PeersOf \cup {NoPeer}
    /\ raftCh \in Seq(Good(ver)) /\ storeCh \in Seq(Good(ver)) /\ batch \in Seq(Good(ver))
    /\ rpc \in RaftSteps /\ cached \in {"none", "live", "stopped"}
    /\ spc \in StoreSteps /\ smsg \in Good(ver)

\* The message at the head of the batch makes the peer destroy itself.
Condemned == IsGcOf(Head(batch), router) \/ IsForLargerPeer(Head(batch), router)

RoutingInv ==
    /\ TypeOK
    /\ meta = router
    /\ rpc # "idle" => batch # <<>>
    /\ cached = "live" => router # NoPeer
    /\ rpc \in {"lock", "destroy"} => router # NoPeer /\ IsRemote(Head(batch)) /\ Condemned
    /\ spc = "create" => router = NoPeer
    /\ spc \in {"route", "create", "start", "resend"} => IsRemote(smsg)

-----------------------------------------------------------------------------
\* Configurations and their peers.
LEMMA Members ==
    /\ Len(MemberAt) \in Nat \ {0} /\ DOMAIN MemberAt = Versions /\ 1 \in Versions
    /\ \A v \in Versions : MemberAt[v] \in Nat
    /\ FirstPeer \in PeersOf /\ FirstPeer # NoPeer
<1>1. Len(MemberAt) \in Nat /\ DOMAIN MemberAt = 1 .. Len(MemberAt) /\ MemberAt \in [1 .. Len(MemberAt) -> Nat]
  BY LenProperties
<1>2. Len(MemberAt) # 0
  BY EmptySeq
<1>3. QED
  BY <1>1, <1>2 DEF Versions, FirstPeer, PeersOf, NoPeer

\* A message of an earlier configuration stays one.
LEMMA GoodGrows ==
    ASSUME NEW v \in Nat
    PROVE  Good(v) \subseteq Good(v + 1) /\ \A q \in Seq(Good(v)) : q \in Seq(Good(v + 1))
<1>1. Good(v) \subseteq Good(v + 1)
  BY DEF Good, FromGroup
<1>2. ASSUME NEW q \in Seq(Good(v)) PROVE q \in Seq(Good(v + 1))
  BY <1>1, SMT
<1>3. QED
  BY <1>1, <1>2

\* What a goroutine sends itself or another one.
LEMMA LocalGood ==
    ASSUME NEW v \in Nat, NEW k \in LocalKinds
    PROVE  Local(k) \in Good(v)
<1>1. Local(k) = [kind |-> k, to |-> 0, epoch |-> 0]
  BY DEF Local, Msg
<1>2. Local(k) \in Msgs /\ Local(k).to = 0 /\ Local(k).kind = k
  BY <1>1 DEF Msgs
<1>3. QED
  BY <1>2 DEF Good

\* The head and the rest of a channel or batch.
LEMMA Taking ==
    ASSUME NEW v \in Nat, NEW q \in Seq(Good(v)), q # <<>>
    PROVE  Head(q) \in Good(v) /\ Tail(q) \in Seq(Good(v)) /\ (Len(q) # 1 => Tail(q) # <<>>)
<1>1. Head(q) \in Good(v) /\ Tail(q) \in Seq(Good(v)) /\ Len(Tail(q)) = Len(q) - 1 /\ Len(q) \in Nat
  BY HeadTailProperties, LenProperties
<1>2. Tail(q) = <<>> => Len(Tail(q)) = 0
  BY EmptySeq
<1>3. QED
  BY <1>1, <1>2

\* A channel with one message more.
LEMMA Adding ==
    ASSUME NEW v \in Nat, NEW q \in Seq(Good(v)), NEW m \in Good(v)
    PROVE  Append(q, m) \in Seq(Good(v))
BY AppendProperties

\* Whoever is condemned is not the member the group has on this store now: a
\* gc message is sent once the peer is removed, which is for ever, and ids grow.
LEMMA CondemnedIsRemoved ==
    ASSUME RoutingInv, rpc \in {"lock", "destroy"}
    PROVE  MemberAt[ver] # router.id
<1> SUFFICES ASSUME MemberAt[ver] = router.id PROVE FALSE
  OBVIOUS
<1> DEFINE m == Head(batch)
<1>1. ver \in Versions /\ router \in PeersOf /\ IsRemote(m) /\ Condemned
  BY DEF RoutingInv, TypeOK
<1>2. m \in Good(ver)
  BY Taking DEF RoutingInv, TypeOK, Versions
<1>3. m.epoch \in 1 .. ver /\ m.epoch \in Versions /\ FromGroup(ver, m) /\ m.to \in Nat
  BY <1>1, <1>2, Members DEF Good, Msgs, IsRemote, FromGroup, Versions
<1>4. MemberAt[ver] # 0 /\ MemberAt[ver] \in Nat
  BY <1>1, Members DEF PeersOf
<1>5. CASE IsGcOf(m, router)
  <2>1. MemberAt[1] = MemberAt[ver] /\ MemberAt[m.epoch] = 0
    BY <1>3, <1>5 DEF IsGcOf, FromGroup
  <2>2. 1 < ver
    BY <1>1, <1>3, <1>4, <2>1 DEF Versions
  <2>3. \A x \in 1 .. ver : MemberAt[x] = MemberAt[ver]
    BY <1>1, <1>4, <2>1, <2>2, Members
  <2>4. QED
    BY <1>3, <1>4, <2>1, <2>3
<1>6. CASE IsForLargerPeer(m, router)
  <2>1. MemberAt[m.epoch] = m.to /\ m.to > MemberAt[ver]
    BY <1>3, <1>6 DEF IsForLargerPeer, FromGroup
  <2>2. m.epoch < ver
    BY <1>1, <1>3, <1>4, <2>1 DEF Versions
  <2>3. QED
    BY <1>1, <1>3, <1>4, <2>1, <2>2, Members
<1>7. QED
  BY <1>1, <1>5, <1>6 DEF Condemned
-----------------------------------------------------------------------------
\* The store comes up with its first peer.
LEMMA InitRouting == Init => RoutingInv
<1> SUFFICES ASSUME Init PROVE RoutingInv
  OBVIOUS
<1>1. Local("start") \in Good(1) /\ Local("storeStart") \in Good(1) /\ NoMsg \in Good(1)
  BY LocalGood DEF LocalKinds, NoMsg
<1>2. ver = 1 /\ 1 \in Versions /\ router = FirstPeer /\ FirstPeer \in PeersOf
  BY Members DEF Init, FirstPeer
<1>3. TypeOK
  BY <1>1, <1>2 DEF Init, TypeOK, RaftSteps, StoreSteps
<1>4. QED
  BY <1>2, <1>3, Members DEF Init, RoutingInv

\* The next message of the batch.
LEMMA NextMsgStep ==
    ASSUME RoutingInv, NextMsg, rpc # "idle"
    PROVE  /\ batch' \in Seq(Good(ver))
           /\ rpc' \in {"idle", "handle"}
           /\ rpc' = "handle" => batch' # <<>>
<1>1. batch \in Seq(Good(ver)) /\ batch # <<>> /\ ver \in Nat
  BY DEF RoutingInv, TypeOK, Versions
<1>2. QED
  BY <1>1, Taking DEF NextMsg

\* getPeerState finds the registered peer unless it was cached before.
LEMMA PeerStateIs ==
    ASSUME RoutingInv
    PROVE  /\ PeerState \in {"none", "live", "stopped"}
           /\ PeerState = "live" => router # NoPeer
BY DEF PeerState, RoutingInv, TypeOK

\* Every step of the group, and every message that comes in.
LEMMA GroupStep ==
    ASSUME RoutingInv, ConfChange \/ HandleStaleMsg \/ (\E m \in Sendable : SendRaftMessage(m))
    PROVE  RoutingInv'
<1>0. ver \in Nat /\ ver \in Versions
  BY DEF RoutingInv, TypeOK, Versions
<1>1. CASE ConfChange
  <2>1. /\ ver' = ver + 1 /\ ver' \in Versions
        /\ UNCHANGED <<votes, gcs, localState, raftState, router, meta, raftCh, storeCh, rpc, batch, cached, spc, smsg>>
    BY <1>1 DEF ConfChange, disk, table, channels, raftWorker, storeWorker
  <2>2. Good(ver) \subseteq Good(ver + 1) /\ \A q \in Seq(Good(ver)) : q \in Seq(Good(ver + 1))
    BY <1>0, GoodGrows
  <2>3. TypeOK'
    BY <2>1, <2>2 DEF RoutingInv, TypeOK
  <2>4. QED
    BY <2>1, <2>3 DEF RoutingInv, Condemned
<1>2. CASE HandleStaleMsg
  <2>1. PICK v \in votes : gcs' = gcs \cup {Msg("gc", v.id, ver)}
    BY <1>2 DEF HandleStaleMsg
  <2>2. v = FirstPeer /\ MemberAt[ver] = 0
    BY <1>2 DEF HandleStaleMsg, RoutingInv, TypeOK
  <2>3. Msg("gc", v.id, ver) \in Good(ver)
    BY <1>0, <2>2, Members DEF Msg, Good, Msgs, LocalKinds, FromGroup, FirstPeer
  <2>4. UNCHANGED <<ver, votes, localState, raftState, router, meta, raftCh, storeCh, rpc, batch, cached, spc, smsg>>
    BY <1>2 DEF HandleStaleMsg, disk, table, channels, raftWorker, storeWorker
  <2>5. TypeOK'
    BY <2>1, <2>3, <2>4 DEF RoutingInv, TypeOK
  <2>6. QED
    BY <2>4, <2>5 DEF RoutingInv, Condemned
<1>3. ASSUME NEW m \in Sendable, SendRaftMessage(m) PROVE RoutingInv'
  <2>1. m \in Good(ver)
    <3>1. CASE m \in gcs
      BY <3>1 DEF RoutingInv, TypeOK
    <3>2. CASE m \notin gcs
      <4>1. PICK kind \in {"vote", "heartbeat"}, w \in 1 .. ver : MemberAt[w] # 0 /\ m = Msg(kind, MemberAt[w], w)
        BY <1>3, <3>2 DEF Sendable
      <4>2. w \in Versions /\ MemberAt[w] \in Nat
        BY <1>0, Members DEF Versions
      <4>3. QED
        BY <4>1, <4>2 DEF Msg, Good, Msgs, LocalKinds, FromGroup
    <3>3. QED
      BY <3>1, <3>2
  <2>2. UNCHANGED <<ver, votes, gcs, localState, raftState, router, meta, rpc, batch, cached, spc, smsg>>
    BY <1>3 DEF SendRaftMessage, group, disk, table, raftWorker, storeWorker
  <2>3. raftCh' \in Seq(Good(ver)) /\ storeCh' \in Seq(Good(ver))
    <3>1. raftCh \in Seq(Good(ver)) /\ storeCh \in Seq(Good(ver))
      BY DEF RoutingInv, TypeOK
    <3>2. Append(raftCh, m) \in Seq(Good(ver)) /\ Append(storeCh, m) \in Seq(Good(ver))
      BY <1>0, <2>1, <3>1, Adding
    <3>3. QED
      BY <1>3, <3>1, <3>2 DEF SendRaftMessage, PushRaft, PushStore
  <2>4. TypeOK'
    BY <2>2, <2>3 DEF RoutingInv, TypeOK
  <2>5. QED
    BY <2>2, <2>4 DEF RoutingInv, Condemned
<1>4. QED
  BY <1>1, <1>2, <1>3

\* Every step of the raft worker.
LEMMA RaftWorkerStep == ASSUME RoutingInv, RaftWorker PROVE RoutingInv'
<1>0. ver \in Nat /\ raftCh \in Seq(Good(ver)) /\ batch \in Seq(Good(ver))
  BY DEF RoutingInv, TypeOK, Versions
<1> USE DEF group, disk, table, channels, storeWorker
<1>1. CASE RaftWorkerReceive
  <2>1. /\ batch' = raftCh /\ batch' # <<>> /\ raftCh' = <<>> /\ cached' = "none" /\ rpc' = "handle"
        /\ UNCHANGED <<group, disk, table, storeCh, storeWorker>>
    BY <1>1 DEF RaftWorkerReceive, FreshCache
  <2>2. raftCh' \in Seq(Good(ver))
    BY <2>1
  <2>3. TypeOK'
    BY <1>0, <2>1, <2>2 DEF RoutingInv, TypeOK, RaftSteps
  <2>4. QED
    BY <2>1, <2>3 DEF RoutingInv
<1>2. CASE DropMsg
  <2>1. rpc = "handle" /\ NextMsg /\ UNCHANGED <<group, disk, table, channels, cached, storeWorker>>
    BY <1>2 DEF DropMsg
  <2>2. batch' \in Seq(Good(ver)) /\ rpc' \in {"idle", "handle"} /\ (rpc' = "handle" => batch' # <<>>)
    BY <2>1, NextMsgStep
  <2>3. TypeOK'
    BY <2>1, <2>2 DEF RoutingInv, TypeOK, RaftSteps
  <2>4. QED
    BY <2>1, <2>2, <2>3 DEF RoutingInv
<1>3. CASE OnTick
  <2>1. /\ rpc = "handle" /\ cached' = PeerState /\ votes' \subseteq votes \cup {router}
        /\ votes' = votes \/ router.epoch > 0
        /\ NextMsg \/ (rpc' = "tick" /\ batch' = batch)
        /\ UNCHANGED <<ver, gcs, disk, table, channels, storeWorker>>
    BY <1>3 DEF OnTick
  <2>2. votes' \subseteq {FirstPeer}
    BY <2>1 DEF RoutingInv, TypeOK, PeersOf, NoPeer
  <2>3. batch' \in Seq(Good(ver)) /\ rpc' \in {"idle", "handle", "tick"} /\ (rpc' # "idle" => batch' # <<>>)
    BY <1>0, <2>1, NextMsgStep DEF RoutingInv
  <2>4. TypeOK'
    BY <2>1, <2>2, <2>3, PeerStateIs DEF RoutingInv, TypeOK, RaftSteps
  <2>5. QED
    BY <2>1, <2>3, <2>4, PeerStateIs DEF RoutingInv
<1>4. CASE StartTicker
  <2>1. /\ rpc = "handle" /\ cached' = PeerState /\ rpc' = "start"
        /\ UNCHANGED <<group, disk, table, channels, batch, storeWorker>>
    BY <1>4 DEF StartTicker
  <2>2. TypeOK'
    BY <2>1, PeerStateIs DEF RoutingInv, TypeOK, RaftSteps
  <2>3. QED
    BY <2>1, <2>2, PeerStateIs DEF RoutingInv
<1>5. CASE TickDriverReceive
  <2>1. rpc \in {"tick", "start"} /\ NextMsg
        /\ UNCHANGED <<group, disk, router, meta, channels, cached, storeWorker>>
    BY <1>5 DEF TickDriverReceive
  <2>2. batch' \in Seq(Good(ver)) /\ rpc' \in {"idle", "handle"} /\ (rpc' = "handle" => batch' # <<>>)
    BY <2>1, NextMsgStep
  <2>3. TypeOK'
    BY <2>1, <2>2 DEF RoutingInv, TypeOK, RaftSteps
  <2>4. QED
    BY <2>1, <2>2, <2>3 DEF RoutingInv
<1>6. CASE OnRaftMsg
  <2>1. /\ rpc = "handle" /\ PeerState # "none" /\ cached' = PeerState
        /\ Head(batch).kind \in {"vote", "heartbeat", "gc"}
        /\ UNCHANGED <<group, disk, table, channels, storeWorker>>
    BY <1>6 DEF OnRaftMsg
  <2>2. CASE ~Stopped /\ (IsGcOf(Head(batch), router) \/ IsForLargerPeer(Head(batch), router))
    <3>1. rpc' = "lock" /\ batch' = batch /\ batch # <<>>
      BY <1>6, <2>2 DEF OnRaftMsg, RoutingInv
    <3>2. router # NoPeer
      BY <2>1, <2>2, PeerStateIs DEF Stopped
    <3>3. IsRemote(Head(batch))
      BY <1>0, <2>1, <3>1, Taking DEF Good, LocalKinds, FromGroup, IsRemote
    <3>4. TypeOK'
      BY <2>1, <3>1, PeerStateIs DEF RoutingInv, TypeOK, RaftSteps
    <3>5. QED
      BY <2>1, <2>2, <3>1, <3>2, <3>3, <3>4 DEF RoutingInv, Condemned
  <2>3. CASE ~(~Stopped /\ (IsGcOf(Head(batch), router) \/ IsForLargerPeer(Head(batch), router)))
    <3>1. NextMsg
      BY <1>6, <2>3 DEF OnRaftMsg
    <3>2. batch' \in Seq(Good(ver)) /\ rpc' \in {"idle", "handle"} /\ (rpc' = "handle" => batch' # <<>>)
      BY <2>1, <3>1, NextMsgStep
    <3>3. TypeOK'
      BY <2>1, <3>2, PeerStateIs DEF RoutingInv, TypeOK, RaftSteps
    <3>4. QED
      BY <2>1, <3>2, <3>3, PeerStateIs DEF RoutingInv
  <2>4. QED
    BY <2>2, <2>3
<1>7. CASE DestroyKv
  <2>1. /\ rpc = "lock" /\ rpc' = "destroy"
        /\ localState' = [state |-> "tombstone", epoch |-> router.epoch]
        /\ UNCHANGED <<group, raftState, router, meta, channels, batch, cached, storeWorker>>
    BY <1>7 DEF DestroyKv
  <2>2. TypeOK'
    BY <2>1 DEF RoutingInv, TypeOK, RaftSteps, PeersOf, NoPeer
  <2>3. QED
    BY <2>1, <2>2 DEF RoutingInv, Condemned
<1>8. CASE DestroyRaft
  <2>1. /\ rpc = "destroy" /\ raftState' = FALSE
        /\ router' = NoPeer /\ meta' = NoPeer /\ cached' = "stopped"
        /\ NextMsg \/ (rpc' = "forward" /\ batch' = batch)
        /\ UNCHANGED <<group, localState, channels, storeWorker>>
    BY <1>8 DEF DestroyRaft
  <2>2. batch' \in Seq(Good(ver)) /\ rpc' \in {"idle", "handle", "forward"} /\ (rpc' # "idle" => batch' # <<>>)
    BY <1>0, <2>1, NextMsgStep DEF RoutingInv
  <2>3. TypeOK'
    BY <2>1, <2>2 DEF RoutingInv, TypeOK, RaftSteps
  <2>4. QED
    BY <2>1, <2>2, <2>3 DEF RoutingInv
<1>9. CASE ForwardToStore
  <2>1. /\ rpc = "forward" /\ storeCh' = Append(storeCh, Head(batch)) /\ NextMsg
        /\ UNCHANGED <<group, disk, table, raftCh, cached, storeWorker>>
    BY <1>9 DEF ForwardToStore, PushStore
  <2>2. batch' \in Seq(Good(ver)) /\ rpc' \in {"idle", "handle"} /\ (rpc' = "handle" => batch' # <<>>)
    BY <2>1, NextMsgStep
  <2>3. storeCh' \in Seq(Good(ver))
    <3>1. Head(batch) \in Good(ver)
      BY <1>0, <2>1, Taking DEF RoutingInv
    <3>2. QED
      BY <2>1, <3>1 DEF RoutingInv, TypeOK
  <2>4. TypeOK'
    BY <2>1, <2>2, <2>3 DEF RoutingInv, TypeOK, RaftSteps
  <2>5. QED
    BY <2>1, <2>2, <2>4 DEF RoutingInv
<1>10. QED
  BY <1>1, <1>2, <1>3, <1>4, <1>5, <1>6, <1>7, <1>8, <1>9 DEF RaftWorker

\* Every step of the store worker.
LEMMA StoreWorkerStep == ASSUME RoutingInv, StoreWorker PROVE RoutingInv'
<1>0. ver \in Nat /\ storeCh \in Seq(Good(ver)) /\ raftCh \in Seq(Good(ver)) /\ smsg \in Good(ver)
      /\ NoMsg \in Good(ver) /\ Local("start") \in Good(ver)
  BY LocalGood DEF LocalKinds, RoutingInv, TypeOK, Versions, NoMsg
<1> USE DEF group, disk, table, channels, raftWorker
<1>1. CASE ScheduleRead
  <2>1. /\ storeCh # <<>> /\ storeCh' = Tail(storeCh) /\ spc' = "schedule"
        /\ UNCHANGED <<group, disk, table, raftCh, raftWorker, smsg>>
    BY <1>1 DEF ScheduleRead
  <2>2. TypeOK'
    BY <1>0, <2>1, Taking DEF RoutingInv, TypeOK, StoreSteps
  <2>3. QED
    BY <2>1, <2>2 DEF RoutingInv, Condemned
<1>2. CASE ScheduleWrite
  <2>1. spc' = "idle" /\ UNCHANGED <<group, disk, table, channels, raftWorker, smsg>>
    BY <1>2 DEF ScheduleWrite
  <2>2. TypeOK'
    BY <2>1 DEF RoutingInv, TypeOK, StoreSteps
  <2>3. QED
    BY <2>1, <2>2 DEF RoutingInv, Condemned
<1>3. CASE StoreWorkerReceive
  <2>1. /\ storeCh # <<>> /\ storeCh' = Tail(storeCh) /\ spc' = "route" /\ smsg' = Head(storeCh)
        /\ IsRemote(smsg')
        /\ UNCHANGED <<group, disk, table, raftCh, raftWorker>>
    BY <1>3 DEF StoreWorkerReceive
  <2>2. TypeOK'
    BY <1>0, <2>1, Taking DEF RoutingInv, TypeOK, StoreSteps
  <2>3. QED
    BY <2>1, <2>2 DEF RoutingInv, Condemned, IsRemote
<1>4. CASE RouteToPeer
  <2>1. /\ raftCh' = Append(raftCh, smsg) /\ spc' = "idle" /\ smsg' = NoMsg
        /\ UNCHANGED <<group, disk, table, storeCh, raftWorker>>
    BY <1>4 DEF RouteToPeer, PushRaft
  <2>2. raftCh' \in Seq(Good(ver))
    BY <1>0, <2>1, Adding
  <2>3. TypeOK'
    BY <1>0, <2>1, <2>2 DEF RoutingInv, TypeOK, StoreSteps
  <2>4. QED
    BY <2>1, <2>3 DEF RoutingInv, Condemned
<1>5. CASE CheckStoreMsg
  <2>1. /\ spc = "route" /\ router = NoPeer
        /\ (spc' = "create" /\ smsg' = smsg) \/ (spc' = "idle" /\ smsg' = NoMsg)
        /\ UNCHANGED <<group, disk, table, channels, raftWorker>>
    BY <1>5 DEF CheckStoreMsg
  <2>2. TypeOK'
    BY <1>0, <2>1 DEF RoutingInv, TypeOK, StoreSteps
  <2>3. QED
    BY <2>1, <2>2 DEF RoutingInv, Condemned, IsRemote
<1>6. CASE MaybeCreatePeer
  <2>1. /\ spc = "create" /\ spc' = "start" /\ IsRemote(smsg) /\ router = NoPeer
        /\ router' = [id |-> smsg.to, epoch |-> 0] /\ meta' = router'
        /\ UNCHANGED <<group, disk, channels, raftWorker, smsg>>
    BY <1>6 DEF MaybeCreatePeer, RoutingInv
  <2>2. router' \in PeersOf /\ router' # NoPeer
    BY <1>0, <2>1 DEF PeersOf, NoPeer, Good, Msgs, IsRemote
  <2>3. TypeOK'
    BY <2>1, <2>2 DEF RoutingInv, TypeOK, StoreSteps
  <2>4. rpc \notin {"lock", "destroy"}
    BY <2>1 DEF RoutingInv
  <2>5. QED
    BY <2>1, <2>2, <2>3, <2>4 DEF RoutingInv, IsRemote
<1>7. CASE SendStart
  <2>1. /\ raftCh' = Append(raftCh, Local("start")) /\ spc = "start" /\ spc' = "resend"
        /\ UNCHANGED <<group, disk, router, meta, storeCh, raftWorker, smsg>>
    BY <1>7 DEF SendStart, PushRaft
  <2>2. raftCh' \in Seq(Good(ver))
    BY <1>0, <2>1, Adding
  <2>3. TypeOK'
    BY <2>1, <2>2 DEF RoutingInv, TypeOK, StoreSteps
  <2>4. QED
    BY <2>1, <2>3 DEF RoutingInv, Condemned, IsRemote
<1>8. CASE Resend
  <2>1. /\ raftCh' \in {raftCh, Append(raftCh, smsg)} /\ spc' = "idle" /\ smsg' = NoMsg
        /\ UNCHANGED <<group, disk, table, storeCh, raftWorker>>
    BY <1>8 DEF Resend, PushRaft
  <2>2. raftCh' \in Seq(Good(ver))
    <3>1. Append(raftCh, smsg) \in Seq(Good(ver))
      BY <1>0, Adding
    <3>2. QED
      BY <1>0, <2>1, <3>1
  <2>3. TypeOK'
    BY <1>0, <2>1, <2>2 DEF RoutingInv, TypeOK, StoreSteps
  <2>4. QED
    BY <2>1, <2>3 DEF RoutingInv, Condemned
<1>9. QED
  BY <1>1, <1>2, <1>3, <1>4, <1>5, <1>6, <1>7, <1>8 DEF StoreWorker

\* Every step keeps RoutingInv.
LEMMA StepRouting == RoutingInv /\ [Next]_vars => RoutingInv'
<1> SUFFICES ASSUME RoutingInv, [Next]_vars PROVE RoutingInv'
  OBVIOUS
<1>0. ver \in Nat /\ storeCh \in Seq(Good(ver)) /\ raftCh \in Seq(Good(ver))
  BY DEF RoutingInv, TypeOK, Versions
<1>1. CASE UNCHANGED vars
  BY <1>1 DEF vars, group, disk, table, channels, raftWorker, storeWorker, RoutingInv, TypeOK, Condemned
<1>2. CASE TickDriver
  <2>1. UNCHANGED <<ver, votes, gcs, localState, raftState, router, meta, rpc, batch, cached, spc, smsg>>
    BY <1>2 DEF TickDriver, Timer, SendTick, SendStoreTick, group, disk, table, raftWorker, storeWorker
  <2>2. raftCh' \in {raftCh, Append(raftCh, Local("tick"))}
        /\ storeCh' \in {storeCh, Append(storeCh, Local("storeTick"))}
    BY <1>2 DEF TickDriver, Timer, SendTick, SendStoreTick, PushRaft, PushStore, channels
  <2>3. Local("tick") \in Good(ver) /\ Local("storeTick") \in Good(ver)
    BY <1>0, LocalGood DEF LocalKinds
  <2>4. raftCh' \in Seq(Good(ver)) /\ storeCh' \in Seq(Good(ver))
    <3>1. Append(raftCh, Local("tick")) \in Seq(Good(ver)) /\ Append(storeCh, Local("storeTick")) \in Seq(Good(ver))
      BY <1>0, <2>3, Adding
    <3>2. QED
      BY <1>0, <2>2, <3>1
  <2>5. TypeOK'
    BY <2>1, <2>4 DEF RoutingInv, TypeOK
  <2>6. QED
    BY <2>1, <2>5 DEF RoutingInv, Condemned
<1>3. CASE Restart
  <2>1. /\ router' \in {FirstPeer, NoPeer} /\ meta' = router'
        /\ raftState' \in BOOLEAN
        /\ raftCh' \in {<<>>, <<Local("start")>>} /\ storeCh' = <<Local("storeStart")>>
        /\ rpc' = "idle" /\ batch' = <<>> /\ cached' = "none" /\ spc' = "idle" /\ smsg' = NoMsg
        /\ UNCHANGED <<ver, votes, gcs, localState>>
    BY <1>3 DEF Restart, ClearStaleMeta, FirstPeer, group
  <2>2. Local("start") \in Good(ver) /\ Local("storeStart") \in Good(ver) /\ NoMsg \in Good(ver)
    BY <1>0, LocalGood DEF LocalKinds, NoMsg
  <2>3. raftCh' \in Seq(Good(ver)) /\ storeCh' \in Seq(Good(ver)) /\ batch' \in Seq(Good(ver))
    <3>1. <<>> \in Seq(Good(ver)) /\ <<Local("start")>> \in Seq(Good(ver))
          /\ <<Local("storeStart")>> \in Seq(Good(ver))
      BY <2>2
    <3>2. QED
      BY <2>1, <3>1
  <2>4. TypeOK'
    BY <2>1, <2>2, <2>3, Members DEF RoutingInv, TypeOK, RaftSteps, StoreSteps
  <2>5. QED
    BY <2>1, <2>4 DEF RoutingInv
<1>4. QED
  BY <1>1, <1>2, <1>3, GroupStep, RaftWorkerStep, StoreWorkerStep DEF Next

-----------------------------------------------------------------------------
\* destroyPeer never finds storeMeta or the router without the peer it destroys.
THEOREM NoMetaCorruptionHolds == Spec => []NoMetaCorruption
<1>1. RoutingInv => NoMetaCorruption
  BY DEF RoutingInv, NoMetaCorruption
<1>2. QED
  BY <1>1, InitRouting, StepRouting, PTL DEF Spec

\* A peer that destroys itself is not the group's member by the time it is gone,
\* whatever configurations the group went through and however old the message
\* (handleGCPeerMsg, checkMessage).
THEOREM OnlyRemovedDestroyedHolds == Spec => OnlyRemovedDestroyed
<1>1. RoutingInv /\ [Next]_vars =>
        [rpc = "destroy" /\ crashes' = crashes => rpc' = rpc \/ MemberAt[ver] # router.id]_vars
  BY CondemnedIsRemoved
<1>2. QED
  BY <1>1, InitRouting, StepRouting, PTL DEF Spec, OnlyRemovedDestroyed

\* A destroyed peer leaves no Raft state behind, wherever between the writes to
\* the two engines the store dies (Destroy, loadPeers).
THEOREM TombstoneCleanHolds == Spec => []TombstoneClean
<1> DEFINE Inv == RoutingInv /\ TombstoneClean
<1>1. Init => Inv
  BY InitRouting DEF Init, TombstoneClean
<1>2. Inv /\ [Next]_vars => Inv'
  <2> SUFFICES ASSUME RoutingInv, TombstoneClean, [Next]_vars PROVE TombstoneClean'
    BY StepRouting
  <2> USE DEF group, disk, table, channels, raftWorker, storeWorker
  <2>1. CASE UNCHANGED <<localState, raftState, rpc>>
    BY <2>1 DEF TombstoneClean
  <2>2. CASE ConfChange \/ HandleStaleMsg \/ (\E m \in Sendable : SendRaftMessage(m)) \/ StoreWorker \/ TickDriver
    BY <2>1, <2>2 DEF ConfChange, HandleStaleMsg, SendRaftMessage, StoreWorker, ScheduleRead, ScheduleWrite,
                      StoreWorkerReceive, RouteToPeer, CheckStoreMsg, MaybeCreatePeer, SendStart, Resend,
                      TickDriver, Timer, SendTick, SendStoreTick
  <2>3. CASE RaftWorker
    <3>1. CASE DestroyKv \/ DestroyRaft
      BY <3>1 DEF DestroyKv, DestroyRaft, TombstoneClean
    <3>2. CASE ~(DestroyKv \/ DestroyRaft)
      <4>1. UNCHANGED <<localState, raftState>> /\ rpc # "destroy"
        BY <2>3, <3>2 DEF RaftWorker, RaftWorkerReceive, DropMsg, OnTick, StartTicker, TickDriverReceive,
                          OnRaftMsg, ForwardToStore
      <4>2. QED
        BY <4>1 DEF TombstoneClean
    <3>3. QED
      BY <3>1, <3>2
  <2>4. CASE Restart
    BY <2>4 DEF Restart, ClearStaleMeta, TombstoneClean, RoutingInv, TypeOK
  <2>5. QED
    BY <2>1, <2>2, <2>3, <2>4 DEF Next, vars
<1>3. QED
  BY <1>1, <1>2, PTL DEF Spec
==============================================================================
