----------------------------- MODULE RaftStore -----------------------------
(***************************************************************************)
(* One store of kv/raftstore and its peer of one region: the router, the   *)
(* raft worker, the store worker, the tick driver and the goroutines that  *)
(* bring in messages, which meet in two bounded channels, an unbuffered    *)
(* one, the router's map and storeMeta.  Elsewhere the region's group goes *)
(* through the configurations MemberAt: the peer this store should have at *)
(* each version of the configuration, 0 for none.  Messages of any earlier *)
(* configuration may arrive at any time, in any order, more than once.     *)
(*                                                                         *)
(* A registered peer is the only one of the store that is not stopped.     *)
(* Only the raft worker stops it, so what it caches for a batch is the     *)
(* registered peer ("live"), a stopped one, or nothing.                    *)
(***************************************************************************)
EXTENDS Naturals, Sequences

CONSTANTS
    MemberAt,    \* version of the configuration -> peer of this store, or 0
    Cap,         \* bound: capacity of raftCh and of the store's channel
    Interval,    \* ticks between two store heartbeats
    MaxInFlight, \* bound: messages of other stores not yet handled
    MaxCrashes   \* bound: restarts of the store

ASSUME RaftStoreAssumption ==
    /\ MemberAt \in Seq(Nat) /\ MemberAt # <<>> /\ MemberAt[1] # 0
    \* ids are allocated once and grow, and a removed peer does not come back
    /\ \A v, w \in DOMAIN MemberAt : v < w /\ MemberAt[w] # 0 =>
          /\ MemberAt[v] <= MemberAt[w]
          /\ MemberAt[v] = MemberAt[w] => \A x \in v .. w : MemberAt[x] = MemberAt[w]
    /\ Cap \in Nat \ {0} /\ Interval \in Nat \ {0} /\ MaxInFlight \in Nat /\ MaxCrashes \in Nat

VARIABLES
    ver,         \* version of the group's configuration
    votes,       \* peers of this store that asked for votes, with their epoch
    gcs,         \* gc messages sent to this store's peers
    localState,  \* Kv engine: the RegionLocalState
    raftState,   \* Raft engine: there is a RaftLocalState
    router,      \* router.peers
    meta,        \* storeMeta.regions
    metaLock,    \* who holds storeMeta's lock
    started,     \* the registered peer's ticker is scheduled
    raftCh, storeCh,
    rpc, batch, cached,          \* raft worker: where it is, msgs, peerStateMap
    spc, smsg, age,              \* store worker, and the ticks since it read the clock
    dpc, ticking, due,           \* tick driver: regions, and ticks to the heartbeat
    crashes

group == <<ver, votes, gcs>>
disk == <<localState, raftState>>
table == <<router, meta, metaLock, started>>
channels == <<raftCh, storeCh>>
raftWorker == <<rpc, batch, cached>>
storeWorker == <<spc, smsg, age>>
driver == <<dpc, ticking, due>>
vars == <<group, disk, table, channels, raftWorker, storeWorker, driver, crashes>>

NoPeer == [id |-> 0, epoch |-> 0]
Versions == 1 .. Len(MemberAt)
Msg(kind, to, epoch) == [kind |-> kind, to |-> to, epoch |-> epoch]
Local(kind) == Msg(kind, 0, 0)
NoMsg == Local("none")
IsRemote(m) == m.to # 0

(* A leader's heartbeats carry its commit index (sendHeartbeat), and the log of
   a peer that can lead begins committed at RaftInitLogIndex.  So
   only requests for votes are initial messages. *)
HeartbeatCommit == 5
IsInitialMsg(m) == m.kind = "vote" \/ (m.kind = "heartbeat" /\ HeartbeatCommit = 0)

(* What members of the group send to this store's: the other messages of Raft
   are treated as heartbeats are. *)
Sendable ==
    gcs \cup {Msg(kind, MemberAt[v], v) : kind \in {"vote", "heartbeat"}, v \in {w \in 1 .. ver : MemberAt[w] # 0}}

(* The store comes up with its peer of the first configuration: Start is sent
   to the store worker and to each loaded peer. *)
Init ==
    /\ ver = 1 /\ votes = {} /\ gcs = {}
    /\ localState = [state |-> "normal", epoch |-> 1] /\ raftState = TRUE
    /\ router = [id |-> MemberAt[1], epoch |-> 1] /\ meta = router
    /\ metaLock = "free" /\ started = FALSE
    /\ raftCh = <<Local("start")>> /\ storeCh = <<Local("storeStart")>>
    /\ rpc = "idle" /\ batch = <<>> /\ cached = "none"
    /\ spc = "idle" /\ smsg = NoMsg /\ age = 0
    /\ dpc = "select" /\ ticking = FALSE /\ due = 0
    /\ crashes = 0

-----------------------------------------------------------------------------
(* The region's group. *)

ConfChange ==
    /\ ver + 1 \in Versions
    /\ ver' = ver + 1
    /\ UNCHANGED <<votes, gcs, disk, table, channels, raftWorker, storeWorker, driver, crashes>>

(* Another store's checkMessage: a request for votes of an older epoch, from a
   store without a peer in the region, is answered with a gc message. *)
HandleStaleMsg ==
    /\ MemberAt[ver] = 0
    /\ \E v \in votes :
        /\ v.epoch < ver
        /\ Msg("gc", v.id, ver) \notin gcs
        /\ gcs' = gcs \cup {Msg("gc", v.id, ver)}
    /\ UNCHANGED <<ver, votes, disk, table, channels, raftWorker, storeWorker, driver, crashes>>

-----------------------------------------------------------------------------
(* router.send: look up the peer, then push into the channel, which blocks. *)

PushRaft(m) == Len(raftCh) < Cap /\ raftCh' = Append(raftCh, m)
PushStore(m) == Len(storeCh) < Cap /\ storeCh' = Append(storeCh, m)

(* SendRaftMessage, on a goroutine of its own: to the peer, or to the store
   worker if there is none.  The peer may go while the message is pushed; as
   the raft worker looks the peer up again, that is the same as its going
   while the message is in the channel. *)
SendRaftMessage(m) ==
    /\ Len(SelectSeq(raftCh \o batch \o storeCh \o <<smsg>>, IsRemote)) < MaxInFlight
    /\ \/ router # NoPeer /\ PushRaft(m) /\ UNCHANGED storeCh
       \/ router = NoPeer /\ PushStore(m) /\ UNCHANGED raftCh
    /\ UNCHANGED <<group, disk, table, raftWorker, storeWorker, driver, crashes>>

-----------------------------------------------------------------------------
(* The raft worker. *)

(* The batch is what the channel holds; its messages share one peerStateMap. *)
KeptCache == cached   \* mutant: the map outlives the batch
FreshCache == "none"

RaftWorkerReceive ==
    /\ rpc = "idle" /\ raftCh # <<>>
    /\ batch' = raftCh /\ raftCh' = <<>>
    /\ cached' = FreshCache
    /\ rpc' = "handle"
    /\ UNCHANGED <<group, disk, table, storeCh, storeWorker, driver, crashes>>

(* getPeerState. *)
PeerState ==
    CASE cached # "none" -> cached
      [] cached = "none" /\ router = NoPeer -> "none"
      [] OTHER -> "live"

NextMsg ==
    /\ batch' = Tail(batch)
    /\ rpc' = IF Len(batch) = 1 THEN "idle" ELSE "handle"

(* The peer was destroyed while the message was in the channel. *)
DropMsg ==
    /\ rpc = "handle" /\ PeerState = "none" /\ NextMsg
    /\ UNCHANGED <<group, disk, table, channels, cached, storeWorker, driver, crashes>>

(* onTick of a stopped peer returns; else the Raft group ticks, an initialized
   one may ask for votes, and the region is sent to the tick driver again. *)
OnTick ==
    /\ rpc = "handle" /\ PeerState # "none" /\ Head(batch).kind = "tick"
    /\ cached' = PeerState
    /\ IF PeerState = "stopped"
         THEN NextMsg /\ UNCHANGED votes
         ELSE /\ rpc' = "tick" /\ UNCHANGED batch
              /\ votes' = IF router.epoch > 0 /\ started THEN votes \cup {router} ELSE votes
    /\ UNCHANGED <<ver, gcs, disk, table, channels, storeWorker, driver, crashes>>

(* startTicker, which does not ask whether the peer is stopped. *)
StartTicker ==
    /\ rpc = "handle" /\ PeerState # "none" /\ Head(batch).kind = "start"
    /\ cached' = PeerState /\ rpc' = "start"
    /\ UNCHANGED <<group, disk, table, channels, batch, storeWorker, driver, crashes>>

(* tickDriverSender is unbuffered: the tick driver takes the region when it is
   in its select. *)
TickDriverReceive ==
    /\ rpc \in {"tick", "start"} /\ dpc = "select"
    /\ ticking' = TRUE
    /\ started' = (started \/ (rpc = "start" /\ cached = "live"))
    /\ NextMsg
    /\ UNCHANGED <<group, disk, router, meta, metaLock, channels, cached, storeWorker, dpc, due, crashes>>

(* onRaftMsg: what makes the peer destroy itself. *)
NeverStopped == FALSE   \* mutant
Stopped == PeerState = "stopped"
IsGcAnyPeer(m, p) == m.kind = "gc" /\ p.epoch < m.epoch   \* mutant
IsGcOf(m, p) == m.kind = "gc" /\ p.epoch < m.epoch /\ m.to = p.id
IsForLargerPeer(m, p) == m.kind # "gc" /\ m.to > p.id

OnRaftMsg ==
    /\ rpc = "handle" /\ PeerState # "none" /\ Head(batch).kind \in {"vote", "heartbeat", "gc"}
    /\ cached' = PeerState
    /\ IF ~Stopped /\ (IsGcOf(Head(batch), router) \/ IsForLargerPeer(Head(batch), router))
         THEN rpc' = "lock" /\ UNCHANGED batch
         ELSE NextMsg
    /\ UNCHANGED <<group, disk, table, channels, storeWorker, driver, crashes>>

(* destroyPeer takes the lock and writes the Kv engine ... *)
DestroyKv ==
    /\ rpc = "lock" /\ metaLock = "free"
    /\ metaLock' = "raft" /\ rpc' = "destroy"
    /\ localState' = [state |-> "tombstone", epoch |-> router.epoch]
    /\ UNCHANGED <<group, raftState, router, meta, started, channels, batch, cached, storeWorker, driver, crashes>>

(* ... then the Raft engine, and leaves the router and storeMeta.  A message
   for a larger peer goes on to the store worker. *)
DestroyRaft ==
    /\ rpc = "destroy"
    /\ raftState' = FALSE
    /\ router' = NoPeer /\ meta' = NoPeer /\ metaLock' = "free" /\ started' = FALSE
    /\ cached' = "stopped"
    /\ IF Head(batch).kind = "gc" THEN NextMsg ELSE rpc' = "forward" /\ UNCHANGED batch
    /\ UNCHANGED <<group, localState, channels, storeWorker, driver, crashes>>

ForwardToStore ==
    /\ rpc = "forward" /\ PushStore(Head(batch)) /\ NextMsg
    /\ UNCHANGED <<group, disk, table, raftCh, cached, storeWorker, driver, crashes>>

RaftWorker ==
    \/ RaftWorkerReceive \/ DropMsg \/ OnTick \/ StartTicker
    \/ TickDriverReceive \/ OnRaftMsg \/ DestroyKv \/ DestroyRaft \/ ForwardToStore

-----------------------------------------------------------------------------
(* The store worker. *)

(* Mutant: only start schedules a heartbeat. *)
ScheduleReadOnce ==
    /\ spc = "idle" /\ storeCh # <<>> /\ Head(storeCh).kind \in {"storeStart", "storeTick"}
    /\ storeCh' = Tail(storeCh)
    /\ spc' = (IF Head(storeCh).kind = "storeStart" THEN "schedule" ELSE "idle") /\ age' = 0
    /\ UNCHANGED <<group, disk, table, raftCh, raftWorker, smsg, driver, crashes>>

(* start and onTick send the heartbeat and schedule the next one: scheduleStore
   reads the ticker's clock ... *)
ScheduleRead ==
    /\ spc = "idle" /\ storeCh # <<>> /\ Head(storeCh).kind \in {"storeStart", "storeTick"}
    /\ storeCh' = Tail(storeCh)
    /\ spc' = "schedule" /\ age' = 0
    /\ UNCHANGED <<group, disk, table, raftCh, raftWorker, smsg, driver, crashes>>

(* ... and writes runAt, which the driver compares with later clocks only. *)
ScheduleWrite ==
    /\ spc = "schedule"
    /\ due' = Interval - age
    /\ spc' = "idle" /\ age' = 0
    /\ UNCHANGED <<group, disk, table, channels, raftWorker, smsg, dpc, ticking, crashes>>

StoreWorkerReceive ==
    /\ spc = "idle" /\ storeCh # <<>> /\ IsRemote(Head(storeCh))
    /\ smsg' = Head(storeCh) /\ storeCh' = Tail(storeCh)
    /\ spc' = "route"
    /\ UNCHANGED <<group, disk, table, raftCh, raftWorker, age, driver, crashes>>

(* onRaftMessage: the router has a peer after all ... *)
RouteToPeer ==
    /\ spc = "route" /\ router # NoPeer
    /\ PushRaft(smsg) /\ spc' = "idle" /\ smsg' = NoMsg
    /\ UNCHANGED <<group, disk, table, storeCh, raftWorker, age, driver, crashes>>

(* checkMsg lets a message to a tombstone pass when its epoch is newer. *)
CheckMsgDead(m) == localState.state # "tombstone"   \* mutant: a tombstone is for ever
CheckMsg(m) == localState.state = "tombstone" => m.epoch > localState.epoch

(* ... or the message is ignored, unless a peer may be created for it. *)
CheckStoreMsg ==
    /\ spc = "route" /\ router = NoPeer
    /\ IF smsg.kind # "gc" /\ CheckMsg(smsg) /\ IsInitialMsg(smsg)
         THEN spc' = "create" /\ UNCHANGED smsg
         ELSE spc' = "idle" /\ smsg' = NoMsg
    /\ UNCHANGED <<group, disk, table, channels, raftWorker, age, driver, crashes>>

(* maybeCreatePeer, under the lock: the new peer is in storeMeta and the router
   before its Start is in the channel.  Only this goroutine adds to storeMeta,
   so that the region is still missing there. *)
MaybeCreatePeer ==
    /\ spc = "create" /\ metaLock = "free"
    /\ router' = [id |-> smsg.to, epoch |-> 0] /\ meta' = router'
    /\ metaLock' = "store" /\ started' = FALSE
    /\ spc' = "start"
    /\ UNCHANGED <<group, disk, channels, raftWorker, smsg, age, driver, crashes>>

SendStart ==
    /\ spc = "start" /\ PushRaft(Local("start"))
    /\ metaLock' = "free" /\ spc' = "resend"
    /\ UNCHANGED <<group, disk, router, meta, started, storeCh, raftWorker, smsg, age, driver, crashes>>

(* The message follows Start, unless the peer is gone again. *)
Resend ==
    /\ spc = "resend"
    /\ \/ router # NoPeer /\ PushRaft(smsg)
       \/ router = NoPeer /\ UNCHANGED raftCh
    /\ spc' = "idle" /\ smsg' = NoMsg
    /\ UNCHANGED <<group, disk, table, storeCh, raftWorker, age, driver, crashes>>

StoreWorker ==
    \/ ScheduleRead \/ ScheduleWrite \/ StoreWorkerReceive \/ RouteToPeer
    \/ CheckStoreMsg \/ MaybeCreatePeer \/ SendStart \/ Resend
-----------------------------------------------------------------------------
(* The tick driver. *)

(* tickStore: the clock advances; the heartbeat is due when runAt is reached
   exactly, and then its message is pushed. *)
TickStore ==
    /\ due' = IF due = 0 THEN 0 ELSE due - 1
    /\ dpc' = IF due = 1 THEN "storeTick" ELSE "select"
    /\ age' = IF spc = "schedule" /\ age < Interval THEN age + 1 ELSE age

(* The timer fires: a region the router does not know is forgotten. *)
Timer ==
    /\ dpc = "select"
    /\ \/ ticking /\ router # NoPeer /\ dpc' = "tick" /\ UNCHANGED <<ticking, due, age>>
       \/ ~(ticking /\ router # NoPeer) /\ ticking' = FALSE /\ TickStore
    /\ UNCHANGED <<group, disk, table, channels, raftWorker, spc, smsg, crashes>>

SendTick ==
    /\ dpc = "tick" /\ PushRaft(Local("tick")) /\ TickStore
    /\ UNCHANGED <<group, disk, table, storeCh, raftWorker, spc, smsg, ticking, crashes>>

SendStoreTick ==
    /\ dpc = "storeTick" /\ PushStore(Local("storeTick")) /\ dpc' = "select"
    /\ UNCHANGED <<group, disk, table, raftCh, raftWorker, storeWorker, ticking, due, crashes>>

TickDriver == Timer \/ SendTick \/ SendStoreTick

-----------------------------------------------------------------------------
(* The process dies and starts again from its engines: loadPeers creates the
   peers that are not tombstones, clearStaleMeta finishes a destroy. *)
KeepStaleMeta == raftState   \* mutant
ClearStaleMeta == FALSE

Restart ==
    /\ crashes < MaxCrashes /\ crashes' = crashes + 1
    /\ raftState' = IF localState.state = "normal" THEN TRUE ELSE ClearStaleMeta
    /\ router' = IF localState.state = "normal" THEN [id |-> MemberAt[1], epoch |-> 1] ELSE NoPeer
    /\ meta' = router' /\ metaLock' = "free" /\ started' = FALSE
    /\ raftCh' = IF router' = NoPeer THEN <<>> ELSE <<Local("start")>>
    /\ storeCh' = <<Local("storeStart")>>
    /\ rpc' = "idle" /\ batch' = <<>> /\ cached' = "none"
    /\ spc' = "idle" /\ smsg' = NoMsg /\ age' = 0
    /\ dpc' = "select" /\ ticking' = FALSE /\ due' = 0
    /\ UNCHANGED <<group, localState>>

Next ==
    \/ ConfChange \/ HandleStaleMsg
    \/ \E m \in Sendable : SendRaftMessage(m)
    \/ RaftWorker \/ StoreWorker \/ TickDriver \/ Restart

Spec == Init /\ [][Next]_vars

(* The goroutines run, and a blocked one is served when it could be again and
   again (channels and mutexes queue those that wait).  Of what other stores
   send nothing is assumed. *)
FairSpec ==
    Spec /\ SF_vars(RaftWorker) /\ SF_vars(StoreWorker) /\ SF_vars(TickDriver)

-----------------------------------------------------------------------------
(* A peer that destroys itself, whether a gc message or a message for a larger
   peer made it, is not the group's member by the time it is gone, however old
   the message and whatever peers came and went meanwhile (handleGCPeerMsg,
   checkMessage). *)
OnlyRemovedDestroyed ==
    [][rpc = "destroy" /\ crashes' = crashes => rpc' = rpc \/ MemberAt[ver] # router.id]_vars

(* destroyPeer never finds storeMeta or the router without the peer it
   destroys, where it would panic ("meta corruption detected"): a batch goes on
   with the peer it cached after that peer is gone. *)
NoMetaCorruption == rpc = "destroy" => meta # NoPeer /\ router = meta

(* A destroyed peer leaves no Raft state behind, although its tombstone and its
   Raft state are in two engines and the store may die between the writes: a
   later peer of the region would take it for its own (Destroy, loadPeers). *)
TombstoneClean == localState.state = "tombstone" /\ rpc # "destroy" => ~raftState

(* The raft worker, the store worker and the tick driver wait for one another
   for ever only when a channel is full. *)
Full == Len(raftCh) = Cap \/ Len(storeCh) = Cap

(* A registered peer gets its Start, and its ticks, whatever peers it replaced
   (startTicker, getPeerState, tickDriver.run). *)
PeersTick ==
    <>[]Full \/ []<>(router = NoPeer \/ (started /\ ticking))

Hosted == MemberAt[ver] # 0 => router.id = MemberAt[ver]
AskForVote == MemberAt[ver] # 0 /\ SendRaftMessage(Msg("vote", MemberAt[ver], ver))

(* The member the group has on this store is in the end the store's peer: an
   older peer, or the tombstone of one, gives way to it, and it is not undone
   by what is still on its way to the older one (checkMessage, checkMsg,
   maybeCreatePeer).  It stays missing only if there are no more elections in
   which its vote is asked for: nothing a stable leader sends creates it. *)
MemberHosted ==
    \/ <>[]Full
    \/ <>[]Hosted
    \/ <>[]~Hosted /\ <>[][~AskForVote]_vars

(* The store's heartbeats go on, unless scheduleStore's write of runAt came a
   whole interval after its read of the clock, which the tick driver advances
   meanwhile without synchronisation: runAt is then in the past for ever. *)
StoreHeartbeats ==
    <>[]Full \/ <>(spc = "schedule" /\ age = Interval) \/ []<>(spc = "schedule")
=============================================================================
