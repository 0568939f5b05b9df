# TinyKV in TLA+

TinyKV is a distributed key-value store in Go. Stores (`kv/`) hold regions of
the key space; each region is replicated by a Raft group (`raft/`); a scheduler
(`scheduler/`) hands out timestamps and ids, keeps a picture of the cluster and
moves replicas around. This directory holds TLA+ modules translated from that
code, TLC configurations that check them on small instances, and proofs that
TLAPS checks for every instance.

## 1. The system and what is hard about it

| Part | Code | State | Operations | Hard behaviours |
|---|---|---|---|---|
| Raft node | `raft/raft.go`, `raft/log.go` | Term, Vote, State, Lead, votes, Prs, log, committed, msgs | Step for each message type, tick, propose | interleaving of nodes, lost / repeated / reordered messages, restarts, uint64 Next |
| RawNode | `raft/rawnode.go` | the node, saved state | Propose, Ready, Advance (stubs), Campaign | crash between a step and its Ready |
| Transport | `kv/storage/raft_storage` | a stream per store | Send | streams break and lose messages |
| Peers | `kv/raftstore/peer*.go`, `store_worker.go`, `router.go`, `raft_worker.go`, `ticker.go` | peers of a store, router, store metadata, channels | HandleMsg, onRaftMsg, destroyPeer, maybeCreatePeer, ticks | late messages of removed peers, re-created peers, bounded channels between workers |
| Snapshots | `kv/raftstore/snap`, `runner/region_task.go`, `peer_storage.go`, `snap_runner.go` | files, registry, snapState | generate, send, receive, apply, GC | GC against use, stale snapshots, log GC against generation |
| Bootstrap | `kv/raftstore/bootstrap.go`, `node.go` | prepare key, region and Raft states in two engines | prepare, register, clear | two stores race, crash between engines, lost replies |
| Latches | `kv/transaction/latches` | key to wait group | acquire, release, wait | blocked commands, atomic acquisition |
| Transactions | `kv/transaction/mvcc`, `kv/server` | locks, writes | stubs in this repository | - |
| Leadership | `scheduler/server/member`, `server.go` | lease, leader key in etcd | campaign, keep alive, resign, watch | lease expiry against late renewals |
| Timestamps | `scheduler/server/tso` | timestamp object, last saved time, saved time in etcd | sync, update, reset, get | stale object, leader change, clock jumps, failed saves |
| Ids | `scheduler/server/id` | base, end, saved end | Alloc, generate | two members that believe to lead |
| Client | `scheduler/client` | leader connection, request queue | GetTS, tsLoop, updateLeader | batching, broken streams, cancelled requests |
| Cluster | `scheduler/server/cluster.go`, `core/` | stores, regions, region tree | heartbeats, store states | cached state against heartbeats |
| Operators | `scheduler/server/schedule`, `coordinator.go` | running operators, counts, statuses | add, dispatch, remove, time out | replacement between read and use |
| Coprocessor, B-tree, engines, raw API | `kv/coprocessor`, `scheduler/pkg/btree`, `kv/util/engine_util` | sequential data structures | - | none that interleave |

What makes the core correct: one leader per term; logs that agree where their
terms agree; nodes that apply the same entries; committed entries that survive
changes of leader, crashes and message loss; followers that are eventually
brought up to date. Of the scheduler: one leader at a time, timestamps that grow
and ids that are new whoever leads, and operators that never cost a region its
replicas. Of a store: one first region per cluster, one live peer per region,
workers that do not block one another, snapshots that are whole while they are
used, and commands that write a key one at a time.

## 2. Modules

| Module | What it is |
|---|---|
| `RaftState` | the types of a node, its saved state and its messages; terms, majorities, `UpToDate`, `Merge`, the median |
| `RaftNode` | one node: every method of `raft.go` as an operator from the node before to the node after |
| `Raft` | a group of nodes, their durable state and a network without any guarantee; the safety properties and the refinement mapping to `CommittedLog` |
| `CommittedLog` | abstract specification: one sequence of committed entries that grows at its end |
| `MCRaft` | bounded instances of `Raft` |
| `Replication`, `MCReplication` | a leader and one follower over an ordered, lossy connection; the liveness properties; the initial logs |
| `RaftBasics` | what the messages a node has sent say; facts about finite sets and `Merge` |
| `RaftElections` | the election invariant of one node, of its saved state, of one message |
| `RaftLogs` | the log invariant: logs of leaders, what is acknowledged, chosen and blocked |
| `RaftInvariants` | the invariants of a group, put together from these |
| `RaftElectionProofs` | type correctness and election safety of `Raft`; groups of one member |
| `RaftLogProofs` | every handler keeps the log invariant of the node that runs it |
| `RaftSafetyProofs` | every step of a group keeps it; log matching, leader completeness, state machine safety, the refinement |
| `LeaderLease` | abstract specification of the scheduler's leadership, without time |
| `Leadership` | the campaign loop, leases, renewals and the leader key, with explicit time; shown to implement `LeaderLease` |
| `MCLeadership` | view and symmetry for `Leadership` |
| `Tso` | the timestamp oracle of every member on top of `LeaderLease`, and requests for timestamps |
| `MCTso` | two members that campaign in turn, and the view |
| `TsoProofs` | the leader key behind the lease, the time windows of the members, and the order of timestamps, proved |
| `IdAllocator`, `MCIds`, `IdProofs` | the id allocator of every scheduler member; the proof that ids are unique |
| `Bootstrap`, `MCBootstrap`, `BootstrapProofs` | stores that start for the first time, and the scheduler's side of it; the proofs of its safety |
| `RaftStore`, `MCRaftStore`, `RaftStoreProofs` | the goroutines of one store around its peer of one region; the proofs of its safety |
| `Snapshots`, `MCSnapshots` | the way of a snapshot between two stores, and its garbage collection |
| `Operators`, `MCOperators` | the scheduler's operators of one region, and the region they change |
| `Latches`, `MCLatches`, `LatchesProofs` | the latches of the transactional commands; the proof that they exclude |

### RaftNode and the code

A node is a record with the fields of `struct Raft`. Two representations differ:
the map `votes` is the two sets `granted` and `rejected`, and `Prs[j]` is split
into `match[j]` and `next[j]`. Entry `k` of a log is the entry of index `k` (this
repository never compacts: `maybeCompact` is empty), index 0 is the dummy entry
of term 0. `Next--` on a `uint64` is `Dec`, which wraps to `MaxUint64`.
`sendAppend` sends nothing if `RaftLog.Term(Next-1)` fails and copies an entry
without its type, both as in the code. `becomeLeader` clears `Vote`, as in the
code; section 5 explains why that is still safe.

Handlers only add to `msgs`. `Raft!Ready` is the loop an application must run
around `RawNode.Ready`: save hard state and entries, apply, then send. The
`Ready` and `Advance` of the repository are stubs, so this action follows the
contract on type `Ready` in `rawnode.go`. `Restart` is a crash at any point
followed by `newRaft` on what was saved.

Timers are abstracted: the election timeout is drawn at random on every role
change, so `Hup` is always possible for a node that is not leader. Payloads are
members of `Data`; clients and the state machine are not part of the model.
The field `Commit` of a heartbeat is left out of these modules, where no handler
reads it; the store worker's `IsInitialMsg` does (`RaftStore!HeartbeatCommit`).
`network` is a set from which nothing is taken: a message may be delivered any
number of times, in any order, late, or never.

`Replication` uses the same operators, but its connections are queues, since
`RaftClient` keeps one gRPC stream per store, which orders messages, and drops
them when it fails. `lossy` is chosen initially.

### Leadership, Tso and the code

`Leadership` has etcd's side and the members' side of each lease in one record:
`deadline` and `live` are etcd's, `expire` is `LeaderLease.expireTime`,
`maxExpire` the variable of `KeepAlive`. `campaigns[m]` says where member `m` is
in `leaderLoop`. A renewal is sent at `start`, reaches etcd (`Renew`), and its
answer is stored (`StoreRenewal`) or lost later; several may be under way, as
`keepAliveWorker` starts one goroutine per tick. `CampaignLeader` and `Close`
may take effect and still return an error. etcd is external: it keeps a lease at
least until its time to live has passed since the last renewal it handled, ends
it some time after, and deletes the key with the lease. All clocks of
`Leadership` run at the same speed, since `time.Now().After` uses the monotonic
clock; the wall clocks of `Tso` are unrelated and may jump.

`LeaderLease` keeps of this what the oracle needs. A lease looks unexpired
(`valid`) or not, and has a phase. Its only subtle action is `Extend` of a closed
lease: `KeepAlive` may still store an answer after `Close` has reset the expiry,
because `select` chooses at random among ready cases.

`Tso` has per member the fields of `TimestampOracle` and the step of
`campaignLeader`; `objs` are the `atomicObject`s, which requests refer to by
pointer. The time saved in etcd is `saved`. `SyncTimestamp` and `UpdateTimestamp`
are split where they call etcd. `GetRespTS` is split at its three accesses to
shared state: load the object, add to the logical part, look at the lease. Times
are in units of `1/Ms` millisecond because the code cuts to milliseconds.

### IdAllocator, Bootstrap and the code

`IdAllocator` splits `generate` (`id.go`) at its read of the saved end; `Alloc`
holds the allocator's mutex, so a member is in one `Alloc` at a time. A
transaction that was made may still be reported as an error. The leader key may
move at any moment: the allocator never looks at the lease.

`Bootstrap` follows `Node.Start` from `checkStore` to `loadPeers`. The Kv engine
and the Raft engine are written one after the other, and `Crash` may fall
between. `Bootstrap` and `GetRegion` calls are answered by any member for which
`IsLeader` holds, not only by the owner of the key. A call that timed out goes
on in its member (`late`) and may still create the cluster. A call may also fail
after its transaction was made (`ok` of `CreateRoot`): `Commit` returns an error,
or `cluster.start` does and the member does not run the cluster. An error without
effect is a call that timed out and never takes effect. Ids are those of
`IdAllocator` (never twice), so that a region is named by its store and a local
number. `RegionHeartbeat` stands for `processRegionHeartbeat`, a stub.

### RaftStore and the code

`RaftStore` has one store and one region. The raft worker (`raft_worker.go`), the
store worker (`store_worker.go`) and the tick driver (`ticker.go`) are three
goroutines, each with its own program counter (`rpc`, `spc`, `dpc`); goroutines
of the transport push messages at any time. They share the router's map,
`storeMeta` with its lock, two bounded channels, and an unbuffered one to the
tick driver. A `PeerState` the raft worker has cached for a batch may be stopped
meanwhile. `destroyPeer` writes two engines in turn; `Restart` reloads what they
hold. The rest of the group is a sequence of configurations (`MemberAt`): which
peer this store has in each, if any. Messages of all past configurations stay
possible: requests for votes, heartbeats, which stand for everything else a
leader sends, and gc messages. A peer is created only from an initial message,
and of those a leader sends none (section 4): a vote request has to come, from
an election in the group. `scheduleStore` is two steps, since it reads the ticker's clock and
writes `runAt` without a lock while the tick driver advances the clock.
`HandleRaftReady` is a stub: no entry is applied, and a peer learns that it was
removed only as `onRaftMsg` lets it.

### Snapshots and the code

Every store leads one region and another store follows it with a peer that needs
a snapshot. Each store has its raft worker, store worker, region worker and one
snap worker. A snapshot is two files, the column families' (`cf`) and the meta
file, put in place in this order by `Build` and `Save` and deleted in this order
by `Delete`, with a crash possible in between. `registry` is
`SnapManager.registry`. Listing idle snapshots, handing each to its peer, and
deleting it are three steps of two workers. The raft worker waits while its
region worker applies a snapshot. A region is at rest, so it has one snapshot
key; a conflict with another region (`checkSnapshot`) is a free choice. The
follower's peer is created by a vote request, which may or may not come.

### Operators and the code

`conf` is the region's history of configurations, one per conf version; `cache`
is what the last heartbeat told the scheduler. `patrolRegions` and the leader
balancer create operators from the cache and add them later. `AddOperator` holds
the controller's lock, not that of the regions, and reads the cache twice: for
its check (`CheckAddOperator`) and for the first command (`AddOperatorLocked`). Each goroutine of a
heartbeat stream runs `Dispatch` with the region of *its* heartbeat, split at
every access to shared state: `GetOperator`, each turn of `Check`'s loop, and the
end. `Outdated` has the unsigned subtraction of the code; a command remembers,
for the properties only, whether it was outdated when it was sent. A command carries the
epoch of the region it was made from and is checked against the region's by
`preProposeRaftCommand`; the raft group that applies it is external. Scores that
choose among stores are left out: any choice the filters permit is possible.

### Latches and the code

`AcquireLatches` and `ReleaseLatches` run under `latchGuard` and are one step
each. A wait group is named by the thread that made it. `FindLatched` is the
`AcquireLatches` that fails; `Wait` returns once the wait group's counter is zero,
however much later it is called. Key lists may be empty or repeat a key.

## 3. Runs

| Run | Shows | Bounds |
|---|---|---|
| `group` | one leader per term, `Lead` names an elected leader, logs match, nodes apply the same entries, committed entries are saved by a majority | 3 nodes, 2 terms, 2 entries, anyone campaigns; 1.4 million states |
| `leader_changes` | committed entries are in the log of every later leader; the group implements `CommittedLog` | 3 nodes, 3 terms, 3 entries, candidates 1, 2, 1 in turn |
| `interleaving` | the saved commit index never goes back and committed entries are never cut | 2 nodes, steps and Ready interleaved in every way, heartbeats |
| `replication` | Match is what the follower has; a reliable connection brings log and commit index up to date; a lossy one too, unless Next runs below 1 | logs of 0-2 old entries in every reachable pair, 2 messages in flight per beat |
| `leadership` | a leader whose lease looks unexpired has the key; `Leadership` implements `LeaderLease` | 2 members, 2 leases, 2 renewals under way, TTL 1, delays 0 or 1, time 0-3; 0.7 million states |
| `tso` | timestamps grow, no millisecond is used twice, one member serves, the saved time grows | 2 members, campaigns by 1, 2, 1, one request under way, 3 objects, clocks read 2, 3 or 5 half milliseconds; 1.8 million states |
| `ids` | no id is handed out twice | 3 members, ranges of 2 ids, 5 ranges |
| `bootstrap` | one first region, in both engines, kept by the store it was created for; every store comes up, with the exceptions below | 2 stores, 2 members, 2 terms, 1 crash at any step, 1 answer lost or call failed halfway; 0.35 million states |
| `raft_store` | only removed peers destroy themselves and nothing remains of them; the group's member is hosted in the end, ticks and heartbeats go on | 1 store with peer 1, then none, then peer 2; channels of 2 slots, 2 messages under way, 1 restart; 0.45 million states |
| `snapshots` | a snapshot in use stays whole, none is half written, and only the three cases below keep a follower from its snapshot | 2 stores that send to each other, 1 crash, 1 round of collection or conflict, 1 retry; 0.23 million states |
| `operators` | no command but an outdated first one takes the region below max-replicas, a replacement has caught up, an operator has one outcome and a success is real | 4 stores, every initial placement on 2, 3 or 4 of them and every leader, 2 goroutines, 2 operators, 4 configurations, 1 fault, max-replicas 3, 1 command under way; 3.3 million states |
| `latches` | commands that share a key exclude each other, no wakeup is lost, only endless traffic starves | 3 threads, 3 keys, 5 key lists that cross, repeat and are empty |

Some properties name their exceptions. They are behaviours of the code, each
needed: without it TLC finds a counterexample.

- `StoresComeUp`: the transaction of `bootstrapCluster` does not ask who leads. If
  it is made through an old leader after the new one has looked for the cluster,
  the new leader never runs it. Nor does a leader whose call fails after the
  transaction: it refuses every `Bootstrap` because the root is there and every
  `PutStore` because it runs no cluster, until another leader looks for the root.
- `FirstRegionKept`: a store that does not hear that its `Bootstrap` created the
  cluster, because the answer is lost or an error, is told `ALREADY_BOOTSTRAPPED` later. The scheduler knows no region yet,
  so the store clears its own.
- `PeersTick`, `MemberHosted`, `StoreHeartbeats`: the workers may wait for one another in
  a circle, but only when a channel stays full. In the code the channels have
  40960 slots, here 2, so the circle is reached and excluded by name.
- `MemberHosted`: nothing a stable leader sends creates a peer (section 4). A new
  member stays missing as long as no election asks for its vote.
- `StoreHeartbeats`: if the write of `runAt` comes a whole interval after the read
  of the clock, `runAt` is in the past and the heartbeat never fires again.
- `OnlyTheseStop`: two stores that send to each other wait in `CloseAndRecv`, each
  with its only snap worker. A deletion cut short by a crash leaves a meta file
  without the other files (section 4). And a peer that no vote request creates
  gets no snapshot: `MsgSnapshot` is no initial message either.
- `ReplicasKept`: the first command of an operator is sent from `AddOperator`'s
  second read of the region and is not compared with the operator's epoch
  (section 4).
- `SuccessIsReal`: a goroutine whose heartbeat is older than the operator counts a
  `RemovePeer` as finished if that old region did not have the peer yet.
- `OnlyTrafficStarves`: `WaitForLatches` is not fair; new commands may overtake an
  old one for ever.

Two terms and two entries are the least in which a vote can be asked for twice,
a candidate of a later term can meet a leader of an earlier one, and logs can
diverge. In the third term the first leader comes back with entries that the second
never had and sends them again, with the no-op that commits them. To make room
for it, `leader_changes` fixes who campaigns in which term.

*Eager Ready.* In `MCRaft!EagerNext` a node's Ready is handled right after the
step that makes it necessary. A step and a Ready touch only their own node and
add messages, so a Ready commutes with the steps of other nodes to its left; a
step that a crash undoes before its Ready is as if it had not been taken; two
steps of one node with one Ready are like two steps with two Readies as far as
the other nodes can tell, except that less is saved in between. `interleaving`
(and every theorem of section 5) has no such restriction.

*View.* `MCRaft!View` leaves out messages that their receiver will ignore in
every continuation, because its saved term is larger or because it has already
finished being candidate or leader in that term, and the progress table of a
node that is not leader, which `becomeLeader` rewrites before it is read.

`MCLeadership!View` drops the times of leases that no later step reads.
`MCTso!View` drops leases that nobody uses, the logical part of objects that
nobody refers to, and that a request met no object.

*Members in turn.* In `tso` three campaigns are made by members 1, 2 and 1: the
least in which a member comes back after another has served. Fewer objects or
clock readings would leave out one of: a clock behind the saved time, one within
the guard, one beyond it; a window that is left half used. The theorems have
none of these bounds.

*One crash, of one store.* In `snapshots` only store `a` crashes. The two stores
play the same part, so a run in which the other one crashes is this run with the
names exchanged. Raft asks for no other snapshot of a region while one is being
sent. A larger instance without this bound (1.6 million states) passes too.

*Configurations 1, none, 2.* In `raft_store` a peer that is removed and replaced by
one with a larger id is the least in which every message may be late: for the
first peer, for no peer, and for the second.

*Symmetry* permutes nodes, members, stores or goroutines in runs that check
invariants and action properties only.

*Deadlock.* `replication`, `ids`, `latches` and `operators` check it. The other runs stop at
their bounds (terms, crashes, time) or, like `snapshots`, when everything is
done, and do not.

### Fairness

`Replication!Spec` assumes that the leader's heartbeat timer keeps firing (weak
fairness of `Beat`: `tick` is called for ever by the tick driver) and that a
connection over which messages of a kind are sent for ever delivers some of them
(strong fairness of the four receive actions: a broken stream is reopened by the
next `Send`). Nothing is assumed of `Propose`, `LoseToLeader` and
`LoseToFollower`, and no leader change happens: the properties say what the
leader achieves while it stays leader.

`Latches!FairSpec`: goroutines are scheduled and commands end. Nothing is assumed
of arrivals.

`RaftStore!FairSpec`: strong fairness of the three workers, because a goroutine
that is blocked on a channel or a mutex waits in a queue and is served when it
could be again and again. Nothing is assumed of what other stores send: no
message that creates a peer is sent for ever, since a leader sends none.

`Bootstrap!FairSpec`: a store takes its local steps, calls that keep reaching the
leader are answered (strong fairness: leaders come and go), a member whose lease
has run out steps down, and some member campaigns when there is no leader.
Nothing is assumed of crashes and losses, which are bounded.

`Snapshots!Spec`: each worker takes what is in its channel (weak fairness), and
raft asks for a snapshot as long as the follower needs one. Nothing is assumed of
`CreatePeer`.

## 4. Where code and documentation disagree

Met while modelling; the models follow the code. The properties of section 3 are
stated so that they are true of it.

- `sendHeartbeat` (`raft.go:241`) puts the leader's commit index into a heartbeat.
  It is at least `RaftInitLogIndex`, 5, so `IsInitialMsg` (`util.go:31`), which wants
  0, refuses every heartbeat. Its comment (`util.go:19-27`) says that a newly added
  peer is created from "RequestVote and Heartbeat message". In fact a leader may
  send heartbeats for ever and its member is not created; `MemberHosted` shows
  that a vote request creates it.
- `addOperatorLocked` (`operator_controller.go:192`) sends the first command with the
  epoch of a region read after the check at line 153. If a heartbeat came in
  between, the operator is stale, and the store accepts its command all the same.
  `Dispatch` says (`:88-91`) that a stale operator "will not be executed even we
  would have sent it". `ReplicasKept` shows that only such a first command can cost
  a region a replica.
- `sendAppend` (`raft.go:213`) copies `Index`, `Term` and `Data`, not `EntryType`.
  `doc.go:149` promises that a committed configuration change comes back with
  type `EntryConfChange`; on followers it does not. `RaftNode!Wire` has this.
- `doc.go:72-75` lets messages go out while the entries of the same Ready are
  being written. In this implementation that would give two leaders in a term:
  `becomeLeader` clears `Vote` (`raft.go:298`), and only the saved no-op keeps a
  restarted leader from voting for another candidate of its term. `Raft!Ready`
  saves first.
- Each refusal decrements `Next` (`raft.go:550`), also refusals of duplicates.
  Below 1 `sendAppend` sends nothing; if the MsgAppend in flight is then lost,
  nothing repairs the follower in this term. `OnlyUnderflowStops` shows that this
  is the only way to stay behind.
- `handleHeartbeat` (`raft.go:659`) does not use `Commit`, so a lost commit
  broadcast is not repeated until the next proposal, although `doc.go:255-258`
  says that a heartbeat updates the commit index. `ReliableCommitReaches` is about
  connections that lose nothing.
- `GetRespTS` looks at the lease last (`tso.go:258`), and `t.lease` is the newest
  lease of the member, not the one under which the object was loaded. A call
  paused between the two while its member loses the leadership and regains it
  returns a timestamp of the old term, smaller than ones another leader has
  returned before the call began. `server.go:610` says the "lease based approach
  is not affected by thread pause". `TimestampsIncreaseInTerm` shows that a second
  election during the call is the only way, and `ObjectsDiffer` that even then no
  timestamp is handed out twice.
- The pointer `ts` is nil until the first `SyncTimestamp`, and the leader key is
  visible before. `Server.Tso` does not ask whether the member leads
  (`grpc_service.go:77`), so such a request dereferences nil (`Tso!LoadNil`).
- `DeleteSnapshot` with `checkEntry` refuses a key with any entry
  (`snap_manager.go:311`), although its message says "registered more than 1".
  `doSnapshot` registers the key before it builds, so the deletion of a corrupted
  snapshot that `retryDeleteSnapshot` is there for never happens: a generated
  snapshot whose deletion a crash cut short is not built again. `onGCSnap` skips
  it as well, and a received one cannot be received over (`snap_runner.go:146`).

## 5. Proofs

### Raft

Assumptions: `Server` is a finite non-empty set without `None`; `NoData` is no
client payload; `ProposeType` is a set of entry types; `MaxUint64` is a natural
number. Nothing is assumed about the size of the group, the number of terms,
entries, crashes or messages.

| Theorem | Statement |
|---|---|
| `TypeCorrect` | `Spec => []TypeOK` |
| `OneLeaderHolds` | `Spec => []ElectionSafety` |
| `LeadHolds` | `Spec => []LeadIsElected` |
| `LogMatchingHolds` | `Spec => []LogMatching` |
| `LeaderCompletenessHolds` | `Spec => []LeaderCompleteness` |
| `StateMachineSafetyHolds` | `Spec => []StateMachineSafety` |
| `CommittedIsStableHolds` | `~Single` implies `Spec => []CommittedIsStable` |
| `CommitNeverRegressesHolds` | `Spec => CommitNeverRegresses` |
| `GroupImplementsCommittedLog` | `Spec => ImplementsCommittedLog`, the refinement |

*Elections* (`RaftElectionProofs`). `TypeOK` is inductive. The interesting obligations are that `medianMatch` is
always defined (a finite set of naturals has a median), and that `Merge` returns
a sequence of entries.

`ElectionSafety` is not inductive. The invariant `ElectionInv` adds, for each
node, relative to the messages it has sent and the elections so far:

- a vote granted in the current term is still in `Vote`, in memory and on disk;
- a node that asked for votes in its current term still has its own vote, *or*
  it won and the no-op of the term ends its log (`CandidacyKept`);
- no node grants a vote in a term in which it was elected, and none grants votes
  to two nodes in a term;
- each election is backed by a majority of granted votes on the network.

The second point is where the code departs from textbook Raft. Since
`becomeLeader` clears `Vote`, a restarted leader looks as if it had not voted.
A vote request of its term carries a last log term below that term
(`MessageOK`), so the log that ends with the no-op refuses it. The disk has this
log whenever it has the cleared vote, because `Ready` saves both together before
it sends.

Two majorities intersect; a member of both either granted two votes in the term,
or is the leader of one election and granted a vote in the other. Both are
excluded. There is one lemma per handler: it keeps the invariant of the node that
runs it. The rest of the state is affected only through sets of messages and
elections that grow.

*Logs* (`RaftLogs`, `RaftLogProofs`, `RaftSafetyProofs`). None of the other
properties is inductive. `LogSafe` says that there are logs `ll[t]`, one per term,
that explain the state: `ll[t]` is the log of the leader of `t` as it grew in that
term. The specification does not store them; each step names those after it.
`GroupLogOK` says of them:

- up to each of its entries, every log, in memory, on disk or of a leader, is the
  log of the leader of that entry's term (`OfLeaders`), and a MsgAppend is a
  `Fragment` of its sender's. Log matching follows;
- an entry is `Chosen` if a majority has acknowledged it to the leader that made it,
  and a commit index, of a node, on disk or in a message, is covered by a chosen
  entry (`CommitIn`);
- an entry is `Blocked` if a majority has left its term without acknowledging it.
  It can then never be chosen, and a chosen one is never blocked, because
  majorities meet (`ChosenNotBlocked`);
- what a node acknowledged is still in its log, or blocked (`AckKept`). Entries that
  are not blocked survive `Merge`, since the leader whose MsgAppend is merged
  has them;
- whoever got a node's vote announced a log not behind what the node had
  acknowledged, or that is blocked (`VoteInformed`). So a new leader has every entry of
  earlier leaders that is not blocked: this is kept when a leader is made (`WinnerHas`)
  and gives leader completeness.

State machine safety and stability of committed entries follow from the
commit indexes being covered by chosen entries, which all later leaders share.
Acknowledgements are messages, and messages are sent only after the entries they
speak of are saved (`Ready`), so that a crash takes back nothing.

A group of one member sends no messages and commits what it appends at once. Its
invariant is `SingleInv`, and the safety properties are proved for both kinds. Only
`CommittedIsStable` needs more than one member: alone, a node commits an entry
before it has saved it.

The refinement takes the longest sequence that some node has applied as the
committed log. `SavedKept` and `CommittedStep` show that a step leaves it as it is or
adds to its end, from state machine safety before and after the step.

The facts about finite sets and about `Merge` that need other libraries, or the
cases of its definition, are proved once (`SetsAre`, `MergesAre`) and handed to the
log lemmas as the hypotheses `SetFacts` and `MergeFacts`.

### Timestamps

Assumptions: `None` is no member; the bounds are natural numbers, clock readings
are positive, `Ms` is positive and `SaveInterval` is larger than a millisecond
(in the code 3 s). Nothing is assumed of the number of members, campaigns,
objects, requests or clock readings.

| Theorem | Statement |
|---|---|
| `LeaseHolds` | `LeaseSpec => []LeaseGuardsKey` |
| `OneServesHolds` | `Spec => []OneServes` |
| `PhysicalBelowSavedHolds` | `Spec => []PhysicalBelowSaved` |
| `SavedIncreasesHolds` | `Spec => SavedIncreases` |
| `ObjectsDifferHolds` | `Spec => []ObjectsDiffer` |
| `TimestampsIncreaseHolds` | `Spec => []TimestampsIncreaseInTerm` |

The invariant is `TsoInv`. `LeaseGuardsKey` is its core: a member that won and
whose lease looks unexpired has the key. `KeyInv` adds that the key names a lease
of its member, `CampaignInv` that a member past its election works with a lease
that it won, or that has ended unnoticed. Saving the time is a
transaction on the key, so only the member with the key moves `saved`.

That is not enough for the physical times: a deposed member goes on using the
window it saved, without asking etcd. `WindowInv` says that the times from its
current object up to `lastSavedTime` belong to it alone. Windows of two members
are disjoint, because a new leader starts at least a guard beyond `saved`, and
the old leader's window ends at a value `saved` once had. While a serving member has
the key its window ends at `saved`: a save whose answer is lost moves `saved`, but
the member then stops serving. `ObjectInv` concludes that all objects ever made
are at least a millisecond apart and below `saved`.

Timestamps need two more. `WonInv`: a lease that was won and has not ended is the
one of the key, so at most one is. `TimeInv`: the largest timestamp returned was
handed out by some object, and a request holds an object of its member that is not
behind what had been returned when it began, as long as the member stays in the
term in which the request began. The check of the lease at the end of `GetRespTS`
then suffices, if the lease is of that term.

### Ids

Assumptions: `NoMember` is no member, `allocStep` is positive. `MaxId` only bounds
what may be reserved.

| Theorem | Statement |
|---|---|
| `IdsUnique` | `Spec => NoIdTwice` |

`NoIdTwice` is about steps. The invariant `RangesApart` says that all ids handed
out or held in reserve are within the saved end, that nobody holds an id that was
handed out, and that ranges of two members do not overlap. A new range begins at
the saved end, because the transaction compares it with the value read. That the
transaction also compares the leader key is not needed for uniqueness.

### Latches

Assumptions: `NoThread` is no thread, requests are sequences of keys.

| Theorem | Statement |
|---|---|
| `LatchesExclude` | `Spec => []Exclusive` |
| `NoLostWakeup` | `Spec => []BlockedOnHolder` |

Neither is inductive. `LatchInv` joins `MapIsHolders`, the exact contents of the
map, with `BlockedOnHolder` and one fact that is easy to miss: a thread somebody
waits for has a key. `ReleaseLatches` finds the wait group under the *first* key
of its list, so a holder of the empty list could wake nobody; but no one ever
finds such a holder's latch.

### Bootstrap

Assumptions: `NoMember` is no member and `NoStore` no store. Any number of stores,
members, changes of leader, crashes and lost answers; a store has at most three
prepared regions at a time (`RegionNos`), a bound of the model.

| Theorem | Statement |
|---|---|
| `OneFirstRegionHolds` | `Spec => []OneFirstRegion` |
| `EnginesAgreeHolds` | `Spec => []EnginesAgree` |
| `FirstRegionKeptHolds` | `Spec => []FirstRegionKept` |

A region of a store that is not the one under the prepare key is one the store
*keeps*. `KeptInv`: only the store of the cluster root keeps a region, only one, and
only from when it has heard that it won; what a member's cache knows is kept; and if
nothing was unheard, the root's store has won or keeps its region. A store loads
with the prepare key cleared, so all it loads is kept. `EngineInv` says where
`Node.Start` has a prepared region and that the Raft engine has no region the Kv
engine lacks, which is the order in which the two are written and cleared.

### Store routing

Assumptions: `MemberAt` is a non-empty sequence of peer ids that begins with a
peer; ids grow, and a removed peer does not come back (`IdAllocator` and the
scheduler). The capacity of channels and the other bounds are any natural numbers.

| Theorem | Statement |
|---|---|
| `NoMetaCorruptionHolds` | `Spec => []NoMetaCorruption` |
| `OnlyRemovedDestroyedHolds` | `Spec => OnlyRemovedDestroyed` |
| `TombstoneCleanHolds` | `Spec => []TombstoneClean` |

`RoutingInv` says which messages can be on their way (`FromGroup`: each was sent
under an earlier configuration, to the member of it), that the store's metadata and the
router agree, that a peer cached as live is in the router, and that a peer about to
be destroyed is condemned by the message the raft worker has in hand: a gc message
to it, or one for a peer with a larger id. Since ids grow, the group has removed a
condemned peer (`CondemnedIsRemoved`).

### Proved only, and only model-checked

`TypeOK` of `Raft` and `PhysicalBelowSaved` are not repeated in the runs. Only
model-checked are:

- all liveness, which is beyond TLAPS;
- that `Leadership` implements `LeaderLease`, and `MatchIsReplicated` of `Replication`;
- the properties of `Snapshots` and of `Operators`.

## 6. Not modelled

Empty in the code and therefore absent here: snapshots inside Raft, membership
changes inside Raft, leader transfer, log compaction, `HandleRaftReady`, the write
path of `PeerStorage` (`Append`, `ApplySnapshot`, `SaveReadyState`), the
transactional API, `processRegionHeartbeat`, the region balancer. Where a modelled
part depends on one of these (a configuration change that is applied, a heartbeat
that reaches the cache), the model has an external action that does what the
callers expect, and says so.

Of no interest to model checking: SST file contents and checksums, badger, key
encodings, the coprocessor's expression evaluation, the third-party B-tree,
configuration, logging and HTTP plumbing, generated protocol code. Together
these are most of the lines of the repository.

Left out of parts that are modelled:

- `Snapshots`: `deleteOldIdleSnaps` (only over a size limit), a snapshot that
  `validateSnap` refuses, regions that change while a snapshot is under way.
- `Operators`: limits on the number of operators, the notifier queue (filled and
  never read), `checkStores` and `BuryStore`, which count regions from heartbeats.
- `RaftStore`: split checks, log GC, and a command whose peer is destroyed while it
  is in the channel (it is dropped and its callback is not answered).
- The scheduler client's connections and its batching of timestamp requests. It
  read-locks `connMu` twice in one goroutine (`PROJECT.json` has the hazard).
- The cache of connections of `RaftClient`: a failed `Send` drops whatever connection
  is cached for the address, also one another goroutine has just opened. The lost
  messages are in `Replication`.
- The raft worker's task channels of 128 slots (`peer_msg_handler.go:466`): their
  tasks ask for splits and log GC, whose results are applied by stubs.
