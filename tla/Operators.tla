----------------------------- MODULE Operators -----------------------------
(***************************************************************************)
(* The operators of the scheduler on one region: created by the replica    *)
(* checker and the leader balancer, kept by the OperatorController, moved  *)
(* on by the heartbeats of the region's leaders, and carried out by the    *)
(* stores (scheduler/server/schedule, coordinator.go, cluster.go and       *)
(* heartbeat_streams.go; kv/raftstore's check of an administrative command *)
(* against the region's epoch).                                            *)
(*                                                                         *)
(* Dispatchers are the goroutines that serve the stores' heartbeat         *)
(* streams: each may stop between any two accesses to shared state while   *)
(* the others go on.  processRegionHeartbeat, the raft group that applies  *)
(* a command and its elections are external.                               *)
(***************************************************************************)
EXTENDS Naturals, Sequences, FiniteSets

CONSTANTS
    Stores,        \* the stores
    StartSets,     \* the sets of stores the region may have peers on at the start
    Dispatchers,   \* the goroutines serving heartbeat streams
    MaxReplicas,   \* replication.max-replicas
    MaxConfVer,    \* bound: configurations of the region
    MaxOperators,  \* bound: operators created
    MaxFaults,     \* bound: stores taken offline and elections nobody asked for
    MaxCmds        \* bound: commands on their way to a store

ASSUME OperatorsAssumption ==
    /\ IsFiniteSet(Stores) /\ StartSets \subseteq SUBSET Stores
    /\ MaxReplicas \in Nat

VARIABLES
    conf,        \* the peers of the region under each conf version
    leader,      \* the store of the region's leader
    pending,     \* the stores whose peer has not caught up
    offline,     \* the stores taken offline
    cache,       \* the region as the scheduler knows it
    ops,         \* every operator created, in order
    running,     \* OperatorController.operators: the region's operator, or 0
    late,        \* its time has run out
    made,        \* the operator a goroutine has created and not added yet, or 0
    adding,      \* who holds the controller's lock in AddOperator, or Nobody
    disp,        \* the dispatchers
    cmds,        \* commands on their way to a store
    elections

regionVars == <<conf, leader, pending, elections>>
vars == <<regionVars, offline, cache, ops, running, late, made, adding, disp, cmds>>

Creators == {"patrol", "scheduler"}
Nobody == "nobody"

Peer(s, i) == [store |-> s, id |-> i]
StoresOf(ps) == {p.store : p \in ps}
ConfVer == Len(conf)
Peers == conf[ConfVer]

(* What a heartbeat carries: the epoch, the peers, the leader and the
   pending peers of the region as its leader sees it. *)
Region == [ver |-> ConfVer, peers |-> Peers, leader |-> leader, pending |-> pending]

Idle == [pc |-> "idle"]

Init ==
    /\ \E ss \in StartSets :
         /\ conf = <<{Peer(s, 0) : s \in ss}>>
         /\ leader \in ss
    /\ pending = {} /\ elections = 0
    /\ offline = {}
    /\ cache = Region
    /\ ops = <<>> /\ running = 0 /\ late = FALSE
    /\ made = [c \in Creators |-> 0] /\ adding = Nobody
    /\ disp = [d \in Dispatchers |-> Idle]
    /\ cmds = {}

-----------------------------------------------------------------------------
(* Steps of an operator, against a region as a heartbeat describes it. *)

Step(type, s, i) == [type |-> type, store |-> s, id |-> i]
TransferLeader(s) == Step("TransferLeader", s, 0)
AddPeer(s, i) == Step("AddPeer", s, i)
RemovePeer(s) == Step("RemovePeer", s, 0)

(* Mutants: a pending peer, or any peer on the store, finishes AddPeer. *)
IsFinishAnyPending(step, r) ==
    CASE step.type = "TransferLeader" -> r.leader = step.store
      [] step.type = "AddPeer" -> Peer(step.store, step.id) \in r.peers
      [] step.type = "RemovePeer" -> step.store \notin StoresOf(r.peers)

IsFinishAnyPeer(step, r) ==
    CASE step.type = "TransferLeader" -> r.leader = step.store
      [] step.type = "AddPeer" -> step.store \in StoresOf(r.peers) \ r.pending
      [] step.type = "RemovePeer" -> step.store \notin StoresOf(r.peers)

IsFinish(step, r) ==
    CASE step.type = "TransferLeader" -> r.leader = step.store
      [] step.type = "AddPeer" -> /\ Peer(step.store, step.id) \in r.peers
                                  /\ step.store \notin r.pending
      [] step.type = "RemovePeer" -> step.store \notin StoresOf(r.peers)

StepConfVerChanged(step, r) ==
    CASE step.type = "TransferLeader" -> FALSE
      [] step.type = "AddPeer" -> Peer(step.store, step.id) \in r.peers
      [] step.type = "RemovePeer" -> step.store \notin StoresOf(r.peers)

(* Operator.ConfVerChanged: the current step included. *)
ConfVerChanged(op, r) ==
    Cardinality({i \in 1 .. Len(op.steps) : i <= op.current + 1 /\ StepConfVerChanged(op.steps[i], r)})

OutdatedNever(op, r) == FALSE   \* mutant

(* The conf version moved on by more than the steps account for.  The
   subtraction is of unsigned numbers: a region older than the operator wraps. *)
Outdated(op, r) ==
    \/ r.ver < op.ver
    \/ r.ver - op.ver > ConfVerChanged(op, r)

-----------------------------------------------------------------------------
(* Commands.  For the properties a command is tagged with its operator, and
   with whether its region had left the operator behind when it was sent. *)

(* SendScheduleCommand and SendMsg: the command carries the epoch and goes to
   the leader of the region it was made from; nothing is sent to add a peer
   that is there already. *)
Command(o, op, step, r) ==
    [step |-> step, ver |-> r.ver, to |-> r.leader, op |-> o, outdated |-> Outdated(op, r)]

Silent(step, r) == step.type = "AddPeer" /\ step.store \in StoresOf(r.peers)

(* Without a stream to the store, or when the send fails, it is dropped. *)
SendScheduleCommand(o, op, step, r) ==
    \/ cmds' = cmds
    \/ /\ ~Silent(step, r)
       /\ Cardinality(cmds) < MaxCmds
       /\ cmds' = cmds \cup {Command(o, op, step, r)}

-----------------------------------------------------------------------------
(* Creating operators, from the scheduler's region. *)

Normal == 1
High == 2

NewOperator(steps, level) ==
    [steps |-> steps, ver |-> cache.ver, level |-> level, current |-> 0,
     stale |-> FALSE, status |-> <<>>]

(* transferLeaderStep: a leader on the store is first moved to some follower,
   and there is no operator when there is none. *)
TransferLeaderSteps(s) ==
    IF cache.leader = s
    THEN {<<TransferLeader(f)>> : f \in StoresOf(cache.peers) \ {s}}
    ELSE {<<>>}

RemovePeerSteps(s) == {Append(t, RemovePeer(s)) : t \in TransferLeaderSteps(s)}

OfflinePeerSteps(s, new, id) ==
    {t \o <<AddPeer(new, id), RemovePeer(s)>> : t \in TransferLeaderSteps(s)}

(* StateFilter and ExcludedFilter; the scores that pick one of the targets
   are left out. *)
Targets == Stores \ (StoresOf(cache.peers) \cup offline)

OfflinePeers == StoresOf(cache.peers) \cap offline

FixPeer(s, id) ==
    IF Cardinality(cache.peers) > MaxReplicas
    THEN RemovePeerSteps(s)
    ELSE UNION {OfflinePeerSteps(s, new, id) : new \in Targets}

(* ReplicaChecker.Check: the operators it may return.  It fixes one peer on a
   store that is not up; only when that gives nothing it counts replicas. *)
ReplicaCheck(id) ==
    LET n == Cardinality(cache.peers)
        fix == UNION {FixPeer(s, id) : s \in OfflinePeers}
    IN  IF fix # {} THEN {NewOperator(st, High) : st \in fix}
        ELSE IF n < MaxReplicas
             THEN {NewOperator(<<AddPeer(s, id)>>, Normal) : s \in Targets}
        ELSE IF n > MaxReplicas
             THEN {NewOperator(st, Normal) :
                     st \in UNION {RemovePeerSteps(s) : s \in StoresOf(cache.peers)}}
        ELSE {}

(* balanceLeaderScheduler.Schedule: a region without pending peers, its leader
   to a follower on a store that is up. *)
BalanceLeader ==
    IF cache.pending = {}
    THEN {NewOperator(<<TransferLeader(s)>>, Normal) :
            s \in StoresOf(cache.peers) \ ({cache.leader} \cup offline)}
    ELSE {}

Make(c, op) ==
    /\ made[c] = 0 /\ Len(ops) < MaxOperators
    /\ ops' = Append(ops, op)
    /\ made' = [made EXCEPT ![c] = Len(ops) + 1]
    /\ UNCHANGED <<regionVars, offline, cache, running, late, adding, disp, cmds>>

(* patrolRegions skips a region that has an operator (GetOperator).  The id of a new peer is
   the allocator's next: that of the operator will do. *)
CheckRegion ==
    /\ adding = Nobody /\ running = 0
    /\ \E op \in ReplicaCheck(Len(ops) + 1) : Make("patrol", op)

Schedule == \E op \in BalanceLeader : Make("scheduler", op)

-----------------------------------------------------------------------------
(* OperatorController. *)

Ended(o, status) == [ops EXCEPT ![o].status = Append(@, status)]

(* checkAddOperator: the region has the epoch the operator was made for, and no
   operator of the same or a higher priority. *)
MayAdd(op) ==
    /\ op.ver = cache.ver
    /\ running # 0 => op.level > ops[running].level

(* Operator.Check: the steps finished in r are passed over. *)
Checked(op, r) ==
    CHOOSE n \in op.current .. Len(op.steps) :
        /\ \A i \in op.current + 1 .. n : IsFinish(op.steps[i], r)
        /\ n < Len(op.steps) => ~IsFinish(op.steps[n + 1], r)

(* AddOperator holds the controller's lock, which is not that of the regions: a
   heartbeat may move the cache on between the check here ... *)
CheckAddOperator(c) ==
    LET o == made[c]
    IN  /\ o # 0 /\ adding = Nobody
        /\ \/ /\ ~MayAdd(ops[o])
              /\ ops' = Ended(o, "CANCEL") /\ made' = [made EXCEPT ![c] = 0]
              /\ UNCHANGED adding
           \/ /\ MayAdd(ops[o])
              /\ adding' = c
              /\ UNCHANGED <<ops, made>>
        /\ UNCHANGED <<regionVars, offline, cache, running, late, disp, cmds>>

(* ... and addOperatorLocked: an operator of a lower priority is replaced, and
   the first command is sent from the region now in the cache. *)
AddOperatorLocked(c) ==
    LET o == made[c]
        op == [ops[o] EXCEPT !.current = Checked(ops[o], cache)]
    IN  /\ adding = c /\ adding' = Nobody
        /\ made' = [made EXCEPT ![c] = 0]
        /\ running' = o /\ late' = FALSE
        /\ ops' = [i \in DOMAIN ops |->
                     IF i = o THEN op
                     ELSE IF i = running THEN Ended(i, "REPLACE")[i]
                     ELSE ops[i]]
        /\ IF op.current < Len(op.steps)
           THEN SendScheduleCommand(o, op, op.steps[op.current + 1], cache)
           ELSE UNCHANGED cmds
        /\ UNCHANGED <<regionVars, offline, cache, disp>>

(* Mutant: whatever operator the region has. *)
RemoveAnyOperator(o, status) ==
    /\ adding = Nobody
    /\ running' = 0 /\ late' = FALSE
    /\ ops' = Ended(o, status)

(* RemoveOperator, under the lock: only if it is still the region's operator;
   then the outcome is recorded. *)
RemoveOperator(o, status) ==
    /\ adding = Nobody
    /\ IF running = o
       THEN running' = 0 /\ late' = FALSE /\ ops' = Ended(o, status)
       ELSE UNCHANGED <<running, late, ops>>

-----------------------------------------------------------------------------
(* Dispatch, one action for each access to what goroutines share. *)

(* A heartbeat of the region's leader reaches the scheduler and
   processRegionHeartbeat takes it into the cache; Dispatch comes later. *)
HandleRegionHeartbeat(d) ==
    /\ disp[d] = Idle
    /\ cache' = Region
    /\ disp' = [disp EXCEPT ![d] = [pc |-> "get", region |-> Region]]
    /\ UNCHANGED <<regionVars, offline, ops, running, late, made, adding, cmds>>

(* GetOperator, IsTimeout, and the load of currentStep that begins Check. *)
GetOperator(d) ==
    /\ disp[d].pc = "get" /\ adding = Nobody
    /\ disp' = [disp EXCEPT ![d] =
                  IF running = 0 THEN Idle
                  ELSE [pc |-> "check", region |-> @.region, op |-> running,
                        step |-> ops[running].current,
                        timeout |-> /\ late
                                    /\ ops[running].current < Len(ops[running].steps)]]
    /\ UNCHANGED <<regionVars, offline, cache, ops, running, late, made, adding, cmds>>

StepOpen(d) ==
    /\ disp[d].step < Len(ops[disp[d].op].steps)
    /\ ~IsFinish(ops[disp[d].op].steps[disp[d].step + 1], disp[d].region)

(* One turn of Check's loop.  The load and the stores are atomic, the loop is
   not: the step stored may be behind the one another goroutine stored. *)
CheckStep(d) ==
    LET g == disp[d]
    IN  /\ g.pc = "check"
        /\ g.step < Len(ops[g.op].steps) /\ ~StepOpen(d)
        /\ ops' = [ops EXCEPT ![g.op].current = g.step + 1,
                              ![g.op].stale = @ \/ g.region.ver < ops[g.op].ver]
        /\ disp' = [disp EXCEPT ![d].step = g.step + 1]
        /\ UNCHANGED <<regionVars, offline, cache, running, late, made, adding, cmds>>

(* A step is open and the operator has time left: cancel it as stale, or send
   the step's command. *)
DispatchStep(d) ==
    LET g == disp[d]
        op == ops[g.op]
    IN  /\ g.pc = "check" /\ StepOpen(d) /\ ~g.timeout
        /\ IF Outdated(op, g.region)
           THEN RemoveOperator(g.op, "CANCEL") /\ UNCHANGED cmds
           ELSE /\ SendScheduleCommand(g.op, op, op.steps[g.step + 1], g.region)
                /\ UNCHANGED <<running, late, ops>>
        /\ disp' = [disp EXCEPT ![d] = Idle]
        /\ UNCHANGED <<regionVars, offline, cache, made, adding>>

(* Otherwise a finished operator succeeds and one out of time is dropped. *)
DispatchEnd(d) ==
    LET g == disp[d]
        op == ops[g.op]
    IN  /\ g.pc = "check" /\ (StepOpen(d) => g.timeout)
        /\ g.step = Len(op.steps) \/ StepOpen(d)
        /\ IF op.current >= Len(op.steps) THEN RemoveOperator(g.op, "SUCCESS")
           ELSE IF g.timeout THEN RemoveOperator(g.op, "TIMEOUT")
           ELSE UNCHANGED <<running, late, ops>>
        /\ disp' = [disp EXCEPT ![d] = Idle]
        /\ UNCHANGED <<regionVars, offline, cache, made, adding, cmds>>

(* The operator's time runs out. *)
Expire ==
    /\ running # 0 /\ ~late
    /\ late' = TRUE
    /\ UNCHANGED <<regionVars, offline, cache, ops, running, made, adding, disp, cmds>>

-----------------------------------------------------------------------------
(* The stores and the region's raft group. *)

RemoveStore(s) ==
    /\ s \notin offline /\ elections + Cardinality(offline) < MaxFaults
    /\ offline' = offline \cup {s}
    /\ UNCHANGED <<regionVars, cache, ops, running, late, made, adding, disp, cmds>>

(* preProposeRaftCommand: by the leader it was meant for, under the conf version
   it was made for. *)
Accepts(c) == leader = c.to /\ c.ver = ConfVer

(* The raft group applies it, if a majority of the peers keeps up. *)
Apply(step) ==
    LET up == StoresOf(Peers) \ pending
        s == step.store
    IN  \/ /\ step.type = "TransferLeader"
           /\ leader' \in {leader} \cup (up \cap {s})
           /\ UNCHANGED <<conf, pending>>
        \/ /\ step.type = "AddPeer" /\ s \notin StoresOf(Peers)
           /\ 2 * Cardinality(up) > Cardinality(Peers)
           /\ ConfVer < MaxConfVer
           /\ conf' = Append(conf, Peers \cup {Peer(s, step.id)})
           /\ pending' = pending \cup {s}
           /\ UNCHANGED leader
        \/ /\ step.type = "RemovePeer" /\ s \in StoresOf(Peers)
           /\ 2 * Cardinality(up) > Cardinality(Peers)
           /\ ConfVer < MaxConfVer
           /\ conf' = Append(conf, {p \in Peers : p.store # s})
           /\ pending' = pending \ {s}
           /\ leader' \in IF leader = s THEN up \ {s} ELSE {leader}

Propose(c) ==
    /\ c \in cmds /\ Accepts(c)
    /\ Apply(c.step)
    /\ cmds' = cmds \ {c}
    /\ UNCHANGED <<elections, offline, cache, ops, running, late, made, adding, disp>>

Reject(c) ==
    /\ c \in cmds /\ ~Accepts(c)
    /\ cmds' = cmds \ {c}
    /\ UNCHANGED <<regionVars, offline, cache, ops, running, late, made, adding, disp>>

CatchUp(s) ==
    /\ s \in pending /\ pending' = pending \ {s}
    /\ UNCHANGED <<conf, leader, elections, offline, cache, ops, running, late, made, adding, disp, cmds>>

Elect(s) ==
    /\ elections + Cardinality(offline) < MaxFaults
    /\ s \in StoresOf(Peers) \ pending /\ s # leader
    /\ leader' = s /\ elections' = elections + 1
    /\ UNCHANGED <<conf, pending, offline, cache, ops, running, late, made, adding, disp, cmds>>

-----------------------------------------------------------------------------
Dispatch(d) ==
    GetOperator(d) \/ CheckStep(d) \/ DispatchStep(d) \/ DispatchEnd(d)

Next ==
    \/ CheckRegion \/ Schedule
    \/ \E c \in Creators : CheckAddOperator(c) \/ AddOperatorLocked(c)
    \/ \E d \in Dispatchers : HandleRegionHeartbeat(d) \/ Dispatch(d)
    \/ Expire
    \/ \E s \in Stores : RemoveStore(s) \/ CatchUp(s) \/ Elect(s)
    \/ \E c \in cmds : Propose(c) \/ Reject(c)

Spec == Init /\ [][Next]_vars

-----------------------------------------------------------------------------
ReplicasStep ==
    LET before == Cardinality(Peers)
        after == Cardinality(conf'[Len(conf')])
    IN  /\ after < before =>
             \/ after >= MaxReplicas
             \/ ConfVer > 1 /\ after >= Cardinality(conf[ConfVer - 1])
        /\ after > before => before <= MaxReplicas

(* No command, however late and whatever became of its operator, adds a peer to
   a region with more than max-replicas, or takes one away from a region that
   has not more, but to replace it: by the peer added last.  The first command
   of an operator is the exception, if the region moved on between the two
   reads of AddOperator: it is not compared with the operator's epoch again. *)
ReplicasKept == [][ReplicasStep \/ (\E c \in cmds \ cmds' : c.outdated)]_vars

(* While a command may still remove a peer for an operator that adds another,
   the other is in the region and has caught up. *)
ReplacedAfterCatchUp ==
    \A c \in cmds :
        c.step.type = "RemovePeer" /\ c.ver = ConfVer =>
            \A i \in DOMAIN ops[c.op].steps :
                LET st == ops[c.op].steps[i]
                IN  st.type = "AddPeer" => Peer(st.store, st.id) \in Peers /\ st.store \notin pending

(* An operator ends once, and the region's operator has not ended: a goroutine
   that comes late to an operator ends neither it again nor its successor. *)
OneOutcome ==
    \A o \in DOMAIN ops :
        /\ Len(ops[o].status) <= 1
        /\ running = o \/ (\E c \in Creators : made[c] = o) <=> ops[o].status = <<>>

Did(op) ==
    \A i \in DOMAIN op.steps :
        LET st == op.steps[i]
        IN  \E v \in op.ver .. ConfVer :
              CASE st.type = "AddPeer" -> Peer(st.store, st.id) \in conf[v]
                [] st.type = "RemovePeer" -> st.store \notin StoresOf(conf[v])
                [] st.type = "TransferLeader" -> TRUE

(* An operator reported as a success changed the region as it says, unless a
   goroutine checked it against a region older than the operator. *)
SuccessIsReal ==
    \A o \in DOMAIN ops : ops[o].status = <<"SUCCESS">> => ops[o].stale \/ Did(ops[o])

=============================================================================
