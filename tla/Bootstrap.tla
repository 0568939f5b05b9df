----------------------------- MODULE Bootstrap -----------------------------
(***************************************************************************)
(* Stores that start for the first time and agree, through the scheduler,  *)
(* on who creates the first region (kv/raftstore/node.go, bootstrap.go,    *)
(* the loading of peers in raftstore.go, and the scheduler's Bootstrap,    *)
(* IsBootstrapped, AllocID, GetRegion and PutStore).  A store may crash    *)
(* between any two writes, an answer may be lost or be an error and its    *)
(* call still take effect, and the scheduler's leader may change during a  *)
(* call.                                                                   *)
(*                                                                         *)
(* Ids are those of IdAllocator: never handed out twice.  A region is      *)
(* named by the store that prepared it and a number that no region of that *)
(* store has; a number whose region was cleared may be taken again.        *)
(***************************************************************************)
EXTENDS Naturals, FiniteSets, FiniteSetsExt

CONSTANTS
    Members,     \* the members of the scheduler
    NoMember,    \* no member
    Stores,      \* the processes that start, each with its two engines
    NoStore,     \* no store
    MaxTerms,    \* bound: scheduler leaders
    MaxCrashes,  \* bound: crashes of stores
    MaxLosses    \* bound: lost answers and calls that fail halfway

ASSUME BootstrapAssumption == NoMember \notin Members /\ NoStore \notin Stores

RegionNos == 1 .. 3   \* bound: the regions a store has prepared and not cleared

VARIABLES
    ident,       \* Kv engine: the store has a StoreIdent
    prepare,     \* Kv engine: the region under PrepareBootstrapKey, or 0
    regions,     \* Kv engine: the regions with a region and an apply state
    raftStates,  \* Raft engine: the regions with a RaftLocalState
    pc,          \* where Node.Start stands
    firstRegion, \* Node.Start's firstRegion
    call,        \* the member whose Bootstrap answer a store waits for
    late,        \* Bootstrap calls in a member nobody waits for any more
    leaderKey,   \* the member in etcd's leader key
    serving,     \* the members for which IsLeader holds
    running,     \* RaftCluster.running of each member
    root,        \* the store etcd's cluster root was created for, or NoStore
    cache,       \* the store and region each member answers GetRegion("") with
    unheard,     \* history: the root's creation was not answered with success
    terms, crashes, losses

storeVars == <<ident, prepare, regions, raftStates>>
nodeVars == <<pc, firstRegion>>
serverVars == <<leaderKey, serving, running, root, cache>>
bounds == <<terms, crashes, losses>>
vars == <<storeVars, nodeVars, call, late, serverVars, unheard, bounds>>

NoRegion == <<NoStore, 0>>

Init ==
    /\ ident = [s \in Stores |-> FALSE] /\ prepare = [s \in Stores |-> 0]
    /\ regions = [s \in Stores |-> {}] /\ raftStates = [s \in Stores |-> {}]
    /\ pc = [s \in Stores |-> "start"] /\ firstRegion = [s \in Stores |-> 0]
    /\ call = [s \in Stores |-> NoMember] /\ late = {}
    /\ leaderKey = NoMember /\ serving = {}
    /\ running = [m \in Members |-> FALSE] /\ cache = [m \in Members |-> NoRegion]
    /\ root = NoStore /\ unheard = FALSE
    /\ terms = 0 /\ crashes = 0 /\ losses = 0

Goto(s, from, to) == pc[s] = from /\ pc' = [pc EXCEPT ![s] = to]

-----------------------------------------------------------------------------
(* The scheduler's leaders. *)

(* campaignLeader wins the key, createRaftCluster starts the cluster if its
   root is in etcd, and EnableLeader. *)
Campaign(m) ==
    /\ leaderKey = NoMember /\ m \notin serving /\ terms < MaxTerms
    /\ leaderKey' = m /\ serving' = serving \cup {m} /\ terms' = terms + 1
    /\ running' = [running EXCEPT ![m] = @ \/ root # NoStore]
    /\ cache' = [cache EXCEPT ![m] = IF running[m] THEN @ ELSE NoRegion]
    /\ UNCHANGED <<storeVars, nodeVars, call, late, root, unheard, crashes, losses>>

(* The lease runs out: etcd deletes the leader key. *)
LoseKey ==
    /\ leaderKey # NoMember /\ terms < MaxTerms
    /\ leaderKey' = NoMember
    /\ UNCHANGED <<storeVars, nodeVars, call, late, serving, running, root, cache, unheard, bounds>>

(* campaignLeader returns: DisableLeader and stopRaftCluster. *)
StepDown(m) ==
    /\ m \in serving /\ leaderKey # m
    /\ serving' = serving \ {m}
    /\ running' = [running EXCEPT ![m] = FALSE]
    /\ UNCHANGED <<storeVars, nodeVars, call, late, leaderKey, root, cache, unheard, bounds>>

-----------------------------------------------------------------------------
(* Node.Start. *)

(* checkStore. *)
CheckStore(s) ==
    /\ Goto(s, "start", IF ident[s] THEN "check" ELSE "allocStore")
    /\ UNCHANGED <<storeVars, firstRegion, call, late, serverVars, unheard, bounds>>

(* bootstrapStore, with an id from AllocID: BootstrapStore writes the store's
   identity into engines that must be empty, or Start returns an error. *)
EnginesEmpty(s) == regions[s] = {} /\ raftStates[s] = {}

BootstrapStore(s, m) ==
    /\ m \in serving
    /\ Goto(s, "allocStore", IF EnginesEmpty(s) THEN "check" ELSE "start")
    /\ ident' = [ident EXCEPT ![s] = EnginesEmpty(s)]
    /\ UNCHANGED <<prepare, regions, raftStates, firstRegion, call, late, serverVars, unheard, bounds>>

(* checkOrPrepareBootstrapCluster: a prepared region is bootstrapped, else the
   scheduler is asked whether there is a cluster already. *)
CheckPrepared(s) ==
    /\ prepare[s] # 0
    /\ Goto(s, "check", "bootstrap")
    /\ firstRegion' = [firstRegion EXCEPT ![s] = prepare[s]]
    /\ UNCHANGED <<storeVars, call, late, serverVars, unheard, bounds>>

CheckClusterBootstrapped(s, m) ==
    /\ prepare[s] = 0 /\ m \in serving
    /\ Goto(s, "check", IF running[m] THEN "put" ELSE "alloc")
    /\ UNCHANGED <<storeVars, firstRegion, call, late, serverVars, unheard, bounds>>

(* prepareBootstrapCluster takes a region id and a peer id from AllocID;
   PrepareBootstrapCluster writes the Kv engine, then the Raft engine. *)
PrepareKv(s, m) ==
    /\ m \in serving
    /\ Goto(s, "alloc", "prepareRaft")
    /\ LET new == Min(RegionNos \ (regions[s] \cup raftStates[s])) IN
        /\ firstRegion' = [firstRegion EXCEPT ![s] = new]
        /\ prepare' = [prepare EXCEPT ![s] = new]
        /\ regions' = [regions EXCEPT ![s] = @ \cup {new}]
    /\ UNCHANGED <<ident, raftStates, call, late, serverVars, unheard, bounds>>

PrepareRaft(s) ==
    /\ Goto(s, "prepareRaft", "bootstrap")
    /\ raftStates' = [raftStates EXCEPT ![s] = @ \cup {firstRegion[s]}]
    /\ UNCHANGED <<ident, prepare, regions, firstRegion, call, late, serverVars, unheard, bounds>>

(* BootstrapCluster sends Bootstrap.  A member whose cluster runs answers
   ALREADY_BOOTSTRAPPED; another one goes on to bootstrapCluster. *)
SendBootstrap(s, m) ==
    /\ m \in serving
    /\ Goto(s, "bootstrap", IF running[m] THEN "already" ELSE "wait")
    /\ call' = [call EXCEPT ![s] = IF running[m] THEN @ ELSE m]
    /\ UNCHANGED <<storeVars, firstRegion, late, serverVars, unheard, bounds>>

(* bootstrapCluster's transaction creates the root unless there is one, and
   then the member starts its cluster, unless the call fails halfway: Commit
   returns an error although the transaction was made, or cluster.start does.
   The mutant does not look for a root. *)
CreateRootBlind(s, m, ok) ==
    /\ root' = s
    /\ running' = [running EXCEPT ![m] = @ \/ ok]
    /\ cache' = [cache EXCEPT ![m] = IF running[m] THEN @ ELSE NoRegion]

CreateRoot(s, m, ok) ==
    /\ root' = IF root = NoStore THEN s ELSE root
    /\ running' = [running EXCEPT ![m] = @ \/ (root = NoStore /\ ok)]
    /\ cache' = [cache EXCEPT ![m] = IF root = NoStore /\ ~running[m] THEN NoRegion ELSE @]

(* Whether the call goes through. *)
Outcome(ok) ==
    \/ ok /\ UNCHANGED losses
    \/ ~ok /\ root = NoStore /\ losses < MaxLosses /\ losses' = losses + 1

(* The store hears the outcome: it won, or it asks again. *)
BootstrapAnswered(s) ==
    /\ call[s] # NoMember
    /\ \E ok \in BOOLEAN :
        /\ Outcome(ok) /\ CreateRoot(s, call[s], ok)
        /\ Goto(s, "wait", IF root = NoStore /\ ok THEN "won" ELSE "bootstrap")
        /\ unheard' = (unheard \/ ~ok)
    /\ call' = [call EXCEPT ![s] = NoMember]
    /\ UNCHANGED <<storeVars, firstRegion, late, leaderKey, serving, terms, crashes>>

(* The store stops waiting; the call goes on in the member. *)
BootstrapTimeout(s) ==
    /\ losses < MaxLosses /\ losses' = losses + 1
    /\ Goto(s, "wait", "bootstrap")
    /\ late' = late \cup {<<s, call[s]>>}
    /\ call' = [call EXCEPT ![s] = NoMember]
    /\ UNCHANGED <<storeVars, firstRegion, serverVars, unheard, terms, crashes>>

BootstrapUnheard(s, m) ==
    /\ <<s, m>> \in late
    /\ late' = late \ {<<s, m>>}
    /\ \E ok \in BOOLEAN : Outcome(ok) /\ CreateRoot(s, m, ok)
    /\ unheard' = (unheard \/ root = NoStore)
    /\ UNCHANGED <<storeVars, nodeVars, call, leaderKey, serving, terms, crashes>>

(* ClearPrepareBootstrapState. *)
ClearPrepareBootstrapState(s) ==
    /\ Goto(s, "won", "put")
    /\ prepare' = [prepare EXCEPT ![s] = 0]
    /\ UNCHANGED <<ident, regions, raftStates, firstRegion, call, late, serverVars, unheard, bounds>>

(* GetRegion("") after ALREADY_BOOTSTRAPPED: an error makes the store ask
   again, its own region is kept, any other answer clears it; the mutants keep
   whatever region there is, and ask again while no region is known. *)
AfterGetRegionKeep(s, m) == IF running[m] THEN "won" ELSE "bootstrap"
AfterGetRegionRetry(s, m) == IF running[m] /\ cache[m] # NoRegion THEN "clear" ELSE "bootstrap"
AfterGetRegion(s, m) ==
    CASE ~running[m] -> "bootstrap"
      [] running[m] /\ cache[m] = <<s, firstRegion[s]>> -> "won"
      [] OTHER -> "clear"

GetRegion(s, m) ==
    /\ m \in serving
    /\ Goto(s, "already", AfterGetRegion(s, m))
    /\ UNCHANGED <<storeVars, firstRegion, call, late, serverVars, unheard, bounds>>

(* ClearPrepareBootstrap deletes from the Raft engine, then from the Kv
   engine; the mutant does it in the other order. *)
DeleteRaftState(s) ==
    /\ raftStates' = [raftStates EXCEPT ![s] = @ \ {firstRegion[s]}]
    /\ UNCHANGED <<prepare, regions>>

DeleteRegionState(s) ==
    /\ prepare' = [prepare EXCEPT ![s] = 0]
    /\ regions' = [regions EXCEPT ![s] = @ \ {firstRegion[s]}]
    /\ UNCHANGED raftStates

ClearKvFirst(s) ==
    /\ \/ Goto(s, "clear", "clear2") /\ DeleteRegionState(s)
       \/ Goto(s, "clear2", "put") /\ DeleteRaftState(s)
    /\ UNCHANGED <<ident, firstRegion, call, late, serverVars, unheard, bounds>>

ClearPrepareBootstrap(s) ==
    /\ \/ Goto(s, "clear", "clear2") /\ DeleteRaftState(s)
       \/ Goto(s, "clear2", "put") /\ DeleteRegionState(s)
    /\ UNCHANGED <<ident, firstRegion, call, late, serverVars, unheard, bounds>>

(* PutStore; without a running cluster its answer is an error and Start
   returns it, so the process has to be started again. *)
PutStore(s, m) ==
    /\ m \in serving
    /\ Goto(s, "put", IF running[m] THEN "load" ELSE "start")
    /\ UNCHANGED <<storeVars, firstRegion, call, late, serverVars, unheard, bounds>>

(* loadPeers creates a peer for every region with a region state, and
   InitRaftLocalState a Raft state where there is none. *)
LoadPeers(s) ==
    /\ Goto(s, "load", "up")
    /\ raftStates' = [raftStates EXCEPT ![s] = @ \cup regions[s]]
    /\ UNCHANGED <<ident, prepare, regions, firstRegion, call, late, serverVars, unheard, bounds>>

(* The leader of a loaded region reports it to the scheduler. *)
RegionHeartbeat(s, m) ==
    /\ pc[s] = "up" /\ m \in serving /\ running[m]
    /\ \E r \in regions[s] : cache[m] # <<s, r>> /\ cache' = [cache EXCEPT ![m] = <<s, r>>]
    /\ UNCHANGED <<storeVars, nodeVars, call, late, leaderKey, serving, running, root, unheard, bounds>>

(* A store's process dies, or Start gives up, and it is started again. *)
Crash(s) ==
    /\ crashes < MaxCrashes /\ crashes' = crashes + 1
    /\ pc[s] # "start" /\ pc' = [pc EXCEPT ![s] = "start"]
    /\ firstRegion' = [firstRegion EXCEPT ![s] = 0]
    /\ late' = IF call[s] = NoMember THEN late ELSE late \cup {<<s, call[s]>>}
    /\ call' = [call EXCEPT ![s] = NoMember]
    /\ unheard' = (unheard \/ pc[s] = "won")
    /\ UNCHANGED <<storeVars, serverVars, terms, losses>>

-----------------------------------------------------------------------------
Local(s) ==
    \/ CheckStore(s) \/ CheckPrepared(s) \/ PrepareRaft(s)
    \/ BootstrapAnswered(s) \/ ClearPrepareBootstrapState(s)
    \/ ClearPrepareBootstrap(s) \/ LoadPeers(s)

Remote(s, m) ==
    \/ BootstrapStore(s, m) \/ CheckClusterBootstrapped(s, m) \/ PrepareKv(s, m)
    \/ SendBootstrap(s, m)
    \/ GetRegion(s, m) \/ PutStore(s, m)

Next ==
    \/ \E m \in Members : Campaign(m) \/ StepDown(m)
    \/ LoseKey
    \/ \E s \in Stores : Local(s) \/ BootstrapTimeout(s) \/ Crash(s)
    \/ \E s \in Stores, m \in Members :
          Remote(s, m) \/ BootstrapUnheard(s, m) \/ RegionHeartbeat(s, m)

(* Processes that run take their next step, a member is elected when there is
   none, and calls that keep reaching a member are answered. *)
Fairness ==
    /\ \A s \in Stores : WF_vars(Local(s))
    /\ \A s \in Stores, m \in Members : SF_vars(Remote(s, m) /\ leaderKey = m)
    /\ \A m \in Members : WF_vars(StepDown(m))
    /\ WF_vars(\E m \in Members : Campaign(m))

Spec == Init /\ [][Next]_vars
FairSpec == Spec /\ Fairness

-----------------------------------------------------------------------------
(* At most one first region is ever loaded, however many stores prepared one,
   crashed, asked twice or asked members that disagree on whether the cluster
   is bootstrapped (BootstrapCluster). *)
OneFirstRegion ==
    \A s, t \in Stores : pc[s] = "up" /\ pc[t] = "up" =>
        \A r \in regions[s], q \in regions[t] : s = t /\ r = q

(* A store that is up has the same regions in its two engines, although they
   are written one after the other and either write may be the last before a
   crash (PrepareBootstrapCluster, ClearPrepareBootstrap, loadPeers). *)
EnginesAgree ==
    \A s \in Stores : pc[s] = "up" => raftStates[s] = regions[s]

(* The store the cluster was created for keeps its first region, unless it did
   not live to handle the answer of the Bootstrap that created the cluster, or
   the answer was lost or an error (BootstrapCluster: a repeated Bootstrap is
   told ALREADY_BOOTSTRAPPED, the scheduler knows no region yet, and the store
   clears its own). *)
FirstRegionKept ==
    root # NoStore /\ ~unheard => regions[root] # {}

(* Every store comes up, unless the cluster was created and the leader does not
   run it: it then neither accepts stores nor creates the cluster, and only the
   next leader looks for the root again.  The root was created through a member
   after its successor had looked for it (bootstrapCluster's transaction does
   not ask who the leader is), or by a call that then failed, in Commit or in
   cluster.start. *)
StoresComeUp ==
    \/ <>[](\A s \in Stores : pc[s] = "up")
    \/ <>[](root # NoStore /\ \E m \in Members : leaderKey = m /\ ~running[m])
=============================================================================
