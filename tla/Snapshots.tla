----------------------------- MODULE Snapshots -----------------------------
(***************************************************************************)
(* Snapshots between stores: generated by the region worker, sent and      *)
(* received by the snap worker, applied by the raft worker through the     *)
(* region worker, and collected by the store worker (kv/raftstore/snap,    *)
(* runner/region_task.go, peer_storage.go, store_worker.go,                *)
(* peer_msg_handler.go and kv/storage/raft_storage/snap_runner.go).        *)
(*                                                                         *)
(* Every store leads one region, of its own name, that is at rest, and     *)
(* Follower(r) is the store with a new peer of region r, which needs a     *)
(* snapshot.  So a region has one snapshot key, with the files             *)
(* "gen" on its leader's store and "rev" on its follower's.  The column    *)
(* families' files are one file, "cf"; temporary files are left out: they  *)
(* are renamed to the final ones and removed by a restart.                 *)
(***************************************************************************)
EXTENDS Naturals, Sequences, FiniteSets

CONSTANTS
    Stores,         \* the stores; also the regions they lead
    Follower(_),    \* the store with the follower of a region
    NoRegion,       \* no region
    MaxTries,       \* snapTriedCnt's limit
    Crashing,       \* the stores that may crash
    MaxCrashes,     \* bound: crashes of stores
    MaxRounds       \* bound: rounds of garbage collection and of conflicts

VARIABLES
    files,      \* files[k][r]: those of region r's snapshot of kind k
    registry,   \* registry[k][r]: SnapManager.registry of its key where they are
    deleting,   \* the deletion under a store's registryLock
    snapState,  \* the leader's PeerStorage.snapState, with what Receiver holds
    triedCnt,   \* PeerStorage.snapTriedCnt
    regionTask, \* what a store's region worker does
    tasks,      \* the channel of a store's snap worker
    snapTask,   \* what the snap worker does
    answer,     \* whether there is an answer for a store that waits in CloseAndRecv
    inbox,      \* the messages to the raft worker of a store
    applying,   \* the region whose snapshot the raft worker waits to see applied
    listed,     \* the idle snapshots the store worker has found
    peer,       \* the regions whose follower has a peer
    applied,    \* the regions whose follower has applied the snapshot
    torn,       \* history: the snapshots whose deletion a crash cut short
    fatal,      \* a worker called log.Fatalf
    crashes, rounds

diskVars == <<files, registry, deleting, torn>>
leaderVars == <<snapState, triedCnt>>
snapVars == <<tasks, snapTask, answer>>
raftVars == <<inbox, applying, peer, applied>>
vars == <<diskVars, leaderVars, regionTask, snapVars, raftVars, listed, fatal, crashes, rounds>>

Regions == Stores
Kinds == {"gen", "rev"}
Home(k, r) == IF k = "gen" THEN r ELSE Follower(r)

Free == [by |-> "none"]
Idle == [do |-> "idle"]
Do(what, r) == [do |-> what, region |-> r]

Init ==
    /\ files = [k \in Kinds |-> [r \in Regions |-> {}]]
    /\ registry = [k \in Kinds |-> [r \in Regions |-> {}]]
    /\ deleting = [s \in Stores |-> Free]
    /\ snapState = [r \in Regions |-> "Relax"] /\ triedCnt = [r \in Regions |-> 0]
    /\ regionTask = [s \in Stores |-> Idle]
    /\ tasks = [s \in Stores |-> <<>>] /\ snapTask = [s \in Stores |-> Idle]
    /\ answer = [s \in Stores |-> FALSE]
    /\ inbox = [s \in Stores |-> {}] /\ applying = [s \in Stores |-> NoRegion]
    /\ listed = [s \in Stores |-> {}]
    /\ peer = Regions /\ applied = {} /\ torn = {} /\ fatal = FALSE
    /\ crashes = 0 /\ rounds = 0

-----------------------------------------------------------------------------
(* Snap and SnapManager. *)

Exists(k, r) == files[k][r] = {"cf", "meta"}

(* loadSnapMeta fails: the meta file is there and another is not. *)
Corrupted(k, r) == files[k][r] = {"meta"}

(* The registry's lock is held while a snapshot's files are deleted. *)
Register(k, r, entry) ==
    /\ deleting[Home(k, r)] = Free
    /\ registry' = [registry EXCEPT ![k][r] = @ \cup {entry}]

Deregister(k, r, entry) == registry' = [registry EXCEPT ![k][r] = @ \ {entry}]

(* DeleteSnapshot skips a key that is registered, with checkEntry or without. *)
MayDeleteListed(k, r) == TRUE   \* mutant
MayDelete(k, r) == registry[k][r] = {}

(* DeleteSnapshot: under the lock, the column families' files first.  A
   snapshot that cannot be loaded is left alone by its callers. *)
DeleteSnapshot(by, k, r) ==
    LET s == Home(k, r)
    IN  /\ deleting[s] = Free
        /\ IF Exists(k, r) /\ MayDelete(k, r)
           THEN /\ deleting' = [deleting EXCEPT ![s] = [by |-> by, kind |-> k, region |-> r]]
                /\ files' = [files EXCEPT ![k][r] = @ \ {"cf"}]
           ELSE UNCHANGED <<deleting, files>>
        /\ UNCHANGED <<registry, torn>>

DeleteMeta(s) ==
    LET d == deleting[s]
    IN  /\ d # Free
        /\ files' = [files EXCEPT ![d.kind][d.region] = @ \ {"meta"}]
        /\ deleting' = [deleting EXCEPT ![s] = Free]
        /\ UNCHANGED <<registry, torn, leaderVars, regionTask, snapVars, raftVars, listed, fatal,
                       crashes, rounds>>

RaftWorkerFree(s) == applying[s] = NoRegion /\ deleting[s].by # "raft"
StoreWorkerFree(s) == listed[s] = {} /\ deleting[s].by # "store"

-----------------------------------------------------------------------------
(* Generating: PeerStorage.Snapshot and the region worker. *)

SendWaits(r) == \E i \in DOMAIN tasks[r] : tasks[r][i] = Do("send", r)

(* Snapshot, called by the leader's raft while the follower lacks the log.  A
   snapshot that is ready goes to the snap worker; a failed one is asked for
   again, and after MaxTries failures the next call only resets the count.
   Bound: raft asks for no other while one is being sent. *)
Snapshot(r) ==
    /\ r \notin applied /\ RaftWorkerFree(r) /\ snapState[r] # "Generating"
    /\ ~SendWaits(r) /\ snapTask[r] # Do("wait", r)
    /\ IF snapState[r] = "Ready"
       THEN /\ tasks' = [tasks EXCEPT ![r] = Append(@, Do("send", r))]
            /\ snapState' = [snapState EXCEPT ![r] = "Relax"]
            /\ triedCnt' = [triedCnt EXCEPT ![r] = 0]
       ELSE /\ IF triedCnt[r] >= MaxTries
               THEN /\ snapState' = [snapState EXCEPT ![r] = "Relax"]
                    /\ triedCnt' = [triedCnt EXCEPT ![r] = 0]
               ELSE /\ snapState' = [snapState EXCEPT ![r] = "Generating"]
                    /\ triedCnt' = [triedCnt EXCEPT ![r] = @ + 1]
            /\ UNCHANGED tasks
    /\ UNCHANGED <<diskVars, regionTask, snapTask, answer, raftVars, listed, fatal, crashes, rounds>>

GenEnd(r, result) ==
    /\ snapState' = [snapState EXCEPT ![r] = result]
    /\ regionTask' = [regionTask EXCEPT ![r] = Idle]

(* The order in which Build and Save put the files in their places. *)
SaveOrderMetaFirst == <<"meta", "cf">>   \* mutant
SaveOrder == <<"cf", "meta">>

(* doSnapshot, which registers the key first.  A snapshot that exists is used
   again.  A corrupted one is to be deleted and built again, but DeleteSnapshot
   finds it registered, by doSnapshot itself. *)
GenStart(r) ==
    /\ regionTask[r] = Idle /\ snapState[r] = "Generating"
    /\ deleting[r] = Free
    /\ IF Exists("gen", r) THEN GenEnd(r, "Ready") /\ UNCHANGED <<files, registry>>
       ELSE IF Corrupted("gen", r) THEN GenEnd(r, "Failed") /\ UNCHANGED <<files, registry>>
       ELSE /\ Register("gen", r, "generating")
            /\ files' = [files EXCEPT !["gen"][r] = {SaveOrder[1]}]
            /\ regionTask' = [regionTask EXCEPT ![r] = Do("save", r)]
            /\ UNCHANGED snapState
    /\ UNCHANGED <<deleting, torn, triedCnt, snapVars, raftVars, listed, fatal, crashes, rounds>>

GenSave(r) ==
    /\ regionTask[r] = Do("save", r)
    /\ files' = [files EXCEPT !["gen"][r] = @ \cup {SaveOrder[2]}]
    /\ Deregister("gen", r, "generating")
    /\ GenEnd(r, "Ready")
    /\ UNCHANGED <<deleting, torn, triedCnt, snapVars, raftVars, listed, fatal, crashes, rounds>>

-----------------------------------------------------------------------------
(* Sending and receiving: snapRunner, one goroutine per store. *)

Take(s) == tasks' = [tasks EXCEPT ![s] = Tail(@)]
Heads(s, what, r) == snapTask[s] = Idle /\ tasks[s] # <<>> /\ Head(tasks[s]) = Do(what, r)
Turn(s, task) == snapTask' = [snapTask EXCEPT ![s] = task]

(* A receiving task: sender is whether the sending store still has the stream. *)
Recv(what, r, sender) == [do |-> what, region |-> r, sender |-> sender]

(* The end of the stream, with Done or an error, which sendSnap only logs. *)
Reply(task) == answer' = [answer EXCEPT ![task.region] = @ \/ task.sender]

(* sendSnap up to CloseAndRecv, which has no timeout.  The other store's
   RaftStorage.Snapshot puts the stream into the channel of its snap worker. *)
SendSnap(r) ==
    /\ Heads(r, "send", r)
    /\ deleting[r] = Free
    /\ IF Exists("gen", r)
       THEN /\ Register("gen", r, "sending")
            /\ Turn(r, Do("wait", r))
            /\ tasks' = [tasks EXCEPT ![r] = Tail(@),
                                      ![Follower(r)] = Append(@, Do("recv", r))]
       ELSE Take(r) /\ UNCHANGED <<registry, snapTask>>
    /\ UNCHANGED <<files, deleting, torn, leaderVars, regionTask, answer, raftVars, listed, fatal,
                   crashes, rounds>>

SendEnd(r) ==
    /\ snapTask[r] = Do("wait", r) /\ answer[r]
    /\ Deregister("gen", r, "sending")
    /\ Turn(r, Idle)
    /\ answer' = [answer EXCEPT ![r] = FALSE]
    /\ UNCHANGED <<files, deleting, torn, leaderVars, regionTask, tasks, raftVars, listed, fatal,
                   crashes, rounds>>

(* recvSnap: an error if the file is corrupted, nothing to receive if it exists. *)
RecvStart(r) ==
    LET s == Follower(r)
    IN  /\ Heads(s, "recv", r)
        /\ Take(s)
        /\ IF Corrupted("rev", r)
           THEN /\ Reply(Recv("recv", r, TRUE))
                /\ UNCHANGED <<registry, snapTask>>
           ELSE /\ IF Exists("rev", r)
                   THEN Turn(s, Recv("route", r, TRUE)) /\ UNCHANGED registry
                   ELSE Turn(s, Recv("chunks", r, TRUE)) /\ Register("rev", r, "receiving")
                /\ UNCHANGED answer
        /\ UNCHANGED <<files, deleting, torn, leaderVars, regionTask, raftVars, listed, fatal,
                       crashes, rounds>>

(* The chunks, and Save's first file. *)
RecvChunks(s) ==
    LET t == snapTask[s]
    IN  /\ t.do = "chunks"
        /\ IF t.sender
           THEN /\ files' = [files EXCEPT !["rev"][t.region] = @ \cup {SaveOrder[1]}]
                /\ Turn(s, [t EXCEPT !.do = "meta"])
                /\ UNCHANGED registry
           ELSE /\ Turn(s, Idle) /\ Deregister("rev", t.region, "receiving")
                /\ UNCHANGED files
        /\ UNCHANGED <<deleting, torn, leaderVars, regionTask, tasks, answer, raftVars, listed,
                       fatal, crashes, rounds>>

(* Save's last file; the registration ends when recvSnap returns. *)
RecvSave(s) ==
    LET t == snapTask[s]
    IN  /\ t.do = "meta"
        /\ files' = [files EXCEPT !["rev"][t.region] = @ \cup {SaveOrder[2]}]
        /\ Deregister("rev", t.region, "receiving")
        /\ Turn(s, [t EXCEPT !.do = "route"])
        /\ UNCHANGED <<deleting, torn, leaderVars, regionTask, tasks, answer, raftVars, listed, fatal,
                       crashes, rounds>>

(* recv: the message goes to the peer, then the stream's handler returns.  A
   message for a region without a peer makes the store worker create one only
   if it is an initial message, which MsgSnapshot is not.  The mutant does not
   end the stream. *)
RouteSilently(s) ==
    LET t == snapTask[s]
    IN  /\ t.do = "route"
        /\ inbox' = IF t.region \in peer
                    THEN [inbox EXCEPT ![s] = @ \cup {Do("snapshot", t.region)}] ELSE inbox
        /\ Turn(s, Idle)
        /\ UNCHANGED <<diskVars, leaderVars, regionTask, tasks, answer, applying, peer, applied, listed,
                       fatal, crashes, rounds>>

Route(s) ==
    LET t == snapTask[s]
    IN  /\ t.do = "route"
        /\ inbox' = IF t.region \in peer
                    THEN [inbox EXCEPT ![s] = @ \cup {Do("snapshot", t.region)}] ELSE inbox
        /\ Turn(s, Idle)
        /\ Reply(t)
        /\ UNCHANGED <<diskVars, leaderVars, regionTask, tasks, applying, peer, applied, listed, fatal,
                       crashes, rounds>>

-----------------------------------------------------------------------------
(* The follower's peer. *)

(* The store worker creates the peer from a request for its vote.  A leader's
   heartbeats carry a commit index other than 0 and are no initial messages, so
   that nothing is sure to create it. *)
CreatePeer(r) ==
    /\ r \notin peer /\ StoreWorkerFree(Follower(r))
    /\ peer' = peer \cup {r}
    /\ UNCHANGED <<diskVars, leaderVars, regionTask, snapVars, inbox, applying, applied, listed, fatal,
                   crashes, rounds>>

Receive(s, m) ==
    /\ RaftWorkerFree(s) /\ m \in inbox[s]
    /\ inbox' = [inbox EXCEPT ![s] = @ \ {m}]

(* onRaftMsg with a snapshot: dropped if its files are gone, deleted if it
   conflicts with a region of the store (other regions are outside the model:
   a conflict is a choice), and else stepped into raft, which ignores one that
   it has applied and otherwise waits for the region worker to apply it. *)
OnSnapshot(r) ==
    LET s == Follower(r)
    IN  /\ Receive(s, Do("snapshot", r))
        /\ \/ /\ rounds < MaxRounds /\ rounds' = rounds + 1
              /\ r \notin applied
              /\ DeleteSnapshot("raft", "rev", r)
              /\ UNCHANGED applying
           \/ /\ applying' = IF Exists("rev", r) /\ r \notin applied
                             THEN [applying EXCEPT ![s] = r] ELSE applying
              /\ UNCHANGED <<diskVars, rounds>>
        /\ UNCHANGED <<leaderVars, regionTask, snapVars, peer, applied, listed, fatal, crashes>>

(* applySnap by the region worker: log.Fatalf if the snapshot is missing. *)
ApplyStart(r) ==
    LET s == Follower(r)
    IN  /\ applying[s] = r /\ regionTask[s] = Idle
        /\ Register("rev", r, "applying")
        /\ regionTask' = [regionTask EXCEPT ![s] = Do("apply", r)]
        /\ fatal' = ~Exists("rev", r)
        /\ UNCHANGED <<files, deleting, torn, leaderVars, snapVars, raftVars, listed, crashes, rounds>>

ApplyEnd(r) ==
    LET s == Follower(r)
    IN  /\ regionTask[s] = Do("apply", r)
        /\ Deregister("rev", r, "applying")
        /\ regionTask' = [regionTask EXCEPT ![s] = Idle]
        /\ fatal' = ~Exists("rev", r)
        /\ applying' = [applying EXCEPT ![s] = NoRegion]
        /\ applied' = applied \cup {r}
        /\ UNCHANGED <<files, deleting, torn, leaderVars, snapVars, inbox, peer, listed, crashes, rounds>>

-----------------------------------------------------------------------------
(* Garbage collection. *)

(* handleSnapMgrGC: ListIdleSnap, the snapshots with a meta file and without
   an entry in the registry. *)
ListIdleSnap(s) ==
    /\ StoreWorkerFree(s) /\ rounds < MaxRounds /\ rounds' = rounds + 1
    /\ deleting[s] = Free
    /\ listed' = [listed EXCEPT ![s] =
           {x \in [kind : Kinds, region : Regions] :
                /\ Home(x.kind, x.region) = s
                /\ "meta" \in files[x.kind][x.region]
                /\ registry[x.kind][x.region] = {}}]
    /\ UNCHANGED <<diskVars, leaderVars, regionTask, snapVars, raftVars, fatal, crashes>>

(* scheduleGCSnap: to the region's peer, or deleted here if there is none; one
   that cannot be loaded ends the round.  The mutant always deletes here. *)
ScheduleGCHere(s, x) ==
    /\ x \in listed[s] /\ deleting[s].by # "store"
    /\ listed' = [listed EXCEPT ![s] = @ \ {x}]
    /\ DeleteSnapshot("store", x.kind, x.region)
    /\ UNCHANGED <<leaderVars, regionTask, snapVars, raftVars, fatal, crashes, rounds>>

ScheduleGCSnap(s, x) ==
    /\ x \in listed[s] /\ deleting[s].by # "store"
    /\ IF x.kind = "gen" \/ x.region \in peer
       THEN /\ inbox' = [inbox EXCEPT ![s] = @ \cup {Do(x.kind, x.region)}]
            /\ listed' = [listed EXCEPT ![s] = @ \ {x}]
            /\ UNCHANGED diskVars
       ELSE /\ DeleteSnapshot("store", x.kind, x.region)
            /\ listed' = [listed EXCEPT ![s] = IF Exists(x.kind, x.region) THEN @ \ {x} ELSE {}]
            /\ UNCHANGED inbox
    /\ UNCHANGED <<leaderVars, regionTask, snapVars, applying, peer, applied, fatal, crashes, rounds>>

(* onGCSnap: a sent snapshot when it is compacted or four hours old, a received
   one when it is applied. *)
OnGCSnap(k, r) ==
    /\ Receive(Home(k, r), Do(k, r))
    /\ IF k = "rev" /\ r \notin applied THEN UNCHANGED diskVars
       ELSE DeleteSnapshot("raft", k, r)
    /\ UNCHANGED <<leaderVars, regionTask, snapVars, applying, peer, applied, listed, fatal, crashes,
                   rounds>>

-----------------------------------------------------------------------------
(* A store crashes and starts again with its files; SnapManager.Init removes
   the temporary ones.  Streams from and to it break. *)
Crash(s) ==
    LET Lose(f, empty) == [f EXCEPT ![s] = empty]
        LoseKey(k) == [r \in Regions |-> IF Home(k, r) = s THEN {} ELSE registry[k][r]]
        Broken(q) == SelectSeq(q, LAMBDA t : t # Do("recv", s))
    IN  /\ s \in Crashing /\ crashes < MaxCrashes /\ crashes' = crashes + 1
        /\ registry' = [k \in Kinds |-> LoseKey(k)]
        /\ torn' = IF deleting[s] = Free THEN torn
                   ELSE torn \cup {<<deleting[s].kind, deleting[s].region>>}
        /\ deleting' = Lose(deleting, Free)
        /\ snapState' = Lose(snapState, "Relax") /\ triedCnt' = Lose(triedCnt, 0)
        /\ regionTask' = Lose(regionTask, Idle)
        /\ tasks' = [x \in Stores |-> IF x = s THEN <<>> ELSE Broken(tasks[x])]
        /\ snapTask' = [x \in Stores |->
               IF x = s THEN Idle
               ELSE IF "sender" \in DOMAIN snapTask[x] /\ snapTask[x].region = s
               THEN [snapTask[x] EXCEPT !.sender = FALSE] ELSE snapTask[x]]
        /\ answer' = [x \in Stores |->
               x # s /\ (answer[x] \/ (snapTask[x] = Do("wait", x) /\ Follower(x) = s))]
        /\ inbox' = Lose(inbox, {}) /\ applying' = Lose(applying, NoRegion)
        /\ listed' = Lose(listed, {})
        /\ peer' = {r \in peer : Follower(r) = s => r \in applied}
        /\ UNCHANGED <<files, applied, fatal, rounds>>

RegionWorker(s) ==
    \/ GenStart(s) \/ GenSave(s)
    \/ \E r \in Regions : Follower(r) = s /\ (ApplyStart(r) \/ ApplyEnd(r))

SnapWorker(s) ==
    \/ SendSnap(s) \/ SendEnd(s)
    \/ \E r \in Regions : Follower(r) = s /\ RecvStart(r)
    \/ RecvChunks(s) \/ RecvSave(s) \/ Route(s)

RaftWorker(s) ==
    \/ \E r \in Regions : Follower(r) = s /\ OnSnapshot(r)
    \/ \E k \in Kinds, r \in Regions : Home(k, r) = s /\ OnGCSnap(k, r)

StoreWorker(s) == \E x \in listed[s] : ScheduleGCSnap(s, x)

Next ==
    \E s \in Stores :
        \/ Snapshot(s) \/ RegionWorker(s) \/ SnapWorker(s) \/ RaftWorker(s) \/ StoreWorker(s)
        \/ DeleteMeta(s) \/ ListIdleSnap(s) \/ CreatePeer(s) \/ Crash(s)

(* The workers are goroutines that take what is in their channels, and raft
   asks for a snapshot as long as the follower needs one. *)
Spec ==
    /\ Init /\ [][Next]_vars
    /\ \A s \in Stores :
           /\ WF_vars(Snapshot(s)) /\ WF_vars(RegionWorker(s)) /\ WF_vars(SnapWorker(s))
           /\ WF_vars(RaftWorker(s)) /\ WF_vars(StoreWorker(s)) /\ WF_vars(DeleteMeta(s))

-----------------------------------------------------------------------------
(* Properties *)

\* The region worker always finds the snapshot it is to apply: nothing deletes
\* it between the check in onRaftMsg and the end of applySnap, which would end
\* the process (handleApply calls log.Fatalf).
NoMissingApply == ~fatal

\* What is being sent or applied stays whole, although garbage collection found
\* it idle before it was registered: DeleteSnapshot looks at the registry again.
RegisteredKept ==
    \A k \in Kinds, r \in Regions :
        registry[k][r] \cap {"sending", "applying"} # {} => Exists(k, r)

\* A meta file whose other files are missing, which loadSnapMeta refuses, comes
\* only from a deletion: crashes while Build or Save put the files in their
\* places leave none.
WholeOrDeleted ==
    \A k \in Kinds, r \in Regions :
        Corrupted(k, r) => \/ <<k, r>> \in torn
                           \/ /\ deleting[Home(k, r)] # Free
                              /\ deleting[Home(k, r)].kind = k
                              /\ deleting[Home(k, r)].region = r

\* The snap workers of these stores wait for each other's.
Cycle(S) == S # {} /\ \A s \in S : snapTask[s] = Do("wait", s) /\ Follower(s) \in S

\* The follower of a region gets and applies its snapshot, whatever fails and
\* is collected meanwhile.  Three things alone stop it: stores that send to each
\* other, each with its only snap worker in CloseAndRecv (snap_runner.go); a
\* deletion that a crash cut short, on either store (snap.go, Delete): the
\* corrupted snapshot is neither received over nor built again; and a crash of
\* the follower before it applied the snapshot, when no election follows: its
\* peer was not saved, and a stable leader's messages do not create it again
\* (IsInitialMsg, maybeCreatePeer).
OnlyTheseStop ==
    \A r \in Regions :
        \/ <>(r \in applied)
        \/ <>[](\E S \in SUBSET Stores : Cycle(S))
        \/ <>[](\E k \in Kinds : Corrupted(k, r) /\ <<k, r>> \in torn)
        \/ <>[](r \notin peer)

=============================================================================
