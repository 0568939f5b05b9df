-------------------------------- MODULE Raft --------------------------------
(***************************************************************************)
(* A Raft group: one RaftNode per member of Server, exchanging messages    *)
(* over a network that may lose, duplicate, delay and reorder them.        *)
(*                                                                         *)
(* Nothing leaves a node, and nothing is durable, before the caller of     *)
(* RawNode.Ready has written the hard state and the unstable entries       *)
(* (rawnode.go, type Ready).                                               *)
(*                                                                         *)
(* The timers are abstracted: a tick of a follower or candidate may or may *)
(* not reach electionTimeout, which becomeFollower and becomeCandidate     *)
(* draw at random, so MsgHup can come at any time; likewise MsgBeat.       *)
(***************************************************************************)
EXTENDS RaftNode

VARIABLES
    raft,      \* raft[i]: the volatile node, lost by a crash
    hardState, \* hardState[i]: the last HardState the application saved
    stableLog, \* stableLog[i]: the entries the application saved
    network,   \* every message ever handed to the transport
    elections  \* history only: which node became leader in which term

vars == <<raft, hardState, stableLog, network, elections>>

-----------------------------------------------------------------------------
(* Actions *)

Init ==
    /\ hardState = [i \in Server |-> [term |-> 0, vote |-> None, commit |-> 0]]
    /\ stableLog = [i \in Server |-> << >>]
    /\ raft = [i \in Server |-> newRaft(hardState[i], stableLog[i])]
    /\ network = {}
    /\ elections = {}

Update(i, r) ==
    /\ raft' = [raft EXCEPT ![i] = r]
    /\ elections' = elections \cup
           {e \in {[term |-> r.Term, leader |-> i]} : r.State = "StateLeader"}
    /\ UNCHANGED <<hardState, stableLog, network>>

\* tickElection reaches electionTimeout.
Hup(i) ==
    /\ raft[i].State # "StateLeader"
    /\ Update(i, campaign(i, raft[i]))

\* tickHeartbeat reaches heartbeatTimeout.
Beat(i) ==
    /\ raft[i].State = "StateLeader"
    /\ Update(i, beat(i, raft[i]))

Propose(i, d, type) ==
    /\ raft[i].State = "StateLeader"
    /\ Update(i, propose(i, raft[i], d, type))

\* Step ignores a message of an earlier term.
Fresh(m, mtype) ==
    /\ m.mtype = mtype
    /\ m.term >= raft[m.to].Term

StepRequestVote(m) ==
    /\ Fresh(m, "MsgRequestVote")
    /\ Update(m.to, handleRequestVote(m.to, Enter(raft[m.to], m), m))

StepVoteResponse(m) ==
    /\ Fresh(m, "MsgRequestVoteResponse")
    /\ Update(m.to, handleVoteResponse(m.to, Enter(raft[m.to], m), m))

StepAppend(m) ==
    /\ Fresh(m, "MsgAppend")
    /\ Update(m.to, handleAppend(m.to, Enter(raft[m.to], m), m))

StepAppendResponse(m) ==
    /\ Fresh(m, "MsgAppendResponse")
    /\ Update(m.to, handleAppendResponse(m.to, Enter(raft[m.to], m), m))

StepHeartbeat(m) ==
    /\ Fresh(m, "MsgHeartbeat")
    /\ Update(m.to, handleHeartbeat(m.to, Enter(raft[m.to], m), m))

StepHeartbeatResponse(m) ==
    /\ Fresh(m, "MsgHeartbeatResponse")
    /\ Update(m.to, handleHeartbeatResponse(m.to, Enter(raft[m.to], m), m))

\* The application handles one Ready: it saves the hard state and the
\* unstable entries in one write batch, applies the committed entries, and
\* only then sends the messages.
Ready(i) ==
    /\ \/ raft[i].msgs # {}
       \/ hardState[i] # HardStateOf(raft[i])
       \/ stableLog[i] # raft[i].log
    /\ hardState' = [hardState EXCEPT ![i] = HardStateOf(raft[i])]
    /\ stableLog' = [stableLog EXCEPT ![i] = raft[i].log]
    /\ network' = network \cup raft[i].msgs
    /\ raft' = [raft EXCEPT ![i].msgs = {}]
    /\ UNCHANGED elections

\* A crash followed by a restart from what was saved.
Restart(i) ==
    /\ raft' = [raft EXCEPT ![i] = newRaft(hardState[i], stableLog[i])]
    /\ UNCHANGED <<hardState, stableLog, network, elections>>

Next ==
    \/ \E i \in Server : Hup(i)
    \/ \E i \in Server : Beat(i)
    \/ \E i \in Server, d \in Data, type \in ProposeType : Propose(i, d, type)
    \/ \E i \in Server : Ready(i)
    \/ \E i \in Server : Restart(i)
    \/ \E m \in network : StepRequestVote(m)
    \/ \E m \in network : StepVoteResponse(m)
    \/ \E m \in network : StepAppend(m)
    \/ \E m \in network : StepAppendResponse(m)
    \/ \E m \in network : StepHeartbeat(m)
    \/ \E m \in network : StepHeartbeatResponse(m)

Spec == Init /\ [][Next]_vars

-----------------------------------------------------------------------------
(* Properties *)

\* Every variable of struct Raft, the stored state and the messages keep their
\* types.
TypeOK ==
    /\ raft \in [Server -> Node]
    /\ hardState \in [Server -> HardState]
    /\ stableLog \in [Server -> Seq(Entry)]
    /\ network \in SUBSET Message
    /\ elections \in SUBSET [term : Nat, leader : Server]

\* At most one node is ever elected in a term, over crashes and restarts,
\* although becomeLeader clears Vote.
ElectionSafety ==
    \A e, f \in elections : e.term = f.term => e.leader = f.leader

\* A node that names a leader names the one elected in its own term.
LeadIsElected ==
    \A i \in Server : raft[i].Lead # None =>
        [term |-> raft[i].Term, leader |-> raft[i].Lead] \in elections

\* The logs in memory and in storage.
Logs == {raft[i].log : i \in Server} \cup {stableLog[i] : i \in Server}

\* Two entries of the same index and term have the same payload, and so have
\* all entries before them: what handleAppendEntries accepts by comparing one
\* term agrees with the leader's log all the way down.
LogMatching ==
    \A a, b \in Logs : \A k \in 1 .. min(Len(a), Len(b)) :
        a[k].term = b[k].term =>
            \A l \in 1 .. k : a[l].term = b[l].term /\ a[l].data = b[l].data

\* What a node has handed to its state machine: RaftLog.nextEnts returns the
\* log up to the commit index.
Applied(i) == SubSeq(stableLog[i], 1, hardState[i].commit)

\* No two nodes ever disagree on an entry that both have applied, over leader
\* changes, truncations in handleAppendEntries and restarts.
StateMachineSafety ==
    \A i, j \in Server : \A k \in 1 .. min(Len(Applied(i)), Len(Applied(j))) :
        /\ Applied(i)[k].term = Applied(j)[k].term
        /\ Applied(i)[k].data = Applied(j)[k].data

\* RaftLog.committed is "the highest log position that is known to be in
\* stable storage on a quorum of nodes": a majority has saved each entry that
\* some node takes for committed.
CommittedIsStable ==
    \A i \in Server : \A k \in 1 .. raft[i].committed :
        IsMajority({j \in Server : /\ k <= Len(stableLog[j])
                                  /\ stableLog[j][k].term = raft[i].log[k].term})

\* Whatever some node has applied is in the log of every leader whose term is
\* not older than that node's.
LeaderCompleteness ==
    \A i, j \in Server :
        raft[j].State = "StateLeader" /\ raft[j].Term >= hardState[i].term =>
            \A k \in 1 .. hardState[i].commit :
                /\ k <= Len(raft[j].log)
                /\ raft[j].log[k].term = stableLog[i][k].term

\* A node never forgets that an entry is committed, except what it had not
\* saved when it crashed; and it never drops a committed entry from its log.
CommitNeverRegresses ==
    [][\A i \in Server :
        /\ hardState'[i].commit >= hardState[i].commit
        /\ \A k \in 1 .. hardState[i].commit :
               /\ k <= Len(raft'[i].log)
               /\ raft'[i].log[k].term = raft[i].log[k].term]_vars

-----------------------------------------------------------------------------
(* The group implements CommittedLog: the chosen log is the longest prefix
   some node has handed to its state machine. *)

LongestApplied ==
    LET i == CHOOSE i \in Server :
                 \A j \in Server : hardState[j].commit <= hardState[i].commit
    IN [k \in 1 .. Len(Applied(i)) |->
            [term |-> Applied(i)[k].term, data |-> Applied(i)[k].data]]

Committed == INSTANCE CommittedLog WITH chosen <- LongestApplied

\* The sequence of applied entries of the group only grows at its end: the
\* detailed nodes implement CommittedLog (commit rule, handleAppendEntries,
\* restarts).
ImplementsCommittedLog == Committed!Spec

=============================================================================
