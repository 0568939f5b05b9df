----------------------------- MODULE Replication -----------------------------
(***************************************************************************)
(* Log replication from a leader to one follower, while the leader keeps   *)
(* its term: does the follower's log ever become the leader's?             *)
(*                                                                         *)
(* The two nodes are RaftNodes joined by a connection of each direction,   *)
(* as RaftClient keeps one gRPC stream per store: messages stay in order,  *)
(* but may be lost when the stream breaks.  The other members of Server    *)
(* have elected the leader and have since stopped.                         *)
(***************************************************************************)
EXTENDS RaftNode

CONSTANTS Leader, Follower, \* two members of Server
          Term,             \* the leader's term
          StartLogs,        \* logs the two nodes may start with
          MaxLog,           \* entries in the leader's log
          MaxInFlight       \* messages of a direction before the next Beat

ASSUME ReplicationAssumption ==
    /\ Leader \in Server
    /\ Follower \in Server \ {Leader}
    /\ Term \in Nat
    /\ \A log \in StartLogs : \A k \in 1 .. Len(log) : log[k].term < Term

VARIABLES
    leader,    \* the node Leader
    follower,  \* the node Follower
    toLeader,  \* the messages on their way to Leader, oldest first
    toFollower, \* and to Follower
    lossy      \* does the connection lose messages?

vars == <<leader, follower, toLeader, toFollower, lossy>>

-----------------------------------------------------------------------------
\* The first entry of a term is the no-op of its only leader: two logs that
\* both have entries of a term have it at the same index, and agree before it.
Reachable(a, b) ==
    \A k \in 1 .. Len(a), l \in 1 .. Len(b) :
        a[k].term = b[l].term =>
            \E f \in 1 .. min(k, l) : SubSeq(a, 1, f) = SubSeq(b, 1, f)
                                      /\ a[f].term = a[k].term

\* The messages of a node for the other one; a handler makes at most one.
Outbox(r, to) ==
    LET out == {m \in r.msgs : m.to = to}
    IN IF out = {} THEN << >> ELSE <<CHOOSE m \in out : TRUE>>

Sent(r) == [r EXCEPT !.msgs = {}]

Started(log) == newRaft([term |-> Term, vote |-> None, commit |-> 0], log)

Init ==
    \E a, b \in StartLogs :
        LET l == becomeLeader(Leader, Started(a)) IN
        /\ Reachable(a, b)
        /\ leader = Sent(l)
        /\ follower = Started(b)
        /\ toLeader = << >>
        /\ toFollower = Outbox(l, Follower)
        /\ lossy \in BOOLEAN

LeaderDoes(l, rest) ==
    /\ leader' = Sent(l)
    /\ toLeader' = rest
    /\ toFollower' = toFollower \o Outbox(l, Follower)
    /\ UNCHANGED <<follower, lossy>>

Beat ==
    /\ Len(toFollower) < MaxInFlight
    /\ Len(toLeader) < MaxInFlight
    /\ LeaderDoes(beat(Leader, leader), toLeader)

Propose(d) ==
    /\ Len(leader.log) < MaxLog
    /\ LeaderDoes(propose(Leader, leader, d, "EntryNormal"), toLeader)

LeaderTakes(mtype, handle(_, _, _)) ==
    /\ toLeader # << >>
    /\ Head(toLeader).mtype = mtype
    /\ LeaderDoes(handle(Leader, leader, Head(toLeader)), Tail(toLeader))

FollowerTakes(mtype, handle(_, _, _)) ==
    /\ toFollower # << >>
    /\ Head(toFollower).mtype = mtype
    /\ LET f == handle(Follower, follower, Head(toFollower)) IN
       /\ follower' = Sent(f)
       /\ toLeader' = toLeader \o Outbox(f, Leader)
    /\ toFollower' = Tail(toFollower)
    /\ UNCHANGED <<leader, lossy>>

TakeAppend == FollowerTakes("MsgAppend", handleAppend)

TakeHeartbeat == FollowerTakes("MsgHeartbeat", handleHeartbeat)

TakeAppendResponse == LeaderTakes("MsgAppendResponse", handleAppendResponse)

TakeHeartbeatResponse ==
    LeaderTakes("MsgHeartbeatResponse", handleHeartbeatResponse)

LoseToLeader ==
    /\ lossy
    /\ toLeader # << >>
    /\ toLeader' = Tail(toLeader)
    /\ UNCHANGED <<leader, follower, toFollower, lossy>>

LoseToFollower ==
    /\ lossy
    /\ toFollower # << >>
    /\ toFollower' = Tail(toFollower)
    /\ UNCHANGED <<leader, follower, toLeader, lossy>>

Next ==
    \/ Beat
    \/ \E d \in Data : Propose(d)
    \/ TakeAppend
    \/ TakeHeartbeat
    \/ TakeAppendResponse
    \/ TakeHeartbeatResponse
    \/ LoseToLeader
    \/ LoseToFollower

\* tickHeartbeat fires for ever, and a connection that is used for ever with
\* messages of some kind delivers some of them.
Spec ==
    /\ Init
    /\ [][Next]_vars
    /\ WF_vars(Beat)
    /\ SF_vars(TakeAppend)
    /\ SF_vars(TakeHeartbeat)
    /\ SF_vars(TakeAppendResponse)
    /\ SF_vars(TakeHeartbeatResponse)

-----------------------------------------------------------------------------
(* Properties *)

InSync == follower.log = leader.log

\* What the leader counts as replicated, Prs[Follower].Match, the follower
\* really has, whatever it held before and however answers overtake commits.
MatchIsReplicated ==
    /\ leader.match[Follower] <= Len(follower.log)
    /\ SubSeq(follower.log, 1, leader.match[Follower])
         = SubSeq(leader.log, 1, leader.match[Follower])

\* The leader brings the follower's log into consistency with its own.
FollowerCatchesUp == <>[]InSync

\* The follower learns how far the leader has committed.
CommitReachesFollower == <>[](follower.committed = leader.committed)

\* Over a connection that loses nothing the follower's log becomes the
\* leader's, however heartbeats, refusals and the MsgAppends they cause overlap.
ReliableCatchesUp == ~lossy => FollowerCatchesUp

\* Over a connection that loses nothing the follower learns the commit index,
\* although only MsgAppend carries it: the leader broadcasts each advance.
ReliableCommitReaches == ~lossy => CommitReachesFollower

\* The leader's Next has run below 1: RaftLog.Term fails for Next - 1, and
\* sendAppend sends nothing.
Underflow == Dec(leader.next[Follower]) > Len(leader.log)

\* Message loss delays the follower for ever only through Next running below
\* 1: heartbeats and their answers repair everything else.
OnlyUnderflowStops == <>[]InSync \/ <>Underflow

=============================================================================
