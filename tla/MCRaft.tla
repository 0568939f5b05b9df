------------------------------- MODULE MCRaft -------------------------------
(***************************************************************************)
(* Bounded instances of Raft for TLC.                                      *)
(*                                                                         *)
(* EagerNext handles the Ready of a node right after the step that made it *)
(* necessary.  A step and its Ready touch only the node itself and add     *)
(* messages, so they commute with the steps of the other nodes; and a step *)
(* that a crash undoes before its Ready is as if it had not been taken.    *)
(* The runs of FullNext check the separate interleaving on two nodes.      *)
(*                                                                         *)
(* View drops what no later step can depend on: messages whose receiver    *)
(* ignores them for ever, and the progress table of a node that is not     *)
(* leader, which becomeLeader rewrites.                                    *)
(***************************************************************************)
EXTENDS Raft, TLC

CONSTANTS MaxTerm,    \* terms
          MaxLog,     \* entries in a log
          BeatTerms,  \* the terms in which leaders send heartbeats
          Campaigner  \* Campaigner[t]: who may campaign in term t

Anyone == [t \in 1 .. MaxTerm |-> Server]

InTurn == <<{1}, {2}, {1}>>

Bounded ==
    /\ \A i \in Server :
           /\ raft[i].Term <= MaxTerm
           /\ Len(raft[i].log) <= MaxLog
           /\ raft[i].State = "StateCandidate" => i \in Campaigner[raft[i].Term]
           /\ \A j \in Server : raft[i].next[j] <= MaxLog + 1
    /\ \A m \in network : m.mtype = "MsgHeartbeat" => m.term \in BeatTerms

Pending ==
    {i \in Server : \/ raft[i].msgs # {}
                    \/ hardState[i] # HardStateOf(raft[i])
                    \/ stableLog[i] # raft[i].log}

EagerNext ==
    \/ Pending = {} /\ Next /\ Bounded'
    \/ (\E i \in Pending : Ready(i)) /\ Bounded'

EagerSpec == Init /\ [][EagerNext]_vars

FullSpec == Init /\ [][Next /\ Bounded']_vars

Symmetry == Permutations(Server)

Dead(m) ==
    LET r == raft[m.to] IN
    \/ m.term < hardState[m.to].term
    \/ /\ m.term = hardState[m.to].term
       /\ m.term = r.Term
       /\ \/ m.mtype = "MsgRequestVoteResponse" /\ r.State # "StateCandidate"
          \/ /\ m.mtype \in {"MsgAppendResponse", "MsgHeartbeatResponse"}
             /\ r.State # "StateLeader"

View ==
    <<[i \in Server |->
         IF raft[i].State = "StateLeader" THEN raft[i]
         ELSE [raft[i] EXCEPT !.match = << >>, !.next = << >>]],
      hardState, stableLog, {m \in network : ~Dead(m)}, elections>>

=============================================================================
