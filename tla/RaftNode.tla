------------------------------ MODULE RaftNode ------------------------------
(***************************************************************************)
(* One Raft node: raft/raft.go over the in-memory log of raft/log.go.      *)
(*                                                                         *)
(* A node is a record with the fields of the struct Raft.  The methods of  *)
(* the code are operators from the node before to the node after; `i' is   *)
(* the field id.  Handlers only add to msgs: nothing leaves the node before *)
(* the caller of RawNode.Ready sends it.  Raft composes nodes into a group *)
(* and Replication into a leader and a follower.                           *)
(***************************************************************************)
EXTENDS RaftState

-----------------------------------------------------------------------------
(* Helpers *)

\* n-- on a uint64
Dec(n) == IF n = 0 THEN MaxUint64 ELSE n - 1

min(a, b) == IF a < b THEN a ELSE b

\* The entry as sendAppend copies it: Index, Term and Data only, so the type
\* becomes the zero value.
Wire(e) == [term |-> e.term, data |-> e.data, type |-> "EntryNormal"]

\* sendAppend(to): the message sent, if any.  Nothing is sent when
\* RaftLog.Term(Next - 1) fails.
sendAppend(i, r, j) ==
    LET prev == Dec(r.next[j]) IN
    {[mtype |-> "MsgAppend", from |-> i, to |-> j, term |-> r.Term,
      index |-> p, logTerm |-> TermAt(r.log, p),
      entries |-> [k \in 1 .. Len(r.log) - p |-> Wire(r.log[p + k])],
      commit |-> r.committed] : p \in {prev} \cap 0 .. Len(r.log)}

bcastAppend(i, r) ==
    [r EXCEPT !.msgs = @ \cup UNION {sendAppend(i, r, j) : j \in Server \ {i}}]

-----------------------------------------------------------------------------
(* Role changes *)

becomeFollower(r, term, lead) ==
    [r EXCEPT !.State = "StateFollower",
              !.Vote = IF r.Term < term THEN None ELSE @,
              !.Term = IF r.Term < term THEN term ELSE @,
              !.Lead = lead,
              !.granted = {},
              !.rejected = {}]

becomeLeader(i, r) ==
    LET noop == [term |-> r.Term, data |-> NoData, type |-> "EntryNormal"]
        last == Len(r.log)
        l == [r EXCEPT !.State = "StateLeader",
                       !.Lead = i,
                       !.Vote = None,
                       !.granted = {},
                       !.rejected = {},
                       !.log = Append(@, noop),
                       !.match = [j \in Server |-> IF j = i THEN last + 1 ELSE 0],
                       !.next = [j \in Server |-> IF j = i THEN last + 2 ELSE last + 1]]
    IN IF Single THEN [l EXCEPT !.committed = last + 1] ELSE bcastAppend(i, l)

becomeCandidate(i, r) ==
    LET c == [r EXCEPT !.State = "StateCandidate",
                       !.Term = @ + 1,
                       !.Lead = None,
                       !.Vote = i,
                       !.granted = {i},
                       !.rejected = {}]
    IN IF Single THEN becomeLeader(i, c) ELSE c

\* Mutant of newRaft: the saved commit index is not restored.
newRaftUncommitted(hs, log) ==
    [Term |-> hs.term, Vote |-> hs.vote, State |-> "StateFollower",
     Lead |-> None, granted |-> {}, rejected |-> {}, log |-> log,
     committed |-> 0, match |-> [j \in Server |-> 0],
     next |-> [j \in Server |-> 1], msgs |-> {}]

\* newRaft(c) on the storage's hard state and entries.
newRaft(hs, log) ==
    [Term |-> hs.term, Vote |-> hs.vote, State |-> "StateFollower",
     Lead |-> None, granted |-> {}, rejected |-> {}, log |-> log,
     committed |-> hs.commit, match |-> [j \in Server |-> 0],
     next |-> [j \in Server |-> 1], msgs |-> {}]

-----------------------------------------------------------------------------
(* Message handlers: what Step does with a message of the current term *)

\* MsgHup in stepFollower and stepCandidate; a leader ignores it.
campaign(i, r) ==
    LET c == becomeCandidate(i, r) IN
    IF c.State # "StateCandidate" THEN c
    ELSE [c EXCEPT !.msgs = @ \cup
            {[mtype |-> "MsgRequestVote", from |-> i, to |-> j,
              term |-> c.Term, index |-> Len(c.log),
              logTerm |-> LastTerm(c.log)] : j \in Server \ {i}}]

\* Mutant of handleRequestVote: a vote already cast in the term is ignored.
handleRequestVoteAgain(i, r, m) ==
    LET grant == r.State = "StateFollower" /\ UpToDate(r, m)
    IN [r EXCEPT !.Vote = IF grant THEN m.from ELSE @,
                 !.msgs = @ \cup {[mtype |-> "MsgRequestVoteResponse",
                                   from |-> i, to |-> m.from,
                                   term |-> r.Term, reject |-> ~grant]}]

\* MsgRequestVote: candidates and leaders always refuse.
handleRequestVote(i, r, m) ==
    LET grant == /\ r.State = "StateFollower"
                 /\ r.Vote \in {None, m.from}
                 /\ UpToDate(r, m)
    IN [r EXCEPT !.Vote = IF grant THEN m.from ELSE @,
                 !.msgs = @ \cup {[mtype |-> "MsgRequestVoteResponse",
                                   from |-> i, to |-> m.from,
                                   term |-> r.Term, reject |-> ~grant]}]

\* MsgRequestVoteResponse: only a candidate counts votes.
handleVoteResponse(i, r, m) ==
    LET v == [r EXCEPT !.granted = IF m.reject THEN @ \ {m.from}
                                   ELSE @ \cup {m.from},
                       !.rejected = IF m.reject THEN @ \cup {m.from}
                                    ELSE @ \ {m.from}]
    IN CASE r.State # "StateCandidate" -> r
         [] r.State = "StateCandidate" /\ IsMajority(v.granted) ->
                becomeLeader(i, v)
         [] r.State = "StateCandidate" /\ ~IsMajority(v.granted)
                /\ IsMajority(v.rejected) -> becomeFollower(v, v.Term, None)
         [] OTHER -> v

appendResponse(i, r, m, reject, index) ==
    {[mtype |-> "MsgAppendResponse", from |-> i, to |-> m.from,
      term |-> r.Term, reject |-> reject, index |-> index]}

handleAppendEntries(i, r, m) ==
    LET lastNew == m.index + Len(m.entries) IN
    IF m.index > Len(r.log)
    THEN [r EXCEPT !.msgs = @ \cup appendResponse(i, r, m, TRUE, Len(r.log) + 1)]
    ELSE IF TermAt(r.log, m.index) # m.logTerm
    THEN [r EXCEPT !.msgs = @ \cup appendResponse(i, r, m, TRUE, 0)]
    ELSE [r EXCEPT !.log = Merge(@, m.index, m.entries),
                   !.committed = IF m.commit > @ THEN min(m.commit, lastNew) ELSE @,
                   !.msgs = @ \cup appendResponse(i, r, m, FALSE, lastNew)]

\* MsgAppend: a candidate only steps down and leaves the message unhandled; a
\* leader steps down and handles it.
handleAppend(i, r, m) ==
    IF r.State = "StateCandidate" THEN becomeFollower(r, m.term, m.from)
    ELSE handleAppendEntries(i,
            IF r.State = "StateLeader" THEN becomeFollower(r, m.term, m.from)
            ELSE [r EXCEPT !.Lead = m.from], m)

\* Mutant of handleAppendResponse: a refusal does not move Next back.
handleAppendResponseStuck(i, r, m) ==
    LET acked == [r EXCEPT !.match[m.from] = m.index,
                           !.next[m.from] = m.index + 1]
        commit == medianMatch(acked)
    IN CASE r.State # "StateLeader" -> r
         [] r.State = "StateLeader" /\ m.reject ->
                [r EXCEPT !.msgs = @ \cup sendAppend(i, r, m.from)]
         [] r.State = "StateLeader" /\ ~m.reject /\ commit > r.committed
                /\ TermAt(r.log, commit) = r.Term ->
                bcastAppend(i, [acked EXCEPT !.committed = commit])
         [] OTHER -> acked

\* Mutant of handleAppendResponse: a new commit index is not broadcast.
handleAppendResponseQuiet(i, r, m) ==
    LET back == [r EXCEPT !.next[m.from] = Dec(@)]
        acked == [r EXCEPT !.match[m.from] = m.index,
                           !.next[m.from] = m.index + 1]
        commit == medianMatch(acked)
    IN CASE r.State # "StateLeader" -> r
         [] r.State = "StateLeader" /\ m.reject ->
                [back EXCEPT !.msgs = @ \cup sendAppend(i, back, m.from)]
         [] r.State = "StateLeader" /\ ~m.reject /\ commit > r.committed
                /\ TermAt(r.log, commit) = r.Term ->
                [acked EXCEPT !.committed = commit]
         [] OTHER -> acked

\* MsgAppendResponse on a leader.
handleAppendResponse(i, r, m) ==
    LET back == [r EXCEPT !.next[m.from] = Dec(@)]
        acked == [r EXCEPT !.match[m.from] = m.index,
                           !.next[m.from] = m.index + 1]
        commit == medianMatch(acked)
    IN CASE r.State # "StateLeader" -> r
         [] r.State = "StateLeader" /\ m.reject ->
                [back EXCEPT !.msgs = @ \cup sendAppend(i, back, m.from)]
         [] r.State = "StateLeader" /\ ~m.reject /\ commit > r.committed
                /\ TermAt(r.log, commit) = r.Term ->
                bcastAppend(i, [acked EXCEPT !.committed = commit])
         [] OTHER -> acked

\* MsgBeat on a leader: sendHeartbeat to everyone else.
beat(i, r) ==
    [r EXCEPT !.msgs = @ \cup {[mtype |-> "MsgHeartbeat", from |-> i, to |-> j,
                                term |-> r.Term] : j \in Server \ {i}}]

\* MsgHeartbeat: a candidate or leader steps down first.
handleHeartbeat(i, r, m) ==
    LET f == IF r.State = "StateFollower" THEN [r EXCEPT !.Lead = m.from]
             ELSE becomeFollower(r, m.term, m.from)
    IN [f EXCEPT !.msgs = @ \cup {[mtype |-> "MsgHeartbeatResponse",
                                   from |-> i, to |-> m.from,
                                   term |-> f.Term]}]

\* Mutant of handleHeartbeatResponse: nothing is sent again.
handleHeartbeatResponseSilent(i, r, m) == r

\* MsgHeartbeatResponse: a leader resends to a follower that lags behind.
handleHeartbeatResponse(i, r, m) ==
    IF r.State = "StateLeader" /\ r.next[m.from] <= Len(r.log)
    THEN [r EXCEPT !.msgs = @ \cup sendAppend(i, r, m.from)]
    ELSE r

\* MsgPropose with one entry, as RawNode.Propose and ProposeConfChange send
\* it.  Followers and candidates drop it and report no error.
propose(i, r, d, type) ==
    LET last == Len(r.log) + 1
        p == [r EXCEPT !.log = Append(@, [term |-> r.Term, data |-> d, type |-> type]),
                       !.match[i] = last,
                       !.next[i] = last + 1]
    IN IF Single THEN [p EXCEPT !.committed = last] ELSE bcastAppend(i, p)

HardStateOf(r) == [term |-> r.Term, vote |-> r.Vote, commit |-> r.committed]

-----------------------------------------------------------------------------
(* The prologue of Step: a message of a later term makes the node a follower
   of that term before it is handled; one of an earlier term is ignored. *)

\* Mutant of Enter: the sender of a later term is taken for its leader.
EnterFollowing(r, m) ==
    IF m.term > r.Term THEN becomeFollower(r, m.term, m.from) ELSE r

Enter(r, m) ==
    IF m.term > r.Term THEN becomeFollower(r, m.term, None) ELSE r

=============================================================================
