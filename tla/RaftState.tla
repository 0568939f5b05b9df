----------------------------- MODULE RaftState ------------------------------
(***************************************************************************)
(* The state of a Raft node and of its messages, and what raft/raft.go and *)
(* raft/log.go compute from a log or from the progress table alone.        *)
(***************************************************************************)
EXTENDS Integers, FiniteSets, Sequences

CONSTANTS Server,      \* the ids in Config.peers
          None,        \* the placeholder id (0 in the code)
          Data,        \* the payloads clients propose
          NoData,      \* the payload of the leader's no-op
          ProposeType, \* the entry types proposed: see EntryType
          MaxUint64    \* the largest uint64

EntryType == {"EntryNormal", "EntryConfChange"}

ASSUME ServerAssumption ==
    /\ IsFiniteSet(Server)
    /\ Server # {}
    /\ None \notin Server

ASSUME DataAssumption ==
    /\ NoData \notin Data
    /\ ProposeType \subseteq EntryType
    /\ MaxUint64 \in Nat

-----------------------------------------------------------------------------
(* Types *)

Entry == [term : Nat, data : Data \cup {NoData}, type : EntryType]

VoteRequest == [mtype : {"MsgRequestVote"}, from : Server, to : Server,
                term : Nat, index : Nat, logTerm : Nat]

VoteResponse == [mtype : {"MsgRequestVoteResponse"}, from : Server,
                 to : Server, term : Nat, reject : BOOLEAN]

AppendRequest == [mtype : {"MsgAppend"}, from : Server, to : Server,
                  term : Nat, index : Nat, logTerm : Nat,
                  entries : Seq(Entry), commit : Nat]

AppendResponse == [mtype : {"MsgAppendResponse"}, from : Server, to : Server,
                   term : Nat, reject : BOOLEAN, index : Nat]

\* The field Commit of a heartbeat is left out: no handler reads it.
Heartbeat == [mtype : {"MsgHeartbeat", "MsgHeartbeatResponse"},
              from : Server, to : Server, term : Nat]

Message == VoteRequest \cup VoteResponse \cup AppendRequest
           \cup AppendResponse \cup Heartbeat

\* struct Raft.  The map votes is kept as the sets of its true and of its
\* false entries; Prs[j] is split into match[j] and next[j].
Node == [Term : Nat, Vote : Server \cup {None},
         State : {"StateFollower", "StateCandidate", "StateLeader"},
         Lead : Server \cup {None},
         granted : SUBSET Server, rejected : SUBSET Server,
         log : Seq(Entry), committed : Nat,
         match : [Server -> Nat], next : [Server -> Nat],
         msgs : SUBSET Message]

HardState == [term : Nat, vote : Server \cup {None}, commit : Nat]

-----------------------------------------------------------------------------
(* Logs and majorities *)

\* RaftLog.Term: index 0 is the dummy entry of the storage, of term 0.
TermAt(log, k) == IF k = 0 THEN 0 ELSE log[k].term

LastTerm(log) == TermAt(log, Len(log))

Single == Cardinality(Server) = 1

\* count > len(r.Prs)/2
IsMajority(S) == Cardinality(S) > Cardinality(Server) \div 2

\* Mutant of UpToDate: only the lengths of the logs are compared.
UpToDateByLength(r, m) == m.index >= Len(r.log)

UpToDate(r, m) ==
    \/ m.logTerm > LastTerm(r.log)
    \/ m.logTerm = LastTerm(r.log) /\ m.index >= Len(r.log)

\* Mutant of Merge: an entry of another term does not cut the log.
MergeNoTruncate(log, prev, entries) ==
    IF prev + Len(entries) <= Len(log) THEN log
    ELSE log \o SubSeq(entries, Len(log) - prev + 1, Len(entries))

\* Mutant of Merge: an entry of another term replaces the log's in place.
MergeOverwrites(log, prev, entries) ==
    [k \in 1 .. (IF prev + Len(entries) > Len(log) THEN prev + Len(entries)
                 ELSE Len(log)) |->
        IF k \in prev + 1 .. prev + Len(entries) THEN entries[k - prev]
        ELSE log[k]]

\* The loop over m.Entries: entries that agree are kept, the first one that
\* is missing or of another term cuts the log, and the rest is appended.
Merge(log, prev, entries) ==
    LET differs == {k \in 1 .. Len(entries) :
                        \/ prev + k > Len(log)
                        \/ log[prev + k].term # entries[k].term}
    IN IF differs = {} THEN log
       ELSE LET k == CHOOSE k \in differs : \A l \in differs : k <= l
            IN SubSeq(log, 1, prev + k - 1) \o SubSeq(entries, k, Len(entries))

\* Mutant of medianMatch: matches[len(matches)/2 + 1].
medianMatchHigh(r) ==
    LET half == Cardinality(Server) \div 2 IN
    CHOOSE v \in {r.match[j] : j \in Server} :
        /\ Cardinality({j \in Server : r.match[j] < v}) <= half + 1
        /\ Cardinality({j \in Server : r.match[j] <= v}) > half + 1

\* The match index matches[(len(matches)-1)/2] of the ascending sort.
medianMatch(r) ==
    LET half == (Cardinality(Server) - 1) \div 2 IN
    CHOOSE v \in {r.match[j] : j \in Server} :
        /\ Cardinality({j \in Server : r.match[j] < v}) <= half
        /\ Cardinality({j \in Server : r.match[j] <= v}) > half

=============================================================================
