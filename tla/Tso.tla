--------------------------------- MODULE Tso ---------------------------------
(***************************************************************************)
(* The timestamp oracle, tso/tso.go, the part of Server.campaignLeader     *)
(* that drives it, and the requests that Server.Tso passes to it.  What it *)
(* needs of the leadership is LeaderLease, which Leadership implements.    *)
(*                                                                         *)
(* A member reads a wall clock that may jump.  Wall-clock times are        *)
(* counted in units of which Ms make a millisecond, since timestamps are   *)
(* cut to milliseconds; updateTimestampGuard is one millisecond.           *)
(***************************************************************************)
EXTENDS LeaderLease

CONSTANTS Client,       \* concurrent requests
          Count,        \* how many timestamps a request may ask for
          Wall,         \* readings of the wall clocks, none of them 0
          Ms,           \* units in a millisecond
          SaveInterval, \* saveInterval
          MaxLogical,   \* maxLogical
          MaxPhysical,  \* physical times at which the model stops
          MaxObj,       \* atomicObjects allocated in all
          MaxLease      \* campaigns in all

ASSUME TsoAssumption ==
    /\ Count \subseteq Nat \ {0}
    /\ Wall \subseteq Nat \ {0}
    /\ Ms \in Nat \ {0}
    /\ SaveInterval \in Nat
    /\ SaveInterval > Ms
    /\ MaxLogical \in Nat
    /\ MaxPhysical \in Nat
    /\ MaxObj \in Nat
    /\ MaxLease \in Nat

VARIABLES
    saved,    \* the timestamp in etcd; 0 if there is none
    objs,     \* the atomicObjects allocated so far
    oracle,   \* oracle[m]: the TimestampOracle of member m, with the step that
              \* campaignLeader is at and the lease it campaigns with
    requests, \* requests[c]: a request of client c in GetRespTS; history only:
              \* the lease it began under, and in floor the largest timestamp
              \* returned before it
    latest    \* history only: the largest timestamp returned

tsoVars == <<saved, objs, oracle, requests, latest>>

vars == <<leaseVars, tsoVars>>

updateTimestampGuard == Ms

\* Pointers to an atomicObject: nil, the one of ResetTimestamp, or an index.
Nil == -1

Zero == 0

NewOracle == [step |-> "off", campaign |-> 0, ts |-> Nil, lease |-> 0,
              lastSavedTime |-> 0, next |-> 0]

Idle == [step |-> "idle", member |-> None, ts |-> Nil, count |-> 0,
         last |-> 0, floor |-> 0, lease |-> 0]

Init ==
    /\ LeaseInit
    /\ saved = 0
    /\ objs = << >>
    /\ oracle = [m \in Member |-> NewOracle]
    /\ requests = [c \in Client |-> Idle]
    /\ latest = 0

-----------------------------------------------------------------------------
(* Server.campaignLeader *)

At(m, step) == oracle[m].step = step

Campaign(m) ==
    /\ At(m, "off")
    /\ Len(lease) < MaxLease
    /\ Grant(m)
    /\ oracle' = [oracle EXCEPT ![m] =
                    [@ EXCEPT !.step = "granted", !.campaign = Len(lease) + 1]]
    /\ UNCHANGED <<saved, objs, requests, latest>>

CampaignWon(m) ==
    /\ At(m, "granted")
    /\ Win(oracle[m].campaign, TRUE)
    /\ oracle' = [oracle EXCEPT ![m].step = "elected"]
    /\ UNCHANGED <<saved, objs, requests, latest>>

\* Member.CampaignLeader returns an error; the key may have been put.
CampaignFailed(m) ==
    /\ At(m, "granted")
    /\ \/ Win(oracle[m].campaign, FALSE)
       \/ UNCHANGED leaseVars
    /\ oracle' = [oracle EXCEPT ![m].step = "close"]
    /\ UNCHANGED <<saved, objs, requests, latest>>

\* Mutant of SyncNext: the clock is believed.
SyncNextByClock(last, wall) == wall

\* Where SyncTimestamp starts: ahead of everything saved before.
SyncNext(last, wall) ==
    IF last # 0 /\ wall - last < updateTimestampGuard
    THEN last + updateTimestampGuard
    ELSE wall

\* SyncTimestamp reads the saved time and the clock.
SyncTimestamp(m, wall) ==
    LET next == SyncNext(saved, wall) IN
    /\ At(m, "elected")
    /\ next <= MaxPhysical
    /\ oracle' = [oracle EXCEPT ![m] = [@ EXCEPT !.step = "sync", !.next = next]]
    /\ UNCHANGED <<leaseVars, saved, objs, requests, latest>>

\* A new atomicObject becomes current.
StoreObject(m, next, l, lastSavedTime) ==
    /\ Len(objs) < MaxObj
    /\ objs' = Append(objs, [physical |-> next, logical |-> 0])
    /\ oracle' = [oracle EXCEPT ![m] =
                    [step |-> "serve", campaign |-> oracle[m].campaign,
                     ts |-> Len(objs) + 1, lease |-> l,
                     lastSavedTime |-> lastSavedTime, next |-> 0]]

\* Mutant of Leave: the timestamp is not reset.
LeaveUnreset(m) ==
    oracle' = [oracle EXCEPT ![m] = [@ EXCEPT !.step = "close", !.next = 0]]

\* campaignLeader returns; once SyncTimestamp has succeeded ResetTimestamp
\* comes first.
Leave(m) ==
    LET ts == IF oracle[m].step \in {"elected", "sync"} THEN oracle[m].ts ELSE Zero
    IN oracle' = [oracle EXCEPT ![m] =
                    [@ EXCEPT !.step = "close", !.next = 0, !.ts = ts]]

\* The condition of the transaction of saveTimestamp.
SavePut(m) == key.member = m

\* saveTimestamp.  If the answer is an error the time may have been put all
\* the same.
SaveTimestamp(m, answered) ==
    LET save == oracle[m].next + SaveInterval IN
    /\ oracle[m].step \in {"sync", "save"}
    /\ saved' = IF SavePut(m) THEN save ELSE saved
    /\ \/ /\ SavePut(m) /\ answered
          /\ StoreObject(m, oracle[m].next, oracle[m].campaign, save)
       \/ /\ ~(SavePut(m) /\ answered)
          /\ Leave(m)
          /\ UNCHANGED objs
    /\ UNCHANGED <<leaseVars, requests, latest>>

\* Mutant of NextPhysical: any progress of the clock is taken over.
NextPhysicalEager(prev, wall) ==
    IF wall > prev.physical THEN wall
    ELSE IF prev.logical > MaxLogical \div 2 THEN prev.physical + Ms
    ELSE 0

\* The physical time UpdateTimestamp goes to; 0 if it stays.
NextPhysical(prev, wall) ==
    IF wall - prev.physical > updateTimestampGuard THEN wall
    ELSE IF prev.logical > MaxLogical \div 2 THEN prev.physical + Ms
    ELSE 0

NeedsSave(lastSavedTime, next) ==
    lastSavedTime - next <= updateTimestampGuard

UpdateTimestamp(m, wall) ==
    LET o == oracle[m]
        next == NextPhysical(objs[o.ts], wall)
    IN
    /\ o.step = "serve"
    /\ next # 0
    /\ next <= MaxPhysical
    /\ \/ /\ NeedsSave(o.lastSavedTime, next)
          /\ oracle' = [oracle EXCEPT ![m] = [@ EXCEPT !.step = "save", !.next = next]]
          /\ UNCHANGED objs
       \/ /\ ~NeedsSave(o.lastSavedTime, next)
          /\ StoreObject(m, next, o.lease, o.lastSavedTime)
    /\ UNCHANGED <<leaseVars, saved, requests, latest>>

\* The leader ticker finds the lease expired or etcd's leader changed, the
\* server is closed, or a request to etcd fails without having taken effect.
Resign(m) ==
    /\ oracle[m].step \in {"elected", "sync", "serve", "save"}
    /\ Leave(m)
    /\ UNCHANGED <<leaseVars, saved, objs, requests, latest>>

Close(m, revoked) ==
    /\ At(m, "close")
    /\ CloseLease(oracle[m].campaign, revoked)
    /\ oracle' = [oracle EXCEPT ![m] = [@ EXCEPT !.step = "off", !.campaign = 0]]
    /\ UNCHANGED <<saved, objs, requests, latest>>

\* The process ends, and the requests it was working on.
Restart(m) ==
    /\ Crash(m)
    /\ oracle' = [oracle EXCEPT ![m] = NewOracle]
    /\ requests' = [c \in Client |->
                      IF requests[c].member = m THEN Idle ELSE requests[c]]
    /\ UNCHANGED <<saved, objs, latest>>

-----------------------------------------------------------------------------
(* GetRespTS, in the steps in which it meets other goroutines.  A retry is *)
(* a new request.                                                          *)

\* A timestamp as one number.
Compose(physical, logical) == (physical \div Ms) * MaxLogical + logical

\* The current object is loaded, and is not the one of ResetTimestamp.
LoadObject(c, m, count) ==
    /\ requests[c].step \in {"idle", "done", "panic"}
    /\ oracle[m].ts > Zero
    /\ requests' = [requests EXCEPT ![c] =
                      [step |-> "loaded", member |-> m, ts |-> oracle[m].ts,
                       count |-> count, last |-> 0, floor |-> latest,
                       lease |-> oracle[m].lease]]
    /\ UNCHANGED <<leaseVars, saved, objs, oracle, latest>>

\* There is no object yet: the process ends.  A client is told who leads by
\* any member that has read the key.
LoadNil(c, m) ==
    /\ requests[c].step \in {"idle", "done", "panic"}
    /\ key.member = m
    /\ oracle[m].ts = Nil
    /\ Crash(m)
    /\ oracle' = [oracle EXCEPT ![m] = NewOracle]
    /\ requests' = [d \in Client |->
                      IF d = c THEN [Idle EXCEPT !.step = "panic"]
                      ELSE IF requests[d].member = m THEN Idle
                      ELSE requests[d]]
    /\ UNCHANGED <<saved, objs, latest>>

\* The count of a used-up object stops at MaxLogical: from there on it makes
\* no difference.
AddLogical(c) ==
    LET r == requests[c]
        logical == objs[r.ts].logical + r.count
    IN
    /\ r.step = "loaded"
    /\ objs' = [objs EXCEPT ![r.ts].logical =
                  IF logical >= MaxLogical THEN MaxLogical ELSE logical]
    /\ requests' = [requests EXCEPT ![c] =
                      IF logical >= MaxLogical THEN Idle
                      ELSE [r EXCEPT !.step = "added",
                              !.last = Compose(objs[r.ts].physical, logical)]]
    /\ UNCHANGED <<leaseVars, saved, oracle, latest>>

\* t.lease != nil && !t.lease.IsExpired()
LeaseUnexpired(l) == l # 0 /\ lease[l].valid

\* Mutant of MayReturn: the lease is not looked at again.
MayReturnAlways(m) == TRUE

\* The condition of GetRespTS's return.
MayReturn(m) == LeaseUnexpired(oracle[m].lease)

\* The timestamps are returned unless the lease is expired by now.
Return(c) ==
    LET r == requests[c]
        serves == MayReturn(r.member)
    IN
    /\ r.step = "added"
    /\ \/ /\ ~serves
          /\ requests' = [requests EXCEPT ![c] = Idle]
          /\ UNCHANGED latest
       \/ /\ serves
          /\ requests' = [requests EXCEPT ![c] =
                            [step |-> "done", member |-> None, ts |-> Nil,
                             count |-> r.count, last |-> r.last, floor |-> r.floor,
                             lease |-> IF r.lease = oracle[r.member].lease
                                       THEN r.lease ELSE 0]]
          /\ latest' = IF r.last > latest THEN r.last ELSE latest
    /\ UNCHANGED <<leaseVars, saved, objs, oracle>>

Next ==
    \/ \E S \in SUBSET (1 .. Len(lease)) : Lapse(S) /\ UNCHANGED tsoVars
    \/ \E l \in 1 .. Len(lease) : Extend(l) /\ UNCHANGED tsoVars
    \/ \E l \in 1 .. Len(lease) : EndLease(l) /\ UNCHANGED tsoVars
    \/ DeleteKey /\ UNCHANGED tsoVars
    \/ \E m \in Member : Campaign(m)
    \/ \E m \in Member : CampaignWon(m)
    \/ \E m \in Member : CampaignFailed(m)
    \/ \E m \in Member, wall \in Wall : SyncTimestamp(m, wall)
    \/ \E m \in Member, answered \in BOOLEAN : SaveTimestamp(m, answered)
    \/ \E m \in Member, wall \in Wall : UpdateTimestamp(m, wall)
    \/ \E m \in Member : Resign(m)
    \/ \E m \in Member, revoked \in BOOLEAN : Close(m, revoked)
    \/ \E m \in Member : Restart(m)
    \/ \E c \in Client, m \in Member, n \in Count : LoadObject(c, m, n)
    \/ \E c \in Client, m \in Member : LoadNil(c, m)
    \/ \E c \in Client : AddLogical(c)
    \/ \E c \in Client : Return(c)

Spec == Init /\ [][Next]_vars

-----------------------------------------------------------------------------
(* Properties *)

\* The first of the timestamps a request was given.
First(r) == r.last - r.count + 1

\* A timestamp is larger than every timestamp that had been returned before
\* GetRespTS was called for it, by whichever member, over leader changes,
\* crashes and jumps of the wall clocks, if the member does not win another
\* election during the call.
TimestampsIncreaseInTerm ==
    \A c \in Client :
        requests[c].step = "done" /\ requests[c].lease # 0 =>
            First(requests[c]) > requests[c].floor

\* No two requests are given the same timestamp: each atomicObject, whichever
\* member made it by whichever clock, has a millisecond of its own.
ObjectsDiffer ==
    \A o, p \in 1 .. Len(objs) :
        o # p => objs[o].physical \div Ms # objs[p].physical \div Ms

\* "TSO service is strictly enabled/disabled by leader lease": at any time at
\* most one member has a timestamp to hand out and an unexpired lease.
OneServes ==
    \A m, n \in Member :
        /\ oracle[m].ts > Zero /\ LeaseUnexpired(oracle[m].lease)
        /\ oracle[n].ts > Zero /\ LeaseUnexpired(oracle[n].lease)
        => m = n

\* "The physical time is always less than the saved timestamp", also for a
\* member that no longer leads.
PhysicalBelowSaved ==
    \A m \in Member : oracle[m].ts > Zero => objs[oracle[m].ts].physical < saved

\* "The saved time is monotonically increasing": over all members.
SavedIncreases == [][saved' = saved \/ saved' > saved]_vars

=============================================================================
