----------------------------- MODULE TsoProofs ------------------------------
(***************************************************************************)
(* For any number of members, requests, leases and objects, whatever the   *)
(* clocks show: a leader whose lease looks unexpired has the key, one      *)
(* member serves, the saved time grows and stays ahead, no two objects     *)
(* share a millisecond, and timestamps increase.                           *)
(***************************************************************************)
EXTENDS Tso, TLAPS

USE ZenonT(10), SMTT(30)

Steps == {"off", "granted", "elected", "sync", "serve", "save", "close"}

Lease == [member : Member, valid : BOOLEAN,
          phase : {"granted", "won", "closed", "lost"}]

Oracle == [step : Steps, campaign : Nat, ts : Int, lease : Nat,
           lastSavedTime : Nat, next : Nat]

Request == [step : {"idle", "loaded", "added", "done", "panic"},
            member : Member \cup {None}, ts : Int, count : Nat,
            last : Int, floor : Int, lease : Nat]

TypeOK ==
    /\ key \in [member : Member \cup {None}, lease : Nat]
    /\ lease \in Seq(Lease)
    /\ saved \in Nat
    /\ objs \in Seq([physical : Nat, logical : Nat])
    /\ oracle \in [Member -> Oracle]
    /\ requests \in [Client -> Request]
    /\ \A c \in Client : requests[c].step \in {"loaded", "added"} =>
           requests[c].member \in Member /\ requests[c].ts \in 1 .. Len(objs)
    /\ latest \in Int

\* The key was put by the member of its lease.
KeyInv ==
    key # NoKey => /\ key.lease \in 1 .. Len(lease)
                   /\ key.member = lease[key.lease].member

\* A lease with which its member has won, or that has ended since.
WonOrOver(l) == l.phase = "won" \/ (l.phase = "lost" /\ ~l.valid)

Leading(m) == oracle[m].step \in {"elected", "sync", "serve", "save"}

Serving(m) == oracle[m].step \in {"serve", "save"}

\* A member that takes itself for the leader has won with its lease, or the
\* lease has ended unnoticed; the key, if it is the member's, is of this lease.
CampaignOK(m) ==
    /\ oracle[m].step # "off" =>
           /\ oracle[m].campaign \in 1 .. Len(lease)
           /\ lease[oracle[m].campaign].member = m
    /\ Leading(m) =>
           /\ WonOrOver(lease[oracle[m].campaign])
           /\ key.member = m => key.lease = oracle[m].campaign
    /\ Serving(m) => /\ oracle[m].ts \in 1 .. Len(objs)
                     /\ oracle[m].lease = oracle[m].campaign
    /\ ~Serving(m) => oracle[m].ts \in {Nil, Zero}

CampaignInv == \A m \in Member : CampaignOK(m)

Current(m) == objs[oracle[m].ts].physical

End(m) == oracle[m].lastSavedTime

\* The physical times from Current(m) to End(m) belong to a serving member m:
\* no other object is there.  While m has the key, End(m) is the saved time.
WindowOK(m) ==
    /\ oracle[m].step = "sync" /\ key.member = m =>
           saved = 0 \/ oracle[m].next >= saved + Ms
    /\ Serving(m) =>
           /\ Current(m) < End(m)
           /\ End(m) <= saved
           /\ key.member = m => End(m) = saved
           /\ \A p \in 1 .. Len(objs) :
                  objs[p].physical <= Current(m) \/ objs[p].physical > End(m)
           /\ oracle[m].step = "save" =>
                  oracle[m].next >= Current(m) + Ms /\ End(m) - oracle[m].next <= Ms

\* Two members have disjoint times.
Apart(m, n) ==
    Serving(m) /\ Serving(n) => End(m) < Current(n) \/ End(n) < Current(m)

WindowInv ==
    /\ \A m \in Member : WindowOK(m)
    /\ \A m, n \in Member : m # n => Apart(m, n)

\* Objects are a millisecond apart and behind the saved time.
ObjectInv ==
    \A o \in 1 .. Len(objs) :
        /\ objs[o].physical < saved
        /\ \A p \in 1 .. Len(objs) :
               o # p => \/ objs[o].physical >= objs[p].physical + Ms
                        \/ objs[p].physical >= objs[o].physical + Ms

TsoInv == TypeOK /\ KeyInv /\ LeaseGuardsKey /\ CampaignInv /\ WindowInv /\ ObjectInv

-----------------------------------------------------------------------------
(* Sequences and types *)

(* The length and the elements of a sequence. *)
LEMMA SeqIs ==
    ASSUME NEW S, NEW seq \in Seq(S)
    PROVE  Len(seq) \in Nat /\ seq \in [1 .. Len(seq) -> S] /\ DOMAIN seq = 1 .. Len(seq)
BY SMT

(* The empty sequence. *)
LEMMA EmptyIs ==
    ASSUME NEW S
    PROVE  << >> \in Seq(S) /\ Len(<< >>) = 0
BY SMT

(* What Append returns. *)
LEMMA AppendIs ==
    ASSUME NEW S, NEW seq \in Seq(S), NEW e \in S
    PROVE  /\ Append(seq, e) \in Seq(S)
           /\ Len(Append(seq, e)) = Len(seq) + 1
           /\ \A k \in 1 .. Len(seq) : Append(seq, e)[k] = seq[k]
           /\ Append(seq, e)[Len(seq) + 1] = e
BY SMT

(* A function on 1 .. n is a sequence. *)
LEMMA FunctionIsSeq ==
    ASSUME NEW S, NEW n \in Nat, NEW f \in [1 .. n -> S]
    PROVE  f \in Seq(S) /\ Len(f) = n
BY SMT

LeaseTypes ==
    /\ key \in [member : Member \cup {None}, lease : Nat]
    /\ lease \in Seq(Lease)

\* Every operation on leases but Grant keeps their number; all keep the types.
LEMMA LeaseTypesKept ==
    ASSUME LeaseTypes, LeaseNext
    PROVE  /\ LeaseTypes'
           /\ \/ /\ \E m \in Member : Grant(m)
                 /\ Len(lease') = Len(lease) + 1
              \/ Len(lease') = Len(lease)
<1> USE DEF LeaseTypes, NoKey
<1>0. Len(lease) \in Nat /\ lease \in [1 .. Len(lease) -> Lease]
  BY SeqIs
<1>a. ASSUME lease' \in [1 .. Len(lease) -> Lease]
      PROVE  lease' \in Seq(Lease) /\ Len(lease') = Len(lease)
  BY <1>0, <1>a, FunctionIsSeq
<1>b. \A l : KeyWithout(l) \in [member : Member \cup {None}, lease : Nat]
  BY DEF KeyWithout
<1>1. ASSUME NEW m \in Member, Grant(m)
      PROVE  key' = key /\ lease' \in Seq(Lease) /\ Len(lease') = Len(lease) + 1
  <2>1. [member |-> m, valid |-> TRUE, phase |-> "granted"] \in Lease
    BY DEF Lease
  <2> QED
    BY <1>1, <2>1, AppendIs DEF Grant
<1>2. ASSUME NEW l \in 1 .. Len(lease), NEW answered \in BOOLEAN, Win(l, answered)
      PROVE  /\ key' \in [member : Member \cup {None}, lease : Nat]
             /\ lease' \in [1 .. Len(lease) -> Lease]
  BY SMT, <1>0, <1>2 DEF Win, Lease
<1>3. ASSUME NEW l \in 1 .. Len(lease), NEW revoked \in BOOLEAN,
             CloseLease(l, revoked)
      PROVE  /\ key' \in [member : Member \cup {None}, lease : Nat]
             /\ lease' \in [1 .. Len(lease) -> Lease]
  <2>1. key' \in {key, KeyWithout(l)}
    BY <1>3, Zenon DEF CloseLease
  <2>2. lease' \in [1 .. Len(lease) -> Lease]
    <3> DEFINE phase == IF lease[l].phase = "won" THEN "closed" ELSE "lost"
    <3>1. phase \in {"closed", "lost"}
      OBVIOUS
    <3>2. lease' = [lease EXCEPT ![l].valid = FALSE, ![l].phase = phase]
      BY <1>3, Zenon DEF CloseLease
    <3> HIDE DEF phase
    <3> QED
      BY ZenonT(30), <1>0, <3>1, <3>2 DEF Lease
  <2> QED
    BY <1>0, <1>b, <2>1, <2>2
<1>4. ASSUME NEW S \in SUBSET (1 .. Len(lease)), Lapse(S)
      PROVE  key' = key /\ lease' \in [1 .. Len(lease) -> Lease]
  BY <1>0, <1>4 DEF Lapse, Lease
<1>5. ASSUME NEW l \in 1 .. Len(lease), Extend(l)
      PROVE  key' = key /\ lease' \in [1 .. Len(lease) -> Lease]
  BY <1>0, <1>5 DEF Extend, Lease
<1>6. ASSUME NEW l \in 1 .. Len(lease), EndLease(l)
      PROVE  /\ key' \in [member : Member \cup {None}, lease : Nat]
             /\ lease' \in [1 .. Len(lease) -> Lease]
  BY <1>0, <1>b, <1>6 DEF EndLease, Lease
<1>7. ASSUME NEW m \in Member, Crash(m)
      PROVE  key' = key /\ lease' \in [1 .. Len(lease) -> Lease]
  BY <1>0, <1>7 DEF Crash, Lease
<1>8. ASSUME DeleteKey
      PROVE  /\ key' \in [member : Member \cup {None}, lease : Nat]
             /\ lease' \in [1 .. Len(lease) -> Lease]
  BY <1>0, <1>8 DEF DeleteKey
<1> QED
  BY <1>a, <1>1, <1>2, <1>3, <1>4, <1>5, <1>6, <1>7, <1>8 DEF LeaseNext

Obj == [physical : Nat, logical : Nat]

\* Each step of the oracle is at most one operation on the leases.
LEMMA StepIsLeaseStep ==
    ASSUME TypeOK, CampaignInv, Next
    PROVE  LeaseNext \/ UNCHANGED leaseVars
<1>1. ASSUME NEW m \in Member, Campaign(m)  PROVE LeaseNext
  BY <1>1 DEF Campaign, LeaseNext
<1>2. ASSUME NEW m \in Member, CampaignWon(m)  PROVE LeaseNext
  <2>1. oracle[m].campaign \in 1 .. Len(lease)
    BY <1>2 DEF CampaignWon, At, CampaignInv, CampaignOK
  <2> QED
    BY <1>2, <2>1, TRUE \in BOOLEAN, Zenon DEF CampaignWon, LeaseNext
<1>3. ASSUME NEW m \in Member, CampaignFailed(m)
      PROVE  LeaseNext \/ UNCHANGED leaseVars
  <2>1. oracle[m].campaign \in 1 .. Len(lease)
    BY <1>3 DEF CampaignFailed, At, CampaignInv, CampaignOK
  <2> QED
    BY <1>3, <2>1, FALSE \in BOOLEAN, Zenon DEF CampaignFailed, LeaseNext
<1>4. ASSUME NEW m \in Member, NEW revoked \in BOOLEAN, Close(m, revoked)
      PROVE  LeaseNext
  <2>1. oracle[m].campaign \in 1 .. Len(lease)
    BY <1>4 DEF Close, At, CampaignInv, CampaignOK
  <2> QED
    BY <1>4, <2>1, Zenon DEF Close, LeaseNext
<1>5. ASSUME NEW m \in Member, Restart(m) \/ \E c \in Client : LoadNil(c, m)
      PROVE  LeaseNext
  BY <1>5 DEF Restart, LoadNil, LeaseNext
<1>6. CASE \/ \E S \in SUBSET (1 .. Len(lease)) : Lapse(S)
           \/ \E l \in 1 .. Len(lease) : Extend(l)
           \/ \E l \in 1 .. Len(lease) : EndLease(l)
           \/ DeleteKey
  BY <1>6 DEF LeaseNext
<1>7. CASE \/ \E m \in Member, wall \in Wall : SyncTimestamp(m, wall)
           \/ \E m \in Member, answered \in BOOLEAN : SaveTimestamp(m, answered)
           \/ \E m \in Member, wall \in Wall : UpdateTimestamp(m, wall)
           \/ \E m \in Member : Resign(m)
           \/ \E c \in Client, m \in Member, n \in Count : LoadObject(c, m, n)
           \/ \E c \in Client : AddLogical(c)
           \/ \E c \in Client : Return(c)
  BY <1>7, Zenon DEF SyncTimestamp, SaveTimestamp, UpdateTimestamp, Resign, LoadObject,
             AddLogical, Return
<1> QED
  BY <1>1, <1>2, <1>3, <1>4, <1>5, <1>6, <1>7 DEF Next

\* Storing an object keeps the types.
LEMMA StoreObjectTypes ==
    ASSUME TypeOK, NEW m \in Member, NEW next \in Nat, NEW l \in Nat,
           NEW lastSavedTime \in Nat, StoreObject(m, next, l, lastSavedTime)
    PROVE  /\ objs' \in Seq(Obj)
           /\ Len(objs') = Len(objs) + 1
           /\ oracle' \in [Member -> Oracle]
<1>1. Len(objs) \in Nat /\ objs \in Seq(Obj)
  BY SeqIs DEF TypeOK, Obj
<1>2. [physical |-> next, logical |-> 0] \in Obj
  BY DEF Obj
<1>3. objs' \in Seq(Obj) /\ Len(objs') = Len(objs) + 1
  BY <1>1, <1>2, AppendIs DEF StoreObject
<1>4. [step |-> "serve", campaign |-> oracle[m].campaign, ts |-> Len(objs) + 1,
       lease |-> l, lastSavedTime |-> lastSavedTime, next |-> 0] \in Oracle
  BY SMT, <1>1 DEF TypeOK, Oracle, Steps
<1>5. oracle' \in [Member -> Oracle]
  BY <1>4 DEF StoreObject, TypeOK
<1> QED
  BY <1>3, <1>5

\* UpdateTimestamp goes on to a natural number.
LEMMA NextPhysicalType ==
    ASSUME TypeOK, CampaignInv, NEW m \in Member, NEW wall \in Wall, At(m, "serve")
    PROVE  NextPhysical(objs[oracle[m].ts], wall) \in Nat
<1>1. oracle[m].ts \in 1 .. Len(objs)
  BY DEF At, CampaignInv, CampaignOK, Serving
<1>2. objs[oracle[m].ts].physical \in Nat
  <2>1. objs[oracle[m].ts] \in [physical : Nat, logical : Nat]
    BY <1>1, SeqIs DEF TypeOK
  <2> QED
    BY <2>1
<1>3. NextPhysical(objs[oracle[m].ts], wall)
          \in {wall, objs[oracle[m].ts].physical + Ms, 0}
  BY DEF NextPhysical
<1> QED
  BY <1>2, <1>3, TsoAssumption

\* Requests make no objects and change none's physical time.
LEMMA RequestObjects ==
    ASSUME TypeOK,
           \/ \E c \in Client, n \in Member, k \in Count : LoadObject(c, n, k)
           \/ \E c \in Client : AddLogical(c)
           \/ \E c \in Client : Return(c)
    PROVE  /\ Len(objs') = Len(objs)
           /\ \A o \in 1 .. Len(objs) : objs'[o].physical = objs[o].physical
<1>1. CASE UNCHANGED objs
  BY <1>1
<1>2. ASSUME NEW c \in Client, AddLogical(c)
      PROVE  /\ Len(objs') = Len(objs)
             /\ \A o \in 1 .. Len(objs) : objs'[o].physical = objs[o].physical
  <2> DEFINE logical == objs[requests[c].ts].logical + requests[c].count
             new == IF logical >= MaxLogical THEN MaxLogical ELSE logical
  <2>1. Len(objs) \in Nat /\ objs \in [1 .. Len(objs) -> Obj]
    BY SeqIs DEF TypeOK, Obj
  <2>2. requests[c].ts \in 1 .. Len(objs) /\ requests[c].count \in Nat
    BY <1>2 DEF AddLogical, TypeOK, Request
  <2>3. new \in Nat
    BY SMTT(30), <2>1, <2>2, TsoAssumption DEF Obj
  <2>4. objs' = [objs EXCEPT ![requests[c].ts].logical = new]
    BY <1>2, Zenon DEF AddLogical
  <2> HIDE DEF new
  <2>5. objs' \in [1 .. Len(objs) -> Obj]
    BY <2>1, <2>3, <2>4 DEF Obj
  <2>6. Len(objs') = Len(objs)
    BY <2>1, <2>5, FunctionIsSeq
  <2>7. \A o \in 1 .. Len(objs) : objs'[o].physical = objs[o].physical
    BY <2>1, <2>4 DEF Obj
  <2> QED
    BY <2>6, <2>7
<1> QED
  BY <1>1, <1>2 DEF LoadObject, Return

\* Leaving keeps the types.
LEMMA LeaveTypes ==
    ASSUME TypeOK, NEW m \in Member, Leave(m)
    PROVE  oracle' \in [Member -> Oracle]
<1> DEFINE ts == IF oracle[m].step \in {"elected", "sync"} THEN oracle[m].ts ELSE Zero
<1>1. ts \in Int
  BY SMT DEF Zero, TypeOK, Oracle
<1>2. oracle' = [oracle EXCEPT ![m] =
                   [@ EXCEPT !.step = "close", !.next = 0, !.ts = ts]]
  BY Zenon DEF Leave
<1> HIDE DEF ts
<1>3. [oracle[m] EXCEPT !.step = "close", !.next = 0, !.ts = ts] \in Oracle
  BY <1>1 DEF TypeOK, Oracle, Steps
<1> QED
  BY <1>2, <1>3 DEF TypeOK

\* Types are kept by every step.
LEMMA TypesKept ==
    ASSUME TypeOK, CampaignInv, Next
    PROVE  TypeOK'
<1>1. LeaseTypes'
  BY StepIsLeaseStep, LeaseTypesKept DEF TypeOK, LeaseTypes, leaseVars
<1>2. Len(lease) \in Nat /\ Len(objs) \in Nat /\ objs \in [1 .. Len(objs) -> Obj]
  BY SeqIs DEF TypeOK, Obj
<1> DEFINE Rest ==
      /\ saved' \in Nat
      /\ objs' \in Seq(Obj)
      /\ Len(objs') >= Len(objs)
      /\ oracle' \in [Member -> Oracle]
      /\ requests' \in [Client -> Request]
      /\ \A c \in Client : requests'[c].step \in {"loaded", "added"} =>
             requests'[c].member \in Member /\ requests'[c].ts \in 1 .. Len(objs')
      /\ latest' \in Int
<1> SUFFICES Rest
  BY <1>1 DEF LeaseTypes, TypeOK, Obj
<1>same. ASSUME UNCHANGED objs  PROVE objs' \in Seq(Obj) /\ Len(objs') = Len(objs)
  BY <1>same DEF TypeOK, Obj
<1>3. CASE UNCHANGED tsoVars
  BY SMT, <1>3, <1>2 DEF tsoVars, TypeOK, Obj
<1>4. ASSUME NEW m \in Member,
             \/ Campaign(m) \/ CampaignWon(m) \/ CampaignFailed(m) \/ Resign(m)
             \/ \E wall \in Wall : SyncTimestamp(m, wall)
             \/ \E revoked \in BOOLEAN : Close(m, revoked)
      PROVE  Rest
  <2>1. UNCHANGED <<saved, objs, requests, latest>>
    BY <1>4, Zenon DEF Campaign, CampaignWon, CampaignFailed, Resign, SyncTimestamp, Close
  <2>2. oracle' \in [Member -> Oracle]
    <3> DEFINE o == oracle[m]
    <3>0. o \in Oracle /\ oracle \in [Member -> Oracle]
      BY DEF TypeOK
    <3> HIDE DEF o
    <3>set. ASSUME NEW v \in Oracle, oracle' = [oracle EXCEPT ![m] = v]
            PROVE  oracle' \in [Member -> Oracle]
      BY ONLY <3>0, <3>set
    <3>step. ASSUME NEW step \in Steps, NEW campaign \in Nat, NEW next \in Nat
             PROVE  /\ [o EXCEPT !.step = step] \in Oracle
                    /\ [o EXCEPT !.step = step, !.campaign = campaign] \in Oracle
                    /\ [o EXCEPT !.step = step, !.next = next] \in Oracle
      BY ONLY Zenon, <3>0, <3>step DEF Oracle
    <3>names. {"granted", "elected", "sync", "close", "off"} \subseteq Steps
      BY DEF Steps
    <3>1. CASE Campaign(m)
      <4>1. /\ Len(lease) + 1 \in Nat
            /\ oracle' = [oracle EXCEPT ![m] =
                            [o EXCEPT !.step = "granted", !.campaign = Len(lease) + 1]]
        BY SMT, <1>2, <3>1 DEF Campaign, o
      <4> QED
        BY ONLY Zenon, <3>set, <3>step, <3>names, <4>1
    <3>2. CASE CampaignWon(m)
      <4>1. oracle' = [oracle EXCEPT ![m] = [o EXCEPT !.step = "elected"]]
        BY <3>2 DEF CampaignWon, o
      <4> QED
        BY ONLY Zenon, <3>set, <3>step, <3>names, <4>1, 0 \in Nat
    <3>3. CASE CampaignFailed(m)
      <4>1. oracle' = [oracle EXCEPT ![m] = [o EXCEPT !.step = "close"]]
        BY <3>3 DEF CampaignFailed, o
      <4> QED
        BY ONLY Zenon, <3>set, <3>step, <3>names, <4>1, 0 \in Nat
    <3>4. CASE Resign(m)
      BY <3>4, LeaveTypes DEF Resign
    <3>5. ASSUME NEW wall \in Wall, SyncTimestamp(m, wall)
          PROVE  oracle' \in [Member -> Oracle]
      <4> DEFINE next == SyncNext(saved, wall)
      <4>1. next \in Nat
        BY SMT, TsoAssumption DEF SyncNext, updateTimestampGuard, TypeOK
      <4>2. oracle' = [oracle EXCEPT ![m] = [o EXCEPT !.step = "sync", !.next = next]]
        BY <3>5 DEF SyncTimestamp, o
      <4> HIDE DEF next
      <4> QED
        BY ONLY Zenon, <3>set, <3>step, <3>names, <4>1, <4>2
    <3>6. ASSUME NEW revoked \in BOOLEAN, Close(m, revoked)
          PROVE  oracle' \in [Member -> Oracle]
      <4>1. oracle' = [oracle EXCEPT ![m] = [o EXCEPT !.step = "off", !.campaign = 0]]
        BY <3>6 DEF Close, o
      <4> QED
        BY ONLY Zenon, <3>set, <3>step, <3>names, <4>1, 0 \in Nat
    <3> QED
      BY <1>4, <3>1, <3>2, <3>3, <3>4, <3>5, <3>6
  <2> QED
    BY <1>same, <1>2, <2>1, <2>2 DEF TypeOK
<1>5. ASSUME NEW m \in Member, NEW answered \in BOOLEAN, SaveTimestamp(m, answered)
      PROVE  Rest
  <2> DEFINE next == oracle[m].next
  <2>1. next \in Nat /\ next + SaveInterval \in Nat /\ oracle[m].campaign \in Nat
    BY SMTT(30), TsoAssumption DEF TypeOK, Oracle
  <2>2. saved' \in Nat /\ UNCHANGED <<requests, latest>>
    BY <1>5, <2>1 DEF SaveTimestamp, TypeOK
  <2>3. CASE StoreObject(m, next, oracle[m].campaign, next + SaveInterval)
    BY SMTT(30), <1>2, <2>1, <2>2, <2>3, StoreObjectTypes DEF TypeOK
  <2>4. CASE Leave(m) /\ UNCHANGED objs
    <3>1. oracle' \in [Member -> Oracle]
      BY <2>4, LeaveTypes
    <3> QED
      BY <1>same, <1>2, <2>2, <2>4, <3>1 DEF TypeOK
  <2> QED
    BY <1>5, <2>3, <2>4, Zenon DEF SaveTimestamp
<1>6. ASSUME NEW m \in Member, NEW wall \in Wall, UpdateTimestamp(m, wall)
      PROVE  Rest
  <2> DEFINE o == oracle[m]
             next == NextPhysical(objs[o.ts], wall)
  <2>1. next \in Nat /\ o.lease \in Nat /\ o.lastSavedTime \in Nat
    BY <1>6, NextPhysicalType DEF UpdateTimestamp, At, TypeOK, Oracle
  <2>2. UNCHANGED <<saved, requests, latest>>
    BY <1>6 DEF UpdateTimestamp
  <2>3. CASE StoreObject(m, next, o.lease, o.lastSavedTime)
    BY SMTT(30), <1>2, <2>1, <2>2, <2>3, StoreObjectTypes DEF TypeOK
  <2>4. CASE /\ oracle' = [oracle EXCEPT ![m] = [@ EXCEPT !.step = "save", !.next = next]]
             /\ UNCHANGED objs
    <3>1. oracle' \in [Member -> Oracle]
      BY ZenonT(30), <2>1, <2>4 DEF TypeOK, Oracle, Steps
    <3> QED
      BY SMT, <1>same, <1>2, <2>2, <2>4, <3>1 DEF TypeOK
  <2> QED
    BY <1>6, <2>3, <2>4, Zenon DEF UpdateTimestamp
<1>7. ASSUME NEW m \in Member, Restart(m) \/ \E c \in Client : LoadNil(c, m)
      PROVE  Rest
  <2>0. NewOracle \in Oracle /\ Idle \in Request /\ [Idle EXCEPT !.step = "panic"] \in Request
    BY DEF NewOracle, Idle, Nil, Oracle, Steps, Request
  <2>1. oracle' \in [Member -> Oracle] /\ UNCHANGED <<saved, objs, latest>>
    <3>1. /\ oracle' = [oracle EXCEPT ![m] = NewOracle]
          /\ UNCHANGED <<saved, objs, latest>>
      BY <1>7, Zenon DEF Restart, LoadNil
    <3> QED
      BY <2>0, <3>1 DEF TypeOK
  <2>2. /\ requests' \in [Client -> Request]
        /\ \A c \in Client : requests'[c].step \in {"loaded", "added"} =>
               requests'[c] = requests[c]
    <3>1. CASE Restart(m)
      BY <3>1, <2>0 DEF Restart, TypeOK, Idle
    <3>2. ASSUME NEW c \in Client, LoadNil(c, m)
          PROVE  /\ requests' \in [Client -> Request]
                 /\ \A d \in Client : requests'[d].step \in {"loaded", "added"} =>
                        requests'[d] = requests[d]
      BY <3>2, <2>0 DEF LoadNil, TypeOK, Idle
    <3> QED
      BY <1>7, <3>1, <3>2
  <2> QED
    BY <1>same, <1>2, <2>1, <2>2 DEF TypeOK
<1>8. ASSUME NEW c \in Client, NEW m \in Member, NEW n \in Count, LoadObject(c, m, n)
      PROVE  Rest
  <2>1. oracle[m].ts \in 1 .. Len(objs)
    BY SMT, <1>8 DEF LoadObject, CampaignInv, CampaignOK, Nil, Zero
  <2>2. n \in Nat /\ UNCHANGED <<saved, objs, oracle, latest>>
    BY <1>8, TsoAssumption DEF LoadObject
  <2>3. requests' \in [Client -> Request]
    <3> DEFINE r == [step |-> "loaded", member |-> m, ts |-> oracle[m].ts,
                     count |-> n, last |-> 0, floor |-> latest,
                     lease |-> oracle[m].lease]
    <3>1. oracle[m].ts \in Int /\ oracle[m].lease \in Nat /\ latest \in Int
      BY DEF TypeOK, Oracle
    <3>2. r \in Request
      BY ONLY <2>2, <3>1, m \in Member DEF Request
    <3>3. requests' = [requests EXCEPT ![c] = r]
      BY <1>8 DEF LoadObject
    <3> HIDE DEF r
    <3>4. requests \in [Client -> Request]
      BY DEF TypeOK
    <3> QED
      BY ONLY <3>2, <3>3, <3>4
  <2> QED
    BY SMT, <1>same, <1>2, <1>8, <2>1, <2>2, <2>3 DEF TypeOK, LoadObject
<1>9. ASSUME NEW c \in Client, AddLogical(c)
      PROVE  Rest
  <2> DEFINE r == requests[c]
             logical == objs[r.ts].logical + r.count
  <2>1. r.ts \in 1 .. Len(objs) /\ r \in Request /\ r.step = "loaded"
    BY <1>9 DEF AddLogical, TypeOK
  <2>2. objs[r.ts].physical \in Nat /\ logical \in Nat
    BY SMT, <1>2, <2>1 DEF Obj, Request
  <2>3. objs' \in [1 .. Len(objs) -> Obj]
    BY <1>2, <1>9, <2>2, TsoAssumption DEF AddLogical, Obj
  <2>4. objs' \in Seq(Obj) /\ Len(objs') = Len(objs)
    BY <1>2, <2>3, FunctionIsSeq
  <2>5. Compose(objs[r.ts].physical, logical) \in Int
    BY <2>2, TsoAssumption DEF Compose
  <2> HIDE DEF logical
  <2>6. requests' \in [Client -> Request]
    <3>1. /\ Idle \in Request
          /\ [r EXCEPT !.step = "added",
                       !.last = Compose(objs[r.ts].physical, logical)] \in Request
      <4> DEFINE ts == Compose(objs[r.ts].physical, logical)
      <4>1. ts \in Int /\ r \in Request
        BY <2>1, <2>5
      <4> HIDE DEF ts, r
      <4>2. [r EXCEPT !.step = "added", !.last = ts] \in Request
        BY <4>1 DEF Request
      <4>3. Idle \in Request
        BY DEF Idle, Nil, Request
      <4> QED
        BY <4>2, <4>3 DEF ts, r
    <3> QED
      BY <1>9, <3>1 DEF AddLogical, TypeOK, logical
  <2>7. \A d \in Client : requests'[d].step \in {"loaded", "added"} =>
             requests'[d].member = requests[d].member
             /\ requests'[d].ts = requests[d].ts
             /\ requests[d].step \in {"loaded", "added"}
    <3>1. \A d \in Client : d # c => requests'[d] = requests[d]
      BY <1>9 DEF AddLogical, TypeOK
    <3>2. \/ requests'[c] = Idle
          \/ /\ requests[c].step = "loaded"
             /\ requests'[c].member = requests[c].member
             /\ requests'[c].ts = requests[c].ts
      <4> DEFINE last == Compose(objs[r.ts].physical, logical)
                 v == [r EXCEPT !.step = "added", !.last = last]
      <4>1. r \in Request /\ requests \in [Client -> Request] /\ r.step = "loaded"
        BY <1>9 DEF AddLogical, TypeOK
      <4>2. requests' = [requests EXCEPT ![c] =
                           IF logical >= MaxLogical THEN Idle ELSE v]
        BY <1>9, Zenon DEF AddLogical, logical
      <4> HIDE DEF last, logical
      <4>3. v.member = r.member /\ v.ts = r.ts
        BY ONLY <4>1 DEF Request
      <4> HIDE DEF v
      <4>4. requests'[c] = Idle \/ requests'[c] = v
        BY ONLY <4>1, <4>2, c \in Client
      <4> QED
        BY ONLY <4>1, <4>3, <4>4 DEF r
    <3> QED
      BY <3>1, <3>2 DEF Idle
  <2> QED
    BY SMT, <1>2, <1>9, <2>4, <2>6, <2>7 DEF TypeOK, AddLogical
<1>10. ASSUME NEW c \in Client, Return(c)
       PROVE  Rest
  <2>1. UNCHANGED <<saved, objs, oracle>>
    BY <1>10 DEF Return
  <2>2. requests[c] \in Request /\ requests[c].step = "added"
    BY <1>10 DEF Return, TypeOK
  <2> DEFINE l == IF requests[c].lease = oracle[requests[c].member].lease
                  THEN requests[c].lease ELSE 0
             done == [step |-> "done", member |-> None, ts |-> Nil,
                      count |-> requests[c].count, last |-> requests[c].last,
                      floor |-> requests[c].floor, lease |-> l]
  <2>3. Idle \in Request /\ done \in Request
    <3>1. l \in Nat
      BY <2>2 DEF Request
    <3> HIDE DEF l
    <3> QED
      BY SMT, <2>2, <3>1 DEF Idle, Nil, Request
  <2>4. Idle.step = "idle" /\ done.step = "done"
    BY <2>2 DEF Idle, Request
  <2>5. requests' = [requests EXCEPT ![c] = Idle] \/ requests' = [requests EXCEPT ![c] = done]
    BY <1>10, Zenon DEF Return
  <2> HIDE DEF done
  <2>6. requests' \in [Client -> Request]
    BY <2>3, <2>5 DEF TypeOK
  <2>7. \A d \in Client : requests'[d].step \in {"loaded", "added"} =>
             requests'[d] = requests[d]
    BY <2>4, <2>5 DEF TypeOK
  <2>8. latest' \in Int
    BY <1>10, <2>2 DEF Return, TypeOK, Request
  <2> QED
    BY <1>same, <1>2, <2>1, <2>6, <2>7, <2>8 DEF TypeOK
<1> QED
  BY <1>3, <1>4, <1>5, <1>6, <1>7, <1>8, <1>9, <1>10, Zenon DEF Next

-----------------------------------------------------------------------------
(* The leader key *)

\* The lease of a key is that of the member that put it, and the lease of a
\* leader guards the key.
LEMMA KeyKept ==
    ASSUME LeaseTypes, KeyInv, LeaseGuardsKey, LeaseNext
    PROVE  KeyInv' /\ LeaseGuardsKey'
<1> USE DEF KeyInv, LeaseGuardsKey, NoKey
<1>0. Len(lease) \in Nat /\ lease \in [1 .. Len(lease) -> Lease]
  BY SeqIs DEF LeaseTypes
<1>a. Len(lease') = Len(lease) \/ \E m \in Member : Grant(m)
  BY LeaseTypesKept
<1>1. ASSUME NEW m \in Member, Grant(m)  PROVE KeyInv' /\ LeaseGuardsKey'
  <2>1. [member |-> m, valid |-> TRUE, phase |-> "granted"] \in Lease
    BY DEF Lease
  <2>2. /\ Len(lease') = Len(lease) + 1
        /\ \A l \in 1 .. Len(lease) : lease'[l] = lease[l]
        /\ lease'[Len(lease) + 1].phase = "granted"
    BY SMT, <1>0, <1>1, <2>1, AppendIs DEF Grant, LeaseTypes
  <2> QED
    BY SMT, <1>0, <1>1, <2>2 DEF Grant
<1>2. ASSUME NEW l \in 1 .. Len(lease), NEW answered \in BOOLEAN, Win(l, answered),
             Len(lease') = Len(lease)
      PROVE  KeyInv' /\ LeaseGuardsKey'
  BY <1>0, <1>2, MemberAssumption DEF Win, Lease
<1>3. ASSUME NEW l \in 1 .. Len(lease), NEW revoked \in BOOLEAN,
             CloseLease(l, revoked), Len(lease') = Len(lease)
      PROVE  KeyInv' /\ LeaseGuardsKey'
  <2>1. key' \in {key, KeyWithout(l)}
    BY <1>3, Zenon DEF CloseLease
  <2>2. /\ \A k \in 1 .. Len(lease) : lease'[k].member = lease[k].member
        /\ \A k \in 1 .. Len(lease) : k # l => lease'[k] = lease[k]
        /\ ~lease'[l].valid
    BY <1>0, <1>3 DEF CloseLease, Lease
  <2> QED
    BY SMT, <1>0, <1>3, <2>1, <2>2 DEF KeyWithout
<1>4. ASSUME NEW S \in SUBSET (1 .. Len(lease)), Lapse(S), Len(lease') = Len(lease)
      PROVE  KeyInv' /\ LeaseGuardsKey'
  BY <1>0, <1>4 DEF Lapse, Lease
<1>5. ASSUME NEW l \in 1 .. Len(lease), Extend(l), Len(lease') = Len(lease)
      PROVE  KeyInv' /\ LeaseGuardsKey'
  <2>1. /\ \A k \in 1 .. Len(lease) : lease'[k].member = lease[k].member
        /\ \A k \in 1 .. Len(lease) : lease'[k].phase = lease[k].phase
        /\ \A k \in 1 .. Len(lease) : k # l => lease'[k] = lease[k]
        /\ key' = key
    BY <1>0, <1>5 DEF Extend, Lease
  <2>2. key.lease = l => key = [member |-> lease[l].member, lease |-> l]
    BY SMT DEF LeaseTypes
  <2>3. lease[l].phase = "won" => key = [member |-> lease[l].member, lease |-> l]
    BY <1>5, <2>2 DEF Extend
  <2> QED
    BY <1>5, <2>1, <2>3
<1>6. ASSUME NEW l \in 1 .. Len(lease), EndLease(l), Len(lease') = Len(lease)
      PROVE  KeyInv' /\ LeaseGuardsKey'
  BY SMT, <1>0, <1>6 DEF EndLease, KeyWithout, Lease
<1>7. ASSUME NEW m \in Member, Crash(m), Len(lease') = Len(lease)
      PROVE  KeyInv' /\ LeaseGuardsKey'
  BY <1>0, <1>7 DEF Crash, Lease
<1>8. ASSUME DeleteKey  PROVE KeyInv' /\ LeaseGuardsKey'
  BY <1>0, <1>8 DEF DeleteKey
<1> QED
  BY <1>a, <1>1, <1>2, <1>3, <1>4, <1>5, <1>6, <1>7, <1>8 DEF LeaseNext

\* LeaderLease keeps its promise for any number of members and campaigns: a
\* member that won and finds its lease unexpired still has the key it put
\* (Member.CampaignLeader, LeaderLease.IsExpired).
THEOREM LeaseHolds == LeaseSpec => []LeaseGuardsKey
<1> DEFINE Inv == LeaseTypes /\ KeyInv /\ LeaseGuardsKey
<1>1. LeaseInit => Inv
  BY EmptyIs DEF LeaseInit, LeaseTypes, KeyInv, LeaseGuardsKey, NoKey
<1>2. Inv /\ [LeaseNext]_leaseVars => Inv'
  <2>1. CASE LeaseNext
    BY <2>1, LeaseTypesKept, KeyKept
  <2>2. CASE UNCHANGED leaseVars
    BY <2>2 DEF leaseVars, LeaseTypes, KeyInv, LeaseGuardsKey
  <2> QED
    BY <2>1, <2>2
<1> QED
  BY <1>1, <1>2, PTL DEF LeaseSpec

\* Leases stay with their members.  LeaderLease.Close and a crash change only
\* the leases of the member concerned.
LEMMA LeaseKept ==
    ASSUME LeaseTypes, LeaseNext \/ UNCHANGED leaseVars, NEW l \in 1 .. Len(lease)
    PROVE  /\ l \in 1 .. Len(lease')
           /\ lease'[l].member = lease[l].member
           /\ \A k \in 1 .. Len(lease), revoked \in BOOLEAN :
                  CloseLease(k, revoked) /\ k # l => lease'[l] = lease[l]
           /\ \A m \in Member :
                  Crash(m) /\ m # lease[l].member => lease'[l] = lease[l]
<1>0. Len(lease) \in Nat /\ lease \in [1 .. Len(lease) -> Lease]
  BY SeqIs DEF LeaseTypes
<1>1. l \in 1 .. Len(lease')
  BY <1>0, LeaseTypesKept DEF leaseVars
<1>2. \A k \in 1 .. Len(lease), revoked \in BOOLEAN :
          CloseLease(k, revoked) =>
              /\ lease'[l].member = lease[l].member
              /\ k # l => lease'[l] = lease[l]
  BY SMT, <1>0 DEF CloseLease, Lease
<1>3. \A m \in Member :
          Crash(m) => /\ lease'[l].member = lease[l].member
                      /\ m # lease[l].member => lease'[l] = lease[l]
  BY SMT, <1>0 DEF Crash, Lease
<1> DEFINE Fine == lease'[l].member = lease[l].member
<1>4. ASSUME NEW m \in Member, Grant(m)  PROVE Fine
  <2>1. [member |-> m, valid |-> TRUE, phase |-> "granted"] \in Lease
    BY DEF Lease
  <2> QED
    BY SMT, <1>4, <2>1, AppendIs DEF Grant, LeaseTypes
<1>5. ASSUME NEW k \in 1 .. Len(lease), NEW answered \in BOOLEAN, Win(k, answered)
      PROVE  Fine
  BY <1>0, <1>5 DEF Win, Lease
<1>6. ASSUME NEW S \in SUBSET (1 .. Len(lease)), Lapse(S)  PROVE Fine
  BY <1>0, <1>6 DEF Lapse, Lease
<1>7. ASSUME NEW k \in 1 .. Len(lease), Extend(k) \/ EndLease(k)  PROVE Fine
  BY SMT, <1>0, <1>7 DEF Extend, EndLease, Lease
<1>8. ASSUME DeleteKey \/ UNCHANGED leaseVars  PROVE Fine
  BY <1>8 DEF DeleteKey, leaseVars
<1> QED
  BY <1>1, <1>2, <1>3, <1>4, <1>5, <1>6, <1>7, <1>8 DEF LeaseNext

\* The other operations leave a lease that was won so, or it is over.
LEMMA WonKept ==
    ASSUME LeaseTypes, NEW l \in 1 .. Len(lease), WonOrOver(lease[l]),
           \/ \E m \in Member : Grant(m)
           \/ \E k \in 1 .. Len(lease), answered \in BOOLEAN : Win(k, answered)
           \/ \E S \in SUBSET (1 .. Len(lease)) : Lapse(S)
           \/ \E k \in 1 .. Len(lease) : Extend(k)
           \/ \E k \in 1 .. Len(lease) : EndLease(k)
           \/ DeleteKey
           \/ UNCHANGED leaseVars
    PROVE  WonOrOver(lease'[l])
<1>0. Len(lease) \in Nat /\ lease \in [1 .. Len(lease) -> Lease]
  BY SeqIs DEF LeaseTypes
<1>1. ASSUME NEW m \in Member, Grant(m)  PROVE WonOrOver(lease'[l])
  <2>1. [member |-> m, valid |-> TRUE, phase |-> "granted"] \in Lease
    BY DEF Lease
  <2> QED
    BY SMT, <1>1, <2>1, AppendIs DEF Grant, LeaseTypes
<1>2. ASSUME NEW k \in 1 .. Len(lease), NEW answered \in BOOLEAN, Win(k, answered)
      PROVE  WonOrOver(lease'[l])
  BY <1>0, <1>2 DEF Win, Lease, WonOrOver
<1>3. ASSUME NEW S \in SUBSET (1 .. Len(lease)), Lapse(S)
      PROVE  WonOrOver(lease'[l])
  BY <1>0, <1>3 DEF Lapse, Lease, WonOrOver
<1>4. ASSUME NEW k \in 1 .. Len(lease), Extend(k) \/ EndLease(k)
      PROVE  WonOrOver(lease'[l])
  BY SMT, <1>0, <1>4 DEF Extend, EndLease, Lease, WonOrOver
<1>5. ASSUME DeleteKey \/ UNCHANGED leaseVars  PROVE WonOrOver(lease'[l])
  BY <1>5 DEF DeleteKey, leaseVars
<1> QED
  BY <1>1, <1>2, <1>3, <1>4, <1>5

\* The step of another member, or of none, leaves a member's campaign alone.
LEMMA CampaignUndisturbed ==
    ASSUME TypeOK, NEW m \in Member, CampaignOK(m), oracle'[m] = oracle[m],
           Len(objs') \in Nat, Len(objs') >= Len(objs),
           LeaseNext \/ UNCHANGED leaseVars,
           key'.member = m => key' = key,
           \A l \in 1 .. Len(lease) :
               lease[l].member = m /\ WonOrOver(lease[l]) => WonOrOver(lease'[l])
    PROVE  CampaignOK(m)'
<1>1. LeaseTypes
  BY DEF TypeOK, LeaseTypes
<1>2. Len(objs) \in Nat
  BY SeqIs DEF TypeOK
<1> DEFINE l == oracle[m].campaign
<1>3. ASSUME oracle[m].step # "off"
      PROVE  /\ l \in 1 .. Len(lease')
             /\ lease'[l].member = m
             /\ WonOrOver(lease[l]) => WonOrOver(lease'[l])
  BY <1>1, <1>3, LeaseKept DEF CampaignOK
<1>4. Leading(m)' = Leading(m) /\ Serving(m)' = Serving(m)
  BY DEF Leading, Serving
<1>5. Leading(m) => oracle[m].step # "off"
  BY DEF Leading
<1> QED
  BY <1>2, <1>3, <1>4, <1>5 DEF CampaignOK, Nil, Zero

\* Every step keeps what CampaignInv says of a member.
LEMMA CampaignKept ==
    ASSUME TypeOK, KeyInv, CampaignInv, Next
    PROVE  CampaignInv'
<1>0. TypeOK' /\ Len(objs') \in Nat /\ Len(objs) \in Nat /\ Len(lease) \in Nat
  BY TypesKept, SeqIs DEF TypeOK
<1> SUFFICES ASSUME NEW m \in Member  PROVE CampaignOK(m)'
  BY DEF CampaignInv
<1>ok. CampaignOK(m) /\ LeaseTypes
  BY DEF CampaignInv, TypeOK, LeaseTypes
<1>lease. LeaseNext \/ UNCHANGED leaseVars
  BY StepIsLeaseStep
<1>1. CASE UNCHANGED tsoVars /\ \/ \E S \in SUBSET (1 .. Len(lease)) : Lapse(S)
                                \/ \E l \in 1 .. Len(lease) : Extend(l)
                                \/ \E l \in 1 .. Len(lease) : EndLease(l)
                                \/ DeleteKey
  <2>1. key' \in {key, NoKey}
    BY <1>1 DEF Lapse, Extend, EndLease, DeleteKey, KeyWithout
  <2>2. \A l \in 1 .. Len(lease) : WonOrOver(lease[l]) => WonOrOver(lease'[l])
    BY <1>ok, <1>1, WonKept
  <2> QED
    BY <1>0, <1>ok, <1>lease, <1>1, <2>1, <2>2, CampaignUndisturbed, MemberAssumption
       DEF tsoVars, NoKey
<1>2. ASSUME NEW n \in Member, Campaign(n)  PROVE CampaignOK(m)'
  <2>1. key' = key /\ objs' = objs
    BY <1>2 DEF Campaign, Grant
  <2>2. CASE n # m
    <3>1. oracle'[m] = oracle[m]
      BY <1>2, <2>2 DEF Campaign, TypeOK
    <3>2. \A l \in 1 .. Len(lease) : WonOrOver(lease[l]) => WonOrOver(lease'[l])
      BY <1>ok, <1>2, WonKept DEF Campaign
    <3> QED
      BY <1>0, <1>ok, <1>lease, <2>1, <3>1, <3>2, CampaignUndisturbed
  <2>3. CASE n = m
    <3>1. /\ oracle'[m].step = "granted"
          /\ oracle'[m].campaign = Len(lease) + 1
          /\ oracle'[m].ts = oracle[m].ts
          /\ oracle[m].step = "off"
      BY <1>2, <2>3 DEF Campaign, At, TypeOK, Oracle
    <3>2. Len(lease') = Len(lease) + 1 /\ lease'[Len(lease) + 1].member = m
      <4>1. [member |-> m, valid |-> TRUE, phase |-> "granted"] \in Lease
        BY DEF Lease
      <4> QED
        BY SMT, <1>0, <1>2, <2>3, <4>1, AppendIs DEF Campaign, Grant, TypeOK
    <3> QED
      BY <1>0, <1>ok, <3>1, <3>2 DEF CampaignOK, Leading, Serving
  <2> QED
    BY <2>2, <2>3
<1>3. ASSUME NEW n \in Member, CampaignWon(n) \/ CampaignFailed(n)
      PROVE  CampaignOK(m)'
  <2> DEFINE l == oracle[n].campaign
  <2>0. l \in 1 .. Len(lease) /\ lease[l].member = n /\ oracle[n].step = "granted"
    BY <1>3 DEF CampaignWon, CampaignFailed, At, CampaignInv, CampaignOK
  <2>1. /\ objs' = objs
        /\ Win(l, TRUE) \/ Win(l, FALSE) \/ UNCHANGED leaseVars
    BY <1>3 DEF CampaignWon, CampaignFailed
  <2>2. key' = key \/ key' = [member |-> n, lease |-> l]
    BY <2>0, <2>1 DEF Win, leaseVars
  <2>3. CASE n # m
    <3>1. oracle'[m] = oracle[m]
      BY <1>3, <2>3 DEF CampaignWon, CampaignFailed, TypeOK
    <3>2. \A k \in 1 .. Len(lease) : WonOrOver(lease[k]) => WonOrOver(lease'[k])
      BY <1>ok, <2>0, <2>1, WonKept
    <3> QED
      BY <1>0, <1>ok, <1>lease, <2>1, <2>2, <2>3, <3>1, <3>2, CampaignUndisturbed
  <2>4. CASE n = m
    <3>1. /\ oracle'[m].campaign = l
          /\ oracle'[m].ts = oracle[m].ts
          /\ \/ oracle'[m].step = "close"
             \/ /\ oracle'[m].step = "elected"
                /\ lease'[l].phase = "won"
                /\ key'.lease = l
      <4>1. CASE CampaignWon(m)
        <5>1. oracle'[m] = [oracle[m] EXCEPT !.step = "elected"]
          BY <4>1 DEF CampaignWon, TypeOK
        <5>2. Len(lease) \in Nat /\ lease \in [1 .. Len(lease) -> Lease]
          BY SeqIs DEF TypeOK
        <5>3. lease'[l].phase = "won" /\ key'.lease = l
          BY <2>0, <2>4, <4>1, <5>2 DEF CampaignWon, Win, Lease
        <5> QED
          BY <2>4, <5>1, <5>3 DEF TypeOK, Oracle
      <4>2. CASE CampaignFailed(m)
        <5>1. oracle'[m] = [oracle[m] EXCEPT !.step = "close"]
          BY <4>2 DEF CampaignFailed, TypeOK
        <5> QED
          BY <2>4, <5>1 DEF TypeOK, Oracle
      <4> QED
        BY <1>3, <2>4, <4>1, <4>2
    <3>2. l \in 1 .. Len(lease') /\ lease'[l].member = m
      BY <1>ok, <1>lease, <2>0, <2>4, LeaseKept
    <3> QED
      BY <1>ok, <2>0, <2>4, <3>1, <3>2 DEF CampaignOK, Leading, Serving, WonOrOver
  <2> QED
    BY <2>3, <2>4

<1>4. ASSUME UNCHANGED leaseVars, Len(objs') >= Len(objs), oracle'[m] = oracle[m]
      PROVE  CampaignOK(m)'
  BY <1>0, <1>ok, <1>4, CampaignUndisturbed DEF leaseVars
<1>5. ASSUME NEW n \in Member, NEW wall \in Wall, SyncTimestamp(n, wall)
      PROVE  CampaignOK(m)'
  <2>1. UNCHANGED leaseVars /\ objs' = objs /\ oracle[n].step = "elected"
    BY <1>5 DEF SyncTimestamp, At
  <2>2. oracle'[n] = [oracle[n] EXCEPT !.step = "sync", !.next = SyncNext(saved, wall)]
    BY <1>5 DEF SyncTimestamp, TypeOK
  <2>3. n # m => oracle'[m] = oracle[m]
    BY <1>5 DEF SyncTimestamp, TypeOK
  <2>4. /\ oracle'[n].step = "sync"
        /\ oracle'[n].campaign = oracle[n].campaign
        /\ oracle'[n].ts = oracle[n].ts
    BY <2>2 DEF TypeOK, Oracle
  <2> QED
    BY <1>0, <1>ok, <1>4, <2>1, <2>3, <2>4
       DEF CampaignOK, Leading, Serving, leaseVars
<1>6. ASSUME NEW n \in Member, Leave(n), UNCHANGED <<leaseVars, objs>>,
             Leading(n)
      PROVE  CampaignOK(m)'
  <2>1. n # m => oracle'[m] = oracle[m]
    BY <1>6 DEF Leave, TypeOK
  <2>2. /\ oracle'[n].step = "close"
        /\ oracle'[n].campaign = oracle[n].campaign
        /\ oracle'[n].ts = IF oracle[n].step \in {"elected", "sync"}
                           THEN oracle[n].ts ELSE Zero
    BY <1>6 DEF Leave, TypeOK, Oracle
  <2> QED
    BY <1>0, <1>ok, <1>4, <1>6, <2>1, <2>2
       DEF CampaignOK, Leading, Serving, leaseVars
<1>7. ASSUME NEW n \in Member, NEW next \in Nat, NEW l, NEW saving \in Nat,
             StoreObject(n, next, l, saving), UNCHANGED leaseVars, Leading(n),
             l = oracle[n].campaign
      PROVE  CampaignOK(m)'
  <2>1. n # m => oracle'[m] = oracle[m]
    BY <1>7 DEF StoreObject, TypeOK
  <2>2. /\ oracle'[n].step = "serve"
        /\ oracle'[n].campaign = oracle[n].campaign
        /\ oracle'[n].lease = oracle[n].campaign
        /\ oracle'[n].ts = Len(objs) + 1
    BY <1>7 DEF StoreObject, TypeOK
  <2>3. l \in Nat
    BY <1>7 DEF TypeOK, Oracle
  <2>4. Len(objs') = Len(objs) + 1
    BY <1>7, <2>3, StoreObjectTypes
  <2>5. key' = key /\ lease' = lease
    BY <1>7 DEF leaseVars
  <2>len. Len(objs) \in Nat /\ CampaignOK(m)
    BY <1>0, <1>ok
  <2>6. CASE n # m
    <3>1. \A o \in 1 .. Len(objs) : o \in 1 .. Len(objs')
      BY ONLY <2>len, <2>4
    <3> QED
      BY ONLY <2>len, <2>1, <2>5, <2>6, <3>1 DEF CampaignOK, Leading, Serving
  <2>7. CASE n = m
    <3>1. oracle'[m].ts \in 1 .. Len(objs') /\ Leading(m)
      BY ONLY <1>7, <2>len, <2>2, <2>4, <2>7
    <3> QED
      BY ONLY <2>len, <2>2, <2>5, <2>7, <3>1 DEF CampaignOK, Leading, Serving
  <2> QED
    BY <2>6, <2>7
<1>8. ASSUME NEW n \in Member, NEW answered \in BOOLEAN, SaveTimestamp(n, answered)
      PROVE  CampaignOK(m)'
  <2> DEFINE next == oracle[n].next
  <2>0. next \in Nat
    BY DEF TypeOK, Oracle
  <2>1. next + SaveInterval \in Nat
    BY <2>0, TsoAssumption
  <2>2. UNCHANGED leaseVars /\ Leading(n)
    BY <1>8 DEF SaveTimestamp, Leading
  <2>3. \/ StoreObject(n, next, oracle[n].campaign, next + SaveInterval)
        \/ Leave(n) /\ UNCHANGED objs
    BY <1>8, Zenon DEF SaveTimestamp
  <2> QED
    BY <1>6, <1>7, <2>0, <2>1, <2>2, <2>3
<1>9. ASSUME NEW n \in Member, NEW wall \in Wall, UpdateTimestamp(n, wall)
      PROVE  CampaignOK(m)'
  <2> DEFINE next == NextPhysical(objs[oracle[n].ts], wall)
  <2>1. /\ UNCHANGED leaseVars /\ oracle[n].step = "serve"
        /\ \/ StoreObject(n, next, oracle[n].lease, oracle[n].lastSavedTime)
           \/ /\ oracle' = [oracle EXCEPT ![n] =
                              [@ EXCEPT !.step = "save", !.next = next]]
              /\ UNCHANGED objs
    BY <1>9, Zenon DEF UpdateTimestamp
  <2>2. CASE StoreObject(n, next, oracle[n].lease, oracle[n].lastSavedTime)
    <3>1. oracle[n].lease = oracle[n].campaign /\ Leading(n)
      BY <2>1 DEF CampaignInv, CampaignOK, Serving, Leading
    <3>2. next \in Nat /\ oracle[n].lastSavedTime \in Nat
      BY <1>9, NextPhysicalType DEF UpdateTimestamp, At, TypeOK, Oracle
    <3> QED
      BY <1>7, <2>1, <2>2, <3>1, <3>2
  <2>3. CASE /\ oracle' = [oracle EXCEPT ![n] =
                             [@ EXCEPT !.step = "save", !.next = next]]
             /\ UNCHANGED objs
    <3>1. n # m => oracle'[m] = oracle[m]
      BY <2>3 DEF TypeOK
    <3>2. /\ oracle'[n].step = "save"
          /\ oracle'[n].campaign = oracle[n].campaign
          /\ oracle'[n].lease = oracle[n].lease
          /\ oracle'[n].ts = oracle[n].ts
      BY <2>3 DEF TypeOK, Oracle
    <3> QED
      BY <1>0, <1>ok, <1>4, <2>1, <2>3, <3>1, <3>2
         DEF CampaignOK, Leading, Serving, leaseVars
  <2> QED
    BY <2>1, <2>2, <2>3
<1>10. ASSUME NEW n \in Member, Resign(n)  PROVE CampaignOK(m)'
  BY <1>6, <1>10 DEF Resign, Leading
<1>11. ASSUME NEW n \in Member, NEW revoked \in BOOLEAN, Close(n, revoked)
       PROVE  CampaignOK(m)'
  <2> DEFINE l == oracle[n].campaign
  <2>0. l \in 1 .. Len(lease) /\ lease[l].member = n /\ oracle[n].step = "close"
    BY <1>11 DEF Close, At, CampaignInv, CampaignOK
  <2>1. objs' = objs /\ CloseLease(l, revoked)
    BY <1>11 DEF Close
  <2>2. CASE n # m
    <3>1. oracle'[m] = oracle[m]
      BY <1>11, <2>2 DEF Close, TypeOK
    <3>2. key' = key \/ key' = NoKey
      BY <2>1, Zenon DEF CloseLease, KeyWithout
    <3>3. \A k \in 1 .. Len(lease) : lease[k].member = m => lease'[k] = lease[k]
      BY <1>ok, <1>lease, <2>0, <2>1, <2>2, LeaseKept
    <3> QED
      BY <1>0, <1>ok, <1>lease, <2>1, <3>1, <3>2, <3>3, CampaignUndisturbed,
         MemberAssumption DEF NoKey
  <2>3. CASE n = m
    <3>1. oracle'[m].step = "off" /\ oracle'[m].ts = oracle[m].ts
      BY <1>11, <2>3 DEF Close, TypeOK, Oracle
    <3> QED
      BY <1>ok, <2>0, <2>3, <3>1 DEF CampaignOK, Leading, Serving
  <2> QED
    BY <2>2, <2>3
<1>12. ASSUME NEW n \in Member, Restart(n) \/ \E c \in Client : LoadNil(c, n)
       PROVE  CampaignOK(m)'
  <2>1. Crash(n) /\ objs' = objs /\ oracle' = [oracle EXCEPT ![n] = NewOracle]
    BY <1>12, Zenon DEF Restart, LoadNil
  <2>2. CASE n # m
    <3>1. oracle'[m] = oracle[m] /\ key' = key
      BY <2>1, <2>2 DEF Crash, TypeOK
    <3>2. \A k \in 1 .. Len(lease) : lease[k].member = m => lease'[k] = lease[k]
      BY <1>ok, <1>lease, <2>1, <2>2, LeaseKept
    <3> QED
      BY <1>0, <1>ok, <1>lease, <2>1, <3>1, <3>2, CampaignUndisturbed
  <2>3. CASE n = m
    <3>1. oracle'[m].step = "off" /\ oracle'[m].ts = Nil
      BY <2>1, <2>3 DEF NewOracle, TypeOK
    <3> QED
      BY <3>1 DEF CampaignOK, Leading, Serving
  <2> QED
    BY <2>2, <2>3
<1>13. CASE \/ \E c \in Client, n \in Member, k \in Count : LoadObject(c, n, k)
            \/ \E c \in Client : AddLogical(c)
            \/ \E c \in Client : Return(c)
  <2>1. UNCHANGED <<leaseVars, oracle>>
    BY <1>13, Zenon DEF LoadObject, AddLogical, Return
  <2>2. Len(objs') >= Len(objs)
    BY <1>0, <1>13, RequestObjects
  <2> QED
    BY <1>4, <2>1, <2>2
<1> QED
  BY <1>1, <1>2, <1>3, <1>5, <1>8, <1>9, <1>10, <1>11, <1>12, <1>13, Zenon DEF Next

-----------------------------------------------------------------------------
(* Windows of physical times *)

\* The numbers that the invariants compare are numbers.
LEMMA Numbers ==
    ASSUME TypeOK, CampaignInv
    PROVE  /\ saved \in Nat /\ Len(objs) \in Nat
           /\ \A o \in 1 .. Len(objs) : objs[o].physical \in Nat
           /\ \A m \in Member : End(m) \in Nat /\ oracle[m].next \in Nat
           /\ \A m \in Member : Serving(m) => Current(m) \in Nat
<1>1. Len(objs) \in Nat /\ objs \in [1 .. Len(objs) -> Obj]
  BY SeqIs DEF TypeOK, Obj
<1>2. \A o \in 1 .. Len(objs) : objs[o].physical \in Nat
  BY <1>1 DEF Obj
<1>3. \A m \in Member : Serving(m) => oracle[m].ts \in 1 .. Len(objs)
  BY DEF CampaignInv, CampaignOK
<1>4. \A m \in Member : End(m) \in Nat /\ oracle[m].next \in Nat
  BY DEF TypeOK, Oracle, End
<1> QED
  BY <1>1, <1>2, <1>3, <1>4 DEF TypeOK, Current

\* A step that makes no object and changes no member that goes on serving; who
\* has the key sees no other member save a time.
LEMMA WindowUndisturbed ==
    ASSUME TypeOK, CampaignInv, WindowInv, ObjectInv,
           saved' \in Nat, saved' >= saved, Len(objs') = Len(objs),
           \A o \in 1 .. Len(objs) : objs'[o].physical = objs[o].physical,
           \A m \in Member :
               \/ /\ oracle'[m] = oracle[m]
                  /\ key'.member = m => key' = key /\ saved' = saved
               \/ oracle'[m].step \notin {"sync", "serve", "save"}
    PROVE  WindowInv' /\ ObjectInv'
<1>1. ObjectInv'
  <2>1. ASSUME NEW o \in 1 .. Len(objs)  PROVE objs'[o].physical < saved'
    <3>1. saved \in Nat /\ objs[o].physical \in Nat /\ objs[o].physical < saved
      BY Numbers DEF ObjectInv
    <3>2. objs'[o].physical = objs[o].physical
      OBVIOUS
    <3> QED
      BY ONLY <3>1, <3>2, saved' \in Nat, saved' >= saved
  <2>2. ASSUME NEW o \in 1 .. Len(objs), NEW p \in 1 .. Len(objs), o # p
        PROVE  \/ objs'[o].physical >= objs'[p].physical + Ms
               \/ objs'[p].physical >= objs'[o].physical + Ms
    BY <2>2, Zenon DEF ObjectInv
  <2> QED
    BY <2>1, <2>2, Zenon DEF ObjectInv
<1>2. ASSUME NEW m \in Member, oracle'[m] = oracle[m]
      PROVE  /\ Serving(m)' = Serving(m)
             /\ Serving(m) => Current(m)' = Current(m)
             /\ End(m)' = End(m)
  <2>1. Serving(m) => oracle[m].ts \in 1 .. Len(objs)
    BY DEF CampaignInv, CampaignOK
  <2> QED
    BY <1>2, <2>1 DEF Serving, Current, End
<1>3. ASSUME NEW m \in Member  PROVE WindowOK(m)'
  <2>1. CASE oracle'[m].step \notin {"sync", "serve", "save"}
    BY <2>1 DEF WindowOK, Serving
  <2>2. CASE /\ oracle'[m] = oracle[m]
             /\ key'.member = m => key' = key /\ saved' = saved
    <3>1. WindowOK(m)
      BY DEF WindowInv
    <3>2. Serving(m) => End(m) <= saved'
      BY <3>1, Numbers DEF WindowOK
    <3> QED
      BY <1>2, <2>2, <3>1, <3>2 DEF WindowOK
  <2> QED
    BY <2>1, <2>2
<1>4. ASSUME NEW m \in Member, NEW n \in Member, m # n  PROVE Apart(m, n)'
  <2>1. Serving(m)' => oracle'[m] = oracle[m]
    BY DEF Serving
  <2>2. Serving(n)' => oracle'[n] = oracle[n]
    BY DEF Serving
  <2>3. Apart(m, n)
    BY <1>4 DEF WindowInv
  <2> QED
    BY <1>2, <2>1, <2>2, <2>3 DEF Apart
<1> QED
  BY <1>1, <1>3, <1>4 DEF WindowInv

\* A new object keeps the invariant if it keeps away from the other objects and
\* from the times of other members.
LEMMA NewObject ==
    ASSUME TypeOK, CampaignInv, WindowInv, ObjectInv,
           NEW n \in Member, NEW next \in Nat, NEW l \in Nat, NEW end \in Nat,
           StoreObject(n, next, l, end),
           saved' \in Nat, saved' >= saved, saved' = saved \/ key.member = n,
           UNCHANGED leaseVars,
           next < end, end <= saved', key.member = n => end = saved',
           \A p \in 1 .. Len(objs) :
               /\ next >= objs[p].physical + Ms \/ objs[p].physical >= next + Ms
               /\ objs[p].physical <= next \/ objs[p].physical > end,
           \A m \in Member : m # n /\ Serving(m) =>
               /\ next <= Current(m) \/ next > End(m)
               /\ End(m) < next \/ end < Current(m)
    PROVE  WindowInv' /\ ObjectInv'
<1> USE Numbers
<1>1. /\ Len(objs') = Len(objs) + 1
      /\ \A p \in 1 .. Len(objs) : objs'[p] = objs[p]
      /\ objs'[Len(objs) + 1].physical = next
  <2>1. [physical |-> next, logical |-> 0] \in Obj
    BY DEF Obj
  <2> QED
    BY SMT, <2>1, AppendIs DEF StoreObject, TypeOK, Obj
<1>2. ObjectInv'
  <2>1. \A o \in 1 .. Len(objs') : o \in 1 .. Len(objs) \/ o = Len(objs) + 1
    BY <1>1
  <2>2. \A o \in 1 .. Len(objs') : objs'[o].physical < saved'
    BY <1>1, <2>1 DEF ObjectInv
  <2>3. ASSUME NEW o \in 1 .. Len(objs'), NEW p \in 1 .. Len(objs'), o # p
        PROVE  \/ objs'[o].physical >= objs'[p].physical + Ms
               \/ objs'[p].physical >= objs'[o].physical + Ms
    <3>1. CASE o \in 1 .. Len(objs) /\ p \in 1 .. Len(objs)
      BY <1>1, <2>3, <3>1 DEF ObjectInv
    <3>2. CASE o \in 1 .. Len(objs) /\ p = Len(objs) + 1
      BY <1>1, <3>2
    <3>3. CASE p \in 1 .. Len(objs) /\ o = Len(objs) + 1
      BY <1>1, <3>3
    <3> QED
      BY <2>1, <2>3, <3>1, <3>2, <3>3
  <2> QED
    BY <2>2, <2>3 DEF ObjectInv
<1>3. /\ oracle'[n].step = "serve"
      /\ End(n)' = end
      /\ Current(n)' = next
  <2>1. oracle'[n] = [step |-> "serve", campaign |-> oracle[n].campaign,
                      ts |-> Len(objs) + 1, lease |-> l,
                      lastSavedTime |-> end, next |-> 0]
    BY DEF StoreObject, TypeOK
  <2> QED
    BY SMTT(30), <1>1, <2>1 DEF End, Current
<1>4. ASSUME NEW m \in Member, m # n
      PROVE  /\ oracle'[m] = oracle[m]
             /\ Serving(m)' = Serving(m)
             /\ Serving(m) => Current(m)' = Current(m)
             /\ End(m)' = End(m)
  <2>1. Serving(m) => oracle[m].ts \in 1 .. Len(objs)
    BY DEF CampaignInv, CampaignOK
  <2>2. oracle'[m] = oracle[m]
    BY <1>4 DEF StoreObject, TypeOK
  <2> QED
    BY <1>1, <2>1, <2>2 DEF Serving, Current, End
<1>5. WindowOK(n)'
  <2>1. \A p \in 1 .. Len(objs') :
            objs'[p].physical <= next \/ objs'[p].physical > end
    BY <1>1
  <2> QED
    BY <1>3, <2>1 DEF WindowOK, leaseVars
<1>6. ASSUME NEW m \in Member, m # n  PROVE WindowOK(m)'
  <2>1. WindowOK(m)
    BY DEF WindowInv
  <2>2. key.member = m => saved' = saved
    BY <1>6
  <2>3. CASE ~Serving(m)
    BY <1>4, <1>6, <2>1, <2>2, <2>3 DEF WindowOK, leaseVars
  <2>4. CASE Serving(m)
    <3>1. \A p \in 1 .. Len(objs') :
              objs'[p].physical <= Current(m) \/ objs'[p].physical > End(m)
      BY SMTT(30), <1>1, <1>6, <2>1, <2>4 DEF WindowOK
    <3>2. End(m) <= saved'
      BY <2>1, <2>4 DEF WindowOK
    <3>3. oracle[m].step # "sync"
      BY <2>4 DEF Serving
    <3> QED
      BY <1>4, <1>6, <2>1, <2>2, <2>4, <3>1, <3>2, <3>3 DEF WindowOK, leaseVars
  <2> QED
    BY <2>3, <2>4
<1>7. ASSUME NEW m \in Member, NEW k \in Member, m # k  PROVE Apart(m, k)'
  <2>1. Apart(m, k)
    BY <1>7 DEF WindowInv
  <2> QED
    BY <1>3, <1>4, <1>7, <2>1 DEF Apart
<1> QED
  BY <1>2, <1>5, <1>6, <1>7 DEF WindowInv

\* saveTimestamp never puts a smaller time than the one that is there.
LEMMA SaveGrows ==
    ASSUME TypeOK, CampaignInv, WindowInv, NEW m \in Member,
           oracle[m].step \in {"sync", "save"}, SavePut(m)
    PROVE  oracle[m].next + SaveInterval > saved
<1>1. WindowOK(m) /\ key.member = m
  BY DEF WindowInv, SavePut
<1>2. CASE oracle[m].step = "sync"
  BY <1>1, <1>2, Numbers, TsoAssumption DEF WindowOK
<1>3. CASE oracle[m].step = "save"
  <2>1. End(m) = saved /\ End(m) - oracle[m].next <= Ms
    BY <1>1, <1>3 DEF WindowOK, Serving
  <2> QED
    BY <2>1, Numbers, TsoAssumption
<1> QED
  BY <1>2, <1>3

\* The object made after saveTimestamp is later than all others.
LEMMA SavedObject ==
    ASSUME TypeOK, CampaignInv, WindowInv, ObjectInv, NEW n \in Member,
           oracle[n].step \in {"sync", "save"}, SavePut(n)
    PROVE  /\ \A p \in 1 .. Len(objs) : oracle[n].next >= objs[p].physical + Ms
           /\ \A m \in Member : m # n /\ Serving(m) => End(m) < oracle[n].next
<1> DEFINE next == oracle[n].next
<1>1. WindowOK(n) /\ key.member = n /\ Ms \in Nat \ {0}
  BY TsoAssumption DEF WindowInv, SavePut
<1>2. CASE oracle[n].step = "sync"
  <2>1. saved = 0 \/ next >= saved + Ms
    BY <1>1, <1>2 DEF WindowOK
  <2>2. \A p \in 1 .. Len(objs) : next >= objs[p].physical + Ms
    BY <1>1, <2>1, Numbers DEF ObjectInv
  <2>3. ASSUME NEW m \in Member, m # n, Serving(m)  PROVE End(m) < next
    <3>1. Current(m) < End(m) /\ End(m) <= saved
      BY <2>3 DEF WindowInv, WindowOK
    <3> QED
      BY <1>1, <2>1, <2>3, <3>1, Numbers
  <2> QED
    BY <2>2, <2>3
<1>3. CASE oracle[n].step = "save"
  <2>0. Serving(n)
    BY <1>3 DEF Serving
  <2>1. /\ End(n) = saved /\ next >= Current(n) + Ms
        /\ \A p \in 1 .. Len(objs) :
               objs[p].physical <= Current(n) \/ objs[p].physical > saved
    BY <1>1, <1>3, <2>0 DEF WindowOK
  <2>2. \A p \in 1 .. Len(objs) : next >= objs[p].physical + Ms
    BY <1>1, <2>0, <2>1, Numbers DEF ObjectInv
  <2>3. ASSUME NEW m \in Member, m # n, Serving(m)  PROVE End(m) < next
    <3>1. Current(m) < End(m) /\ End(m) <= saved
      BY <2>3 DEF WindowInv, WindowOK
    <3>2. End(m) < Current(n) \/ End(n) < Current(m)
      BY <2>0, <2>3 DEF WindowInv, Apart
    <3> QED
      BY <1>1, <2>0, <2>1, <2>3, <3>1, <3>2, Numbers
  <2> QED
    BY <2>2, <2>3
<1> QED
  BY <1>2, <1>3

\* Every step keeps the windows and the objects.
LEMMA WindowKept ==
    ASSUME TypeOK, KeyInv, CampaignInv, WindowInv, ObjectInv, Next
    PROVE  WindowInv' /\ ObjectInv' /\ saved' >= saved
<1> USE Numbers
<1>1. CASE UNCHANGED tsoVars /\ \/ \E S \in SUBSET (1 .. Len(lease)) : Lapse(S)
                                \/ \E l \in 1 .. Len(lease) : Extend(l)
                                \/ \E l \in 1 .. Len(lease) : EndLease(l)
                                \/ DeleteKey
  <2>1. key' = key \/ key' = NoKey
    BY <1>1 DEF Lapse, Extend, EndLease, DeleteKey, KeyWithout
  <2>2. \A m \in Member : key'.member = m => key' = key
    BY <2>1, MemberAssumption DEF NoKey
  <2> QED
    BY <1>1, <2>2, WindowUndisturbed DEF tsoVars
<1>2. ASSUME NEW n \in Member,
             UNCHANGED <<saved, objs>>,
             \A m \in Member : m # n =>
                 oracle'[m] = oracle[m] /\ (key'.member = m => key' = key),
             oracle'[n].step \notin {"sync", "serve", "save"}
      PROVE  WindowInv' /\ ObjectInv' /\ saved' >= saved
  BY <1>2, WindowUndisturbed
<1>3. ASSUME NEW n \in Member,
             \/ Campaign(n) \/ CampaignWon(n) \/ CampaignFailed(n)
             \/ Resign(n)
             \/ \E revoked \in BOOLEAN : Close(n, revoked)
             \/ Restart(n) \/ \E c \in Client : LoadNil(c, n)
      PROVE  WindowInv' /\ ObjectInv' /\ saved' >= saved
  <2>1. UNCHANGED <<saved, objs>>
    BY <1>3, Zenon DEF Campaign, CampaignWon, CampaignFailed, Resign, Close, Restart, LoadNil
  <2> DEFINE Other == \A m \in Member : m # n => oracle'[m] = oracle[m]
             Left == oracle'[n].step \notin {"sync", "serve", "save"}
  <2>2. Other /\ Left
    <3>1. CASE Campaign(n)
      BY <3>1 DEF Campaign, TypeOK, Oracle
    <3>2. CASE CampaignWon(n)
      BY <3>2 DEF CampaignWon, TypeOK, Oracle
    <3>3. CASE CampaignFailed(n)
      BY <3>3 DEF CampaignFailed, TypeOK, Oracle
    <3>4. CASE Resign(n)
      BY <3>4 DEF Resign, Leave, TypeOK, Oracle
    <3>5. ASSUME NEW revoked \in BOOLEAN, Close(n, revoked)
          PROVE  Other /\ Left
      BY <3>5 DEF Close, TypeOK, Oracle
    <3>6. CASE oracle' = [oracle EXCEPT ![n] = NewOracle]
      BY <3>6 DEF NewOracle, TypeOK
    <3>7. CASE Restart(n) \/ \E c \in Client : LoadNil(c, n)
      <4>1. oracle' = [oracle EXCEPT ![n] = NewOracle]
        BY <3>7, Zenon DEF Restart, LoadNil
      <4> QED
        BY <3>6, <4>1
    <3> QED
      BY <1>3, <3>1, <3>2, <3>3, <3>4, <3>5, <3>7, Zenon
  <2>3. \A m \in Member : m # n /\ key'.member = m => key' = key
    <3>1. CASE key' = key \/ key' = NoKey
      BY <3>1, MemberAssumption DEF NoKey
    <3>2. CASE CampaignWon(n) \/ CampaignFailed(n)
      <4>1. lease[oracle[n].campaign].member = n
        BY <3>2 DEF CampaignWon, CampaignFailed, At, CampaignInv, CampaignOK
      <4>2. key' = key \/ key'.member = n
        BY SMT, <3>2, <4>1 DEF CampaignWon, CampaignFailed, Win, leaseVars
      <4> QED
        BY <4>2
    <3>3. CASE \/ Campaign(n) \/ Resign(n)
               \/ \E revoked \in BOOLEAN : Close(n, revoked)
               \/ Restart(n) \/ \E c \in Client : LoadNil(c, n)
      <4>1. key' = key \/ key' = NoKey
        BY <3>3, Zenon DEF Campaign, Grant, Resign, leaseVars, Close, CloseLease,
           KeyWithout, Restart, LoadNil, Crash
      <4> QED
        BY <3>1, <4>1
    <3> QED
      BY <1>3, <3>2, <3>3, Zenon
  <2> QED
    BY <1>2, <2>1, <2>2, <2>3
<1>4. ASSUME NEW n \in Member, NEW wall \in Wall, SyncTimestamp(n, wall)
      PROVE  WindowInv' /\ ObjectInv' /\ saved' >= saved
  <2> DEFINE next == SyncNext(saved, wall)
  <2>1. UNCHANGED <<saved, objs, leaseVars>>
    BY <1>4 DEF SyncTimestamp
  <2>2. next \in Nat /\ (saved = 0 \/ next >= saved + Ms)
    BY TsoAssumption DEF SyncNext, updateTimestampGuard
  <2>3. oracle'[n].step = "sync" /\ oracle'[n].next = next
    BY <1>4 DEF SyncTimestamp, TypeOK, Oracle
  <2>4. \A m \in Member : m # n => oracle'[m] = oracle[m]
    BY <1>4 DEF SyncTimestamp, TypeOK
  <2>5. WindowOK(n)'
    BY <2>1, <2>2, <2>3 DEF WindowOK, Serving
  <2>6. ASSUME NEW m \in Member, m # n  PROVE WindowOK(m)'
    BY <2>1, <2>4, <2>6 DEF WindowInv, WindowOK, Serving, Current, End, leaseVars
  <2>7. ASSUME NEW m \in Member, NEW k \in Member, m # k  PROVE Apart(m, k)'
    BY <2>1, <2>3, <2>4, <2>7 DEF WindowInv, Apart, Serving, Current, End
  <2>8. ObjectInv'
    BY <2>1 DEF ObjectInv
  <2> QED
    BY <2>1, <2>5, <2>6, <2>7, <2>8 DEF WindowInv
<1>5. ASSUME NEW n \in Member, NEW answered \in BOOLEAN, SaveTimestamp(n, answered)
      PROVE  WindowInv' /\ ObjectInv' /\ saved' >= saved
  <2> DEFINE next == oracle[n].next
             save == next + SaveInterval
  <2>0. next \in Nat /\ save \in Nat /\ next < save
    BY TsoAssumption
  <2>1. UNCHANGED leaseVars /\ oracle[n].step \in {"sync", "save"}
    BY <1>5 DEF SaveTimestamp
  <2>2. /\ SavePut(n) => saved' = save /\ save > saved
        /\ ~SavePut(n) => saved' = saved
    BY <1>5, <2>1, SaveGrows DEF SaveTimestamp
  <2>3. saved' \in Nat /\ saved' >= saved /\ (saved' = saved \/ key.member = n)
    BY <2>0, <2>2 DEF SavePut
  <2>4. CASE SavePut(n) /\ StoreObject(n, next, oracle[n].campaign, save)
    <3>1. /\ \A p \in 1 .. Len(objs) : next >= objs[p].physical + Ms
          /\ \A m \in Member : m # n /\ Serving(m) => End(m) < next
      BY <2>1, <2>4, SavedObject
    <3>2. \A p \in 1 .. Len(objs) : objs[p].physical <= next
      <4>1. ASSUME NEW p \in 1 .. Len(objs)  PROVE objs[p].physical <= next
        <5>1. objs[p].physical \in Nat /\ Ms \in Nat /\ next >= objs[p].physical + Ms
          BY <3>1, TsoAssumption
        <5> HIDE DEF next
        <5> QED
          BY ONLY <2>0, <5>1
      <4> QED
        BY <4>1
    <3>3. oracle[n].campaign \in Nat
      BY DEF TypeOK, Oracle
    <3>4. saved' = save
      BY <2>2, <2>4
    <3> HIDE DEF next, save
    <3> QED
      BY ONLY SMTT(40), <2>0, <2>1, <2>3, <2>4, <3>1, <3>2, <3>3, <3>4, NewObject,
              TypeOK, CampaignInv, WindowInv, ObjectInv, n \in Member
  <2>5. CASE Leave(n) /\ UNCHANGED objs
    <3>1. oracle'[n].step = "close"
      BY <2>5 DEF Leave, TypeOK, Oracle
    <3>2. \A m \in Member : m # n => oracle'[m] = oracle[m]
      BY <2>5 DEF Leave, TypeOK
    <3> QED
      BY <2>1, <2>3, <2>5, <3>1, <3>2, WindowUndisturbed DEF leaseVars
  <2> QED
    BY <1>5, <2>4, <2>5, Zenon DEF SaveTimestamp
<1>6. ASSUME NEW n \in Member, NEW wall \in Wall, UpdateTimestamp(n, wall)
      PROVE  WindowInv' /\ ObjectInv' /\ saved' >= saved
  <2> DEFINE next == NextPhysical(objs[oracle[n].ts], wall)
  <2>0. oracle[n].step = "serve" /\ Serving(n) /\ UNCHANGED <<leaseVars, saved>>
    BY <1>6 DEF UpdateTimestamp, Serving
  <2>1. next \in Nat
    BY <2>0, NextPhysicalType DEF At
  <2>2. next >= Current(n) + Ms
    <3>1. next # 0
      BY <1>6 DEF UpdateTimestamp
    <3>2. Current(n) \in Nat /\ wall \in Nat /\ Ms \in Nat
      BY <2>0, TsoAssumption
    <3> QED
      BY SMTT(30), <3>1, <3>2 DEF NextPhysical, Current, updateTimestampGuard
  <2>3. WindowOK(n) /\ Ms \in Nat \ {0}
    BY TsoAssumption DEF WindowInv
  <2>4. \/ /\ End(n) - next <= Ms
           /\ oracle' = [oracle EXCEPT ![n] = [@ EXCEPT !.step = "save", !.next = next]]
           /\ UNCHANGED objs
        \/ /\ ~(End(n) - next <= Ms)
           /\ StoreObject(n, next, oracle[n].lease, End(n))
    BY <1>6, Zenon DEF UpdateTimestamp, NeedsSave, updateTimestampGuard, End
  <2> HIDE DEF next
  <2>5. CASE /\ End(n) - next <= Ms
             /\ oracle' = [oracle EXCEPT ![n] = [@ EXCEPT !.step = "save", !.next = next]]
             /\ UNCHANGED objs
    <3>1. /\ oracle'[n].step = "save" /\ oracle'[n].next = next
          /\ oracle'[n].ts = oracle[n].ts
          /\ oracle'[n].lastSavedTime = oracle[n].lastSavedTime
      BY <2>5 DEF TypeOK, Oracle
    <3>2. \A m \in Member : m # n => oracle'[m] = oracle[m]
      BY <2>5 DEF TypeOK
    <3>3. \A m \in Member : /\ Serving(m)' = Serving(m)
                             /\ Current(m)' = Current(m)
                             /\ End(m)' = End(m)
      BY SMT, <2>0, <2>5, <3>1, <3>2 DEF Serving, Current, End
    <3>4. WindowOK(n)'
      BY <2>0, <2>2, <2>3, <2>5, <3>1, <3>3 DEF WindowOK, leaseVars
    <3>5. ASSUME NEW m \in Member, m # n  PROVE WindowOK(m)'
      BY <2>0, <2>5, <3>2, <3>3, <3>5 DEF WindowInv, WindowOK, leaseVars
    <3>6. ASSUME NEW m \in Member, NEW k \in Member, m # k  PROVE Apart(m, k)'
      BY <3>3, <3>6 DEF WindowInv, Apart
    <3>7. ObjectInv'
      BY <2>0, <2>5 DEF ObjectInv
    <3> QED
      BY SMTT(30), <2>0, <3>4, <3>5, <3>6, <3>7 DEF WindowInv
  <2>6. CASE /\ ~(End(n) - next <= Ms)
             /\ StoreObject(n, next, oracle[n].lease, End(n))
    <3>1. next + Ms < End(n) /\ next < End(n)
      BY <2>1, <2>3, <2>6
    <3>2. End(n) <= saved /\ (key.member = n => End(n) = saved)
      BY <2>0, <2>3 DEF WindowOK
    <3>3. ASSUME NEW p \in 1 .. Len(objs)
          PROVE  /\ next >= objs[p].physical + Ms \/ objs[p].physical >= next + Ms
                 /\ objs[p].physical <= next \/ objs[p].physical > End(n)
      <4>1. objs[p].physical <= Current(n) \/ objs[p].physical > End(n)
        BY <2>0, <2>3 DEF WindowOK
      <4> QED
        BY <2>0, <2>1, <2>2, <2>3, <3>1, <4>1
    <3>4. ASSUME NEW m \in Member, m # n, Serving(m)
          PROVE  /\ next <= Current(m) \/ next > End(m)
                 /\ End(m) < next \/ End(n) < Current(m)
      <4>1. End(m) < Current(n) \/ End(n) < Current(m)
        BY <2>0, <3>4 DEF WindowInv, Apart
      <4> QED
        BY <2>0, <2>1, <2>2, <2>3, <3>1, <3>4, <4>1
    <3>5. oracle[n].lease \in Nat
      BY DEF TypeOK, Oracle
    <3>6. /\ saved' \in Nat /\ saved' >= saved /\ saved' = saved
          /\ End(n) <= saved' /\ (key.member = n => End(n) = saved')
          /\ End(n) \in Nat /\ UNCHANGED leaseVars
      BY <2>0, <3>2
    <3> QED
      BY ONLY <2>1, <2>6, <3>1, <3>3, <3>4, <3>5, <3>6, NewObject,
              TypeOK, CampaignInv, WindowInv, ObjectInv, n \in Member
  <2> QED
    BY <2>4, <2>5, <2>6
<1>7. CASE \/ \E c \in Client, n \in Member, k \in Count : LoadObject(c, n, k)
           \/ \E c \in Client : AddLogical(c)
           \/ \E c \in Client : Return(c)
  <2>1. UNCHANGED <<leaseVars, oracle, saved>>
    BY <1>7, Zenon DEF LoadObject, AddLogical, Return
  <2>2. /\ Len(objs') = Len(objs)
        /\ \A o \in 1 .. Len(objs) : objs'[o].physical = objs[o].physical
    BY <1>7, RequestObjects
  <2>3. /\ saved' \in Nat /\ saved' >= saved /\ saved' = saved
        /\ key' = key /\ oracle' = oracle
    BY <2>1 DEF leaseVars
  <2> QED
    BY ONLY <2>2, <2>3, WindowUndisturbed, TypeOK, CampaignInv, WindowInv, ObjectInv
<1> QED
  BY <1>1, <1>3, <1>4, <1>5, <1>6, <1>7, Zenon DEF Next

-----------------------------------------------------------------------------
(* Timestamps *)

\* A member that has won has the key until etcd ends the lease or it resigns.
WonInv ==
    \A l \in 1 .. Len(lease) :
        lease[l].phase = "won" => key = [member |-> lease[l].member, lease |-> l]

\* A lease that has ended is never extended again.
Over(l) == l.phase = "lost" /\ ~l.valid

\* The last timestamp that an object has given.
Reached(o) == Compose(objs[o].physical, objs[o].logical)

Handed(x, o) == x <= Reached(o) /\ x < Compose(objs[o].physical, MaxLogical)

\* Unless the lease it began under has ended, a request has loaded an object that
\* is not behind any timestamp returned before.
RequestOK(c) ==
    LET r == requests[c] IN
    /\ r.step \in {"loaded", "added"} => r.lease \in 1 .. Len(lease)
    /\ r.step = "loaded" => Over(lease[r.lease]) \/ r.floor <= Reached(r.ts)
    /\ r.step = "added" => /\ Handed(r.last, r.ts)
                           /\ Over(lease[r.lease]) \/ First(r) > r.floor
    /\ r.step = "done" => r.lease = 0 \/ First(r) > r.floor

TimeInv ==
    /\ \A o \in 1 .. Len(objs) : objs[o].logical <= MaxLogical
    /\ latest = 0 \/ \E o \in 1 .. Len(objs) : Handed(latest, o)
    /\ \A c \in Client : RequestOK(c)

\* The key of a member that has won goes with its lease.
LEMMA WonKeyKept ==
    ASSUME LeaseTypes, WonInv, LeaseNext
    PROVE  WonInv'
<1>0. Len(lease) \in Nat /\ lease \in [1 .. Len(lease) -> Lease]
  BY SeqIs DEF LeaseTypes
<1>1. ASSUME NEW m \in Member, Grant(m)  PROVE WonInv'
  <2> DEFINE new == [member |-> m, valid |-> TRUE, phase |-> "granted"]
  <2>1. new \in Lease /\ new.phase # "won"
    BY DEF Lease
  <2>2. /\ Len(lease') = Len(lease) + 1 /\ lease'[Len(lease) + 1] = new
        /\ \A k \in 1 .. Len(lease) : lease'[k] = lease[k]
        /\ key' = key
    BY SMT, <1>1, <2>1, AppendIs DEF Grant, LeaseTypes
  <2> HIDE DEF new
  <2> QED
    BY SMT, <1>0, <2>1, <2>2 DEF WonInv
<1> DEFINE Same(l) == lease'[l].phase = "won" =>
                          lease[l].phase = "won" /\ lease'[l].member = lease[l].member
<1>a. ASSUME lease' \in [1 .. Len(lease) -> Lease]  PROVE Len(lease') = Len(lease)
  BY <1>0, <1>a, FunctionIsSeq
<1>2. ASSUME NEW k \in 1 .. Len(lease), NEW answered \in BOOLEAN, Win(k, answered)
      PROVE  WonInv'
  <2>1. ASSUME NEW l \in 1 .. Len(lease), lease[l].phase = "won"  PROVE FALSE
    <3>1. key.lease = l /\ key.lease = 0
      BY <1>2, <2>1 DEF WonInv, Win, NoKey
    <3> QED
      BY <1>0, <3>1
  <2>2. lease' \in [1 .. Len(lease) -> Lease]
    BY SMT, <1>0, <1>2 DEF Win, Lease
  <2>3. \A l \in 1 .. Len(lease) :
            lease'[l].phase = "won" => l = k /\ lease'[l].member = lease[l].member
    BY <1>0, <1>2, <2>1 DEF Win, Lease
  <2>4. key' = [member |-> lease[k].member, lease |-> k]
    BY <1>2 DEF Win
  <2> QED
    BY <1>a, <2>2, <2>3, <2>4 DEF WonInv
<1>b. ASSUME NEW k \in Nat, lease' \in [1 .. Len(lease) -> Lease],
             key' = key \/ key' = KeyWithout(k),
             \A l \in 1 .. Len(lease) : Same(l),
             k \in 1 .. Len(lease) => lease'[k].phase # "won"
      PROVE  WonInv'
  <2> SUFFICES ASSUME NEW l \in 1 .. Len(lease), lease'[l].phase = "won"
               PROVE  key' = [member |-> lease'[l].member, lease |-> l]
    BY <1>a, <1>b DEF WonInv
  <2>1. key = [member |-> lease'[l].member, lease |-> l] /\ l # k
    BY <1>b DEF WonInv
  <2> QED
    BY <1>b, <2>1 DEF KeyWithout
<1>c. 0 \in Nat /\ 0 \notin 1 .. Len(lease)
  BY SMT, <1>0
<1>3. ASSUME NEW k \in 1 .. Len(lease), NEW revoked \in BOOLEAN, CloseLease(k, revoked)
      PROVE  WonInv'
  <2> DEFINE phase == IF lease[k].phase = "won" THEN "closed" ELSE "lost"
  <2>1. phase \in {"closed", "lost"}
    OBVIOUS
  <2>2. lease' = [lease EXCEPT ![k].valid = FALSE, ![k].phase = phase]
    BY <1>3, Zenon DEF CloseLease
  <2> HIDE DEF phase
  <2>3. lease' \in [1 .. Len(lease) -> Lease]
    BY ZenonT(30), <1>0, <2>1, <2>2 DEF Lease
  <2>4. \A l \in 1 .. Len(lease) : l # k => lease'[l] = lease[l]
    BY <1>0, <2>2
  <2>5. lease'[k].phase = phase
    BY <1>0, <2>2 DEF Lease
  <2>6. phase # "won"
    BY <2>1
  <2>7. key' = key \/ key' = KeyWithout(k)
    BY <1>3, Zenon DEF CloseLease
  <2> QED
    BY <1>b, <2>3, <2>4, <2>5, <2>6, <2>7
<1>4. ASSUME NEW S \in SUBSET (1 .. Len(lease)), Lapse(S)  PROVE WonInv'
  <2>1. lease' \in [1 .. Len(lease) -> Lease] /\ \A l \in 1 .. Len(lease) : Same(l)
    BY <1>0, <1>4 DEF Lapse, Lease
  <2> QED
    BY <1>4, <1>b, <1>c, <2>1 DEF Lapse
<1>5. ASSUME NEW k \in 1 .. Len(lease), Extend(k)  PROVE WonInv'
  <2>1. lease' \in [1 .. Len(lease) -> Lease] /\ \A l \in 1 .. Len(lease) : Same(l)
    BY <1>0, <1>5 DEF Extend, Lease
  <2> QED
    BY <1>5, <1>b, <1>c, <2>1 DEF Extend
<1>6. ASSUME NEW k \in 1 .. Len(lease), EndLease(k)  PROVE WonInv'
  <2>1. lease' \in [1 .. Len(lease) -> Lease] /\ \A l \in 1 .. Len(lease) : Same(l)
    BY <1>0, <1>6 DEF EndLease, Lease
  <2>2. lease'[k].phase # "won" /\ key' = KeyWithout(k)
    BY <1>0, <1>6 DEF EndLease, Lease
  <2> QED
    BY <1>b, <2>1, <2>2
<1>7. ASSUME NEW m \in Member, Crash(m)  PROVE WonInv'
  <2>1. lease' \in [1 .. Len(lease) -> Lease] /\ \A l \in 1 .. Len(lease) : Same(l)
    BY <1>0, <1>7 DEF Crash, Lease
  <2> QED
    BY <1>7, <1>b, <1>c, <2>1 DEF Crash
<1>8. CASE DeleteKey
  BY <1>8 DEF DeleteKey, WonInv
<1> QED
  BY <1>1, <1>2, <1>3, <1>4, <1>5, <1>6, <1>7, <1>8 DEF LeaseNext

\* A lease that has ended stays so.
LEMMA OverKept ==
    ASSUME LeaseTypes, LeaseNext \/ UNCHANGED leaseVars,
           NEW l \in 1 .. Len(lease), Over(lease[l])
    PROVE  Over(lease'[l])
<1>0. Len(lease) \in Nat /\ lease \in [1 .. Len(lease) -> Lease]
  BY SeqIs DEF LeaseTypes
<1>1. ASSUME NEW m \in Member, Grant(m)  PROVE Over(lease'[l])
  <2>1. [member |-> m, valid |-> TRUE, phase |-> "granted"] \in Lease
    BY DEF Lease
  <2> QED
    BY SMT, <1>1, <2>1, AppendIs DEF Grant, LeaseTypes
<1>2. ASSUME NEW k \in 1 .. Len(lease), NEW answered \in BOOLEAN, Win(k, answered)
      PROVE  Over(lease'[l])
  BY <1>0, <1>2 DEF Win, Lease, Over
<1>3. ASSUME NEW k \in 1 .. Len(lease), NEW revoked \in BOOLEAN, CloseLease(k, revoked)
      PROVE  Over(lease'[l])
  BY SMT, <1>0, <1>3 DEF CloseLease, Lease, Over
<1>4. ASSUME NEW S \in SUBSET (1 .. Len(lease)), Lapse(S)  PROVE Over(lease'[l])
  BY <1>0, <1>4 DEF Lapse, Lease, Over
<1>5. ASSUME NEW k \in 1 .. Len(lease), Extend(k) \/ EndLease(k)  PROVE Over(lease'[l])
  BY SMT, <1>0, <1>5 DEF Extend, EndLease, Lease, Over
<1>6. ASSUME NEW m \in Member, Crash(m)  PROVE Over(lease'[l])
  BY SMT, <1>0, <1>6 DEF Crash, Lease, Over
<1>7. CASE DeleteKey \/ UNCHANGED leaseVars
  BY <1>7 DEF DeleteKey, leaseVars
<1> QED
  BY <1>1, <1>2, <1>3, <1>4, <1>5, <1>6, <1>7 DEF LeaseNext

\* Timestamps of one object are numbered on.
LEMMA ComposeIs ==
    ASSUME NEW p \in Nat, NEW l \in Nat
    PROVE  /\ Compose(p, 0) \in Nat
           /\ Compose(p, l) = Compose(p, 0) + l
<1>1. p \div Ms \in Nat /\ MaxLogical \in Nat
  BY TsoAssumption
<1>2. (p \div Ms) * MaxLogical \in Nat
  BY <1>1
<1> QED
  BY <1>2 DEF Compose

\* Numbers that are a millisecond apart are in different milliseconds.
LEMMA Milliseconds ==
    ASSUME NEW a \in Nat, NEW b \in Nat, NEW d \in Nat \ {0}, b >= a + d
    PROVE  b \div d > a \div d
<1> DEFINE q == a \div d
           r == b \div d
<1>1. q \in Nat /\ r \in Nat
  OBVIOUS
<1>2. d * q <= a /\ b < d * (r + 1)
  OBVIOUS
<1>3. ASSUME r <= q  PROVE FALSE
  <2>1. d * (r + 1) <= d * (q + 1)
    BY <1>1, <1>3
  <2>2. d * (q + 1) = d * q + d
    BY <1>1
  <2> QED
    BY <1>1, <1>2, <2>1, <2>2
<1> QED
  BY <1>1, <1>3

\* Those of an object that is a millisecond later are larger.
LEMMA ComposeLater ==
    ASSUME NEW p \in Nat, NEW q \in Nat, q >= p + Ms
    PROVE  Compose(q, 0) >= Compose(p, MaxLogical)
<1> DEFINE a == p \div Ms
           b == q \div Ms
<1>1. Ms \in Nat \ {0} /\ MaxLogical \in Nat
  BY TsoAssumption
<1>2. a \in Nat /\ b \in Nat
  BY <1>1
<1>3. b >= a + 1
  BY <1>1, <1>2, Milliseconds
<1> HIDE DEF a, b
<1>4. b * MaxLogical >= (a + 1) * MaxLogical
  BY <1>1, <1>2, <1>3
<1>5. (a + 1) * MaxLogical = a * MaxLogical + MaxLogical
  BY <1>1, <1>2
<1>6. a * MaxLogical \in Nat /\ b * MaxLogical \in Nat
  BY <1>1, <1>2
<1> QED
  BY <1>1, <1>4, <1>5, <1>6 DEF Compose, a, b

\* Objects are numbered on only, and not beyond MaxLogical.
LEMMA ObjectsUsed ==
    ASSUME TypeOK, CampaignInv, TimeInv, Next
    PROVE  /\ Len(objs') >= Len(objs)
           /\ \A o \in 1 .. Len(objs) :
                  /\ objs'[o].physical = objs[o].physical
                  /\ objs'[o].logical >= objs[o].logical
           /\ \A o \in 1 .. Len(objs') : objs'[o].logical <= MaxLogical
<1>0. /\ Len(objs) \in Nat /\ objs \in [1 .. Len(objs) -> Obj]
      /\ \A o \in 1 .. Len(objs) : objs[o].physical \in Nat /\ objs[o].logical \in Nat
      /\ \A o \in 1 .. Len(objs) : objs[o].logical <= MaxLogical
  <2>1. Len(objs) \in Nat /\ objs \in [1 .. Len(objs) -> Obj]
    BY SeqIs DEF TypeOK, Obj
  <2> QED
    BY <2>1 DEF Obj, TimeInv
<1>1. CASE UNCHANGED objs
  <2>1. \A o \in 1 .. Len(objs) : objs[o].logical >= objs[o].logical
    BY <1>0
  <2> QED
    BY <1>0, <1>1, <2>1
<1>2. ASSUME NEW m \in Member, NEW next \in Nat, NEW l \in Nat, NEW end \in Nat,
             StoreObject(m, next, l, end)
      PROVE  /\ Len(objs') = Len(objs) + 1
             /\ \A o \in 1 .. Len(objs) : objs'[o] = objs[o]
             /\ objs'[Len(objs) + 1].logical = 0
  <2>1. [physical |-> next, logical |-> 0] \in Obj
    BY <1>2 DEF Obj
  <2>2. objs \in Seq(Obj)
    BY DEF TypeOK, Obj
  <2> QED
    BY SMT, <1>2, <2>1, <2>2, AppendIs DEF StoreObject
<1>3. ASSUME NEW m \in Member, NEW next \in Nat, NEW l \in Nat, NEW end \in Nat,
             StoreObject(m, next, l, end)
      PROVE  /\ Len(objs') >= Len(objs)
             /\ \A o \in 1 .. Len(objs) :
                    /\ objs'[o].physical = objs[o].physical
                    /\ objs'[o].logical >= objs[o].logical
             /\ \A o \in 1 .. Len(objs') : objs'[o].logical <= MaxLogical
  BY SMT, <1>0, <1>2, <1>3, TsoAssumption
<1>4. ASSUME NEW c \in Client, AddLogical(c)
      PROVE  /\ Len(objs') = Len(objs)
             /\ \A o \in 1 .. Len(objs) :
                    /\ objs'[o].physical = objs[o].physical
                    /\ objs'[o].logical >= objs[o].logical
                    /\ objs'[o].logical <= MaxLogical
  <2> DEFINE t == requests[c].ts
             logical == objs[t].logical + requests[c].count
             new == IF logical >= MaxLogical THEN MaxLogical ELSE logical
  <2>1. t \in 1 .. Len(objs) /\ requests[c].count \in Nat
    BY <1>4 DEF AddLogical, TypeOK, Request
  <2>2. new \in Nat /\ new >= objs[t].logical /\ new <= MaxLogical
    BY SMTT(30), <1>0, <2>1, TsoAssumption
  <2>3. objs' = [objs EXCEPT ![t].logical = new]
    BY <1>4, Zenon DEF AddLogical
  <2> HIDE DEF new
  <2>4. /\ \A o \in 1 .. Len(objs) : objs'[o].physical = objs[o].physical
        /\ \A o \in 1 .. Len(objs) : o # t => objs'[o] = objs[o]
        /\ objs'[t].logical = new
    BY <1>0, <2>1, <2>3 DEF Obj
  <2>5. Len(objs') = Len(objs)
    BY <1>4, RequestObjects
  <2> QED
    BY SMT, <1>0, <2>1, <2>2, <2>4, <2>5
<1>5. ASSUME NEW m \in Member, NEW answered \in BOOLEAN, SaveTimestamp(m, answered)
      PROVE  UNCHANGED objs \/ \E l, end \in Nat : StoreObject(m, oracle[m].next, l, end)
  <2>1. oracle[m].campaign \in Nat /\ oracle[m].next + SaveInterval \in Nat
    BY TsoAssumption DEF TypeOK, Oracle
  <2> QED
    BY <1>5, <2>1, Zenon DEF SaveTimestamp
<1>6. ASSUME NEW m \in Member, NEW wall \in Wall, UpdateTimestamp(m, wall)
      PROVE  \/ UNCHANGED objs
             \/ \E next, l, end \in Nat : StoreObject(m, next, l, end)
  <2>1. oracle[m].lease \in Nat /\ oracle[m].lastSavedTime \in Nat
    BY DEF TypeOK, Oracle
  <2>2. NextPhysical(objs[oracle[m].ts], wall) \in Nat
    BY <1>6, NextPhysicalType DEF UpdateTimestamp, At
  <2> QED
    BY <1>6, <2>1, <2>2, Zenon DEF UpdateTimestamp
<1>7. \A m \in Member : oracle[m].next \in Nat
  BY DEF TypeOK, Oracle
<1>8. \/ UNCHANGED objs
      \/ \E c \in Client : AddLogical(c)
      \/ \E m \in Member, answered \in BOOLEAN : SaveTimestamp(m, answered)
      \/ \E m \in Member, wall \in Wall : UpdateTimestamp(m, wall)
  BY Zenon DEF Next, tsoVars, Campaign, CampaignWon, CampaignFailed, SyncTimestamp,
     Resign, Close, Restart, LoadObject, LoadNil, Return
<1>9. CASE \E m \in Member, answered \in BOOLEAN : SaveTimestamp(m, answered)
  BY <1>1, <1>3, <1>5, <1>7, <1>9
<1>10. CASE \E m \in Member, wall \in Wall : UpdateTimestamp(m, wall)
  BY <1>1, <1>3, <1>6, <1>10
<1>11. CASE \E c \in Client : AddLogical(c)
  BY <1>0, <1>4, <1>11
<1> QED
  BY <1>1, <1>8, <1>9, <1>10, <1>11

\* The numbers of an object.
LEMMA ObjectNumbers ==
    ASSUME TypeOK
    PROVE  /\ Len(objs) \in Nat /\ saved \in Nat
           /\ \A o \in 1 .. Len(objs) :
                  objs[o].physical \in Nat /\ objs[o].logical \in Nat
<1>1. Len(objs) \in Nat /\ objs \in [1 .. Len(objs) -> Obj]
  BY SeqIs DEF TypeOK, Obj
<1> QED
  BY <1>1 DEF Obj, TypeOK

\* What an object has handed out it has handed out.
LEMMA HandedKept ==
    ASSUME TypeOK, CampaignInv, TimeInv, Next, NEW o \in 1 .. Len(objs), NEW x \in Int
    PROVE  /\ o \in 1 .. Len(objs')
           /\ x <= Reached(o) => x <= Compose(objs'[o].physical, objs'[o].logical)
           /\ Handed(x, o) => /\ x <= Compose(objs'[o].physical, objs'[o].logical)
                              /\ x < Compose(objs'[o].physical, MaxLogical)
<1>1. /\ Len(objs') >= Len(objs) /\ objs'[o].physical = objs[o].physical
      /\ objs'[o].logical >= objs[o].logical
  BY ObjectsUsed
<1>2. /\ Len(objs) \in Nat /\ Len(objs') \in Nat
      /\ objs[o].physical \in Nat /\ objs[o].logical \in Nat
  BY TypesKept, SeqIs, ObjectNumbers DEF TypeOK
<1>3. o \in 1 .. Len(objs')
  BY <1>1, <1>2
<1>4. objs'[o].logical \in Nat
  <2>1. TypeOK'
    BY TypesKept
  <2>2. objs' \in [1 .. Len(objs') -> Obj]
    BY <2>1, SeqIs DEF TypeOK, Obj
  <2> QED
    BY <1>3, <2>2 DEF Obj
<1>5. /\ Compose(objs[o].physical, 0) \in Nat
      /\ Reached(o) = Compose(objs[o].physical, 0) + objs[o].logical
      /\ Compose(objs'[o].physical, objs'[o].logical)
             = Compose(objs[o].physical, 0) + objs'[o].logical
  BY <1>1, <1>2, <1>4, ComposeIs DEF Reached
<1>6. x <= Reached(o) => x <= Compose(objs'[o].physical, objs'[o].logical)
  BY <1>1, <1>2, <1>4, <1>5
<1> QED
  BY <1>1, <1>3, <1>6 DEF Handed

\* A request that is not touched: what was handed out stays behind its object.
LEMMA RequestKept ==
    ASSUME TypeOK, CampaignInv, TimeInv, Next,
           NEW c \in Client, requests'[c] = requests[c]
    PROVE  RequestOK(c)'
<1> DEFINE r == requests[c]
<1>1. RequestOK(c) /\ LeaseTypes /\ (LeaseNext \/ UNCHANGED leaseVars)
  BY StepIsLeaseStep DEF TimeInv, TypeOK, LeaseTypes
<1>2. ASSUME r.step \in {"loaded", "added"}
      PROVE  /\ r.lease \in 1 .. Len(lease')
             /\ Over(lease[r.lease]) => Over(lease'[r.lease])
  BY <1>1, <1>2, LeaseKept, OverKept DEF RequestOK
<1>3. ASSUME r.step \in {"loaded", "added"}
      PROVE  /\ r.floor <= Reached(r.ts) =>
                    r.floor <= Compose(objs'[r.ts].physical, objs'[r.ts].logical)
             /\ Handed(r.last, r.ts) =>
                    /\ r.last <= Compose(objs'[r.ts].physical, objs'[r.ts].logical)
                    /\ r.last < Compose(objs'[r.ts].physical, MaxLogical)
  <2>1. r.ts \in 1 .. Len(objs) /\ r.floor \in Int /\ r.last \in Int
    BY <1>3 DEF TypeOK, Request
  <2> QED
    BY <2>1, HandedKept
<1> QED
  BY <1>1, <1>2, <1>3 DEF RequestOK, First, Handed, Reached

\* LoadObject: if the lease has not ended the member has the key, and no object
\* is ahead of its own.
LEMMA CurrentAhead ==
    ASSUME TsoInv, WonInv, TimeInv, NEW m \in Member, oracle[m].ts > Zero
    PROVE  /\ oracle[m].ts \in 1 .. Len(objs) /\ oracle[m].lease \in 1 .. Len(lease)
           /\ Over(lease[oracle[m].lease]) \/ latest <= Reached(oracle[m].ts)
<1> DEFINE l == oracle[m].campaign
           t == oracle[m].ts
<1>1. CampaignOK(m) /\ WindowOK(m)
  BY DEF TsoInv, CampaignInv, WindowInv
<1>2. Serving(m)
  BY ONLY SMTT(30), <1>1, oracle[m].ts > Zero DEF CampaignOK, Nil, Zero
<1>3. /\ l \in 1 .. Len(lease) /\ lease[l].member = m /\ oracle[m].lease = l
      /\ WonOrOver(lease[l]) /\ t \in 1 .. Len(objs)
  BY <1>1, <1>2 DEF CampaignOK, Serving, Leading
<1>4. ASSUME ~Over(lease[l])  PROVE latest <= Reached(t)
  <2>1. key = [member |-> m, lease |-> l]
    BY <1>3, <1>4 DEF WonOrOver, Over, WonInv
  <2>2. End(m) = saved
    BY <1>1, <1>2, <2>1 DEF WindowOK
  <2>3. /\ \A o \in 1 .. Len(objs) : objs[o].physical \in Nat /\ objs[o].logical \in Nat
        /\ Len(objs) \in Nat /\ saved \in Nat
    BY ObjectNumbers DEF TsoInv
  <2>4. ASSUME NEW o \in 1 .. Len(objs), o # t
        PROVE  objs[t].physical >= objs[o].physical + Ms
    <3>1. objs[o].physical <= objs[t].physical \/ objs[o].physical > saved
      BY <1>1, <1>2, <2>2 DEF WindowOK, Current
    <3>2. /\ objs[o].physical < saved
          /\ \/ objs[o].physical >= objs[t].physical + Ms
             \/ objs[t].physical >= objs[o].physical + Ms
      BY <1>3, <2>4 DEF TsoInv, ObjectInv
    <3> QED
      BY <1>3, <2>3, <3>1, <3>2, TsoAssumption
  <2>5. /\ Compose(objs[t].physical, 0) \in Nat
        /\ Reached(t) = Compose(objs[t].physical, 0) + objs[t].logical
    BY <1>3, <2>3, ComposeIs DEF Reached
  <2>6. ASSUME NEW o \in 1 .. Len(objs), Handed(latest, o)  PROVE latest <= Reached(t)
    <3>1. CASE o = t
      BY <2>6, <3>1 DEF Handed
    <3>2. CASE o # t
      <4>1. Compose(objs[t].physical, 0) >= Compose(objs[o].physical, MaxLogical)
        BY <1>3, <2>3, <2>4, <3>2, ComposeLater
      <4>2. Compose(objs[o].physical, MaxLogical) \in Int
        <5>1. objs[o].physical \in Nat /\ MaxLogical \in Nat
          BY <2>3, TsoAssumption
        <5>2. /\ Compose(objs[o].physical, 0) \in Nat
              /\ Compose(objs[o].physical, MaxLogical)
                     = Compose(objs[o].physical, 0) + MaxLogical
          BY <5>1, ComposeIs
        <5> QED
          BY <5>1, <5>2
      <4>3. latest \in Int /\ latest < Compose(objs[o].physical, MaxLogical)
        BY <2>6 DEF Handed, TsoInv, TypeOK
      <4>4. objs[t].logical \in Nat
        BY <1>3, <2>3
      <4> QED
        BY <2>5, <4>1, <4>2, <4>3, <4>4
    <3> QED
      BY <3>1, <3>2
  <2>7. CASE latest = 0
    BY <1>3, <2>3, <2>5, <2>7
  <2> QED
    BY <2>6, <2>7 DEF TimeInv
<1> QED
  BY <1>3, <1>4

\* Every step keeps what TimeInv says of the timestamps.
LEMMA TimeKept ==
    ASSUME TsoInv, WonInv, TimeInv, Next
    PROVE  TimeInv'
<1>0. TypeOK /\ CampaignInv /\ TypeOK'
  BY TypesKept DEF TsoInv
<1>1. \A o \in 1 .. Len(objs') : objs'[o].logical <= MaxLogical
  BY <1>0, ObjectsUsed
<1>2. ASSUME latest' = latest \/ \E o \in 1 .. Len(objs) : Handed(latest', o)
      PROVE  (latest = 0 \/ \E o \in 1 .. Len(objs) : Handed(latest, o))'
  <2>1. latest \in Int /\ latest' \in Int
    BY <1>0 DEF TypeOK
  <2>2. latest' = 0 \/ \E o \in 1 .. Len(objs) : Handed(latest', o)
    BY <1>2 DEF TimeInv
  <2>3. ASSUME NEW o \in 1 .. Len(objs), Handed(latest', o)
        PROVE  /\ o \in 1 .. Len(objs')
               /\ latest' <= Compose(objs'[o].physical, objs'[o].logical)
               /\ latest' < Compose(objs'[o].physical, MaxLogical)
    BY <1>0, <2>1, <2>3, HandedKept
  <2> QED
    BY <2>2, <2>3 DEF Handed, Reached
<1>3. ASSUME NEW c \in Client,
             requests'[c] = requests[c] \/ requests'[c].step \in {"idle", "panic"}
      PROVE  RequestOK(c)'
  <2>1. CASE requests'[c].step \in {"idle", "panic"}
    BY <2>1 DEF RequestOK
  <2> QED
    BY <1>0, <1>3, <2>1, RequestKept
<1>4. ASSUME NEW c \in Client, NEW m \in Member, NEW n \in Count, LoadObject(c, m, n)
      PROVE  RequestOK(c)' /\ latest' = latest
  <2> DEFINE r == requests'[c]
  <2>1. r = [step |-> "loaded", member |-> m, ts |-> oracle[m].ts, count |-> n,
             last |-> 0, floor |-> latest, lease |-> oracle[m].lease]
    BY <1>0, <1>4 DEF LoadObject, TypeOK
  <2>2. /\ r.step = "loaded" /\ r.ts = oracle[m].ts /\ r.floor = latest
        /\ r.lease = oracle[m].lease
    BY <2>1
  <2>3. UNCHANGED <<lease, objs, latest>> /\ oracle[m].ts > Zero
    BY <1>4 DEF LoadObject, leaseVars
  <2>4. /\ oracle[m].lease \in 1 .. Len(lease)
        /\ Over(lease[oracle[m].lease]) \/ latest <= Reached(oracle[m].ts)
    BY <2>3, CurrentAhead
  <2> QED
    BY <2>2, <2>3, <2>4 DEF RequestOK, Reached
<1>5. ASSUME NEW c \in Client, AddLogical(c)
      PROVE  RequestOK(c)' /\ latest' = latest
  <2> DEFINE r == requests[c]
             logical == objs[r.ts].logical + r.count
             p == objs[r.ts].physical
  <2>1. /\ r.step = "loaded" /\ r.ts \in 1 .. Len(objs) /\ r.count \in Nat
        /\ r \in Request /\ r.floor \in Int /\ UNCHANGED <<lease, latest>>
    BY <1>0, <1>5 DEF AddLogical, TypeOK, Request, leaseVars
  <2>2. CASE logical >= MaxLogical
    <3>1. requests'[c] = Idle
      BY <1>0, <1>5, <2>2 DEF AddLogical, TypeOK
    <3>2. requests'[c].step = "idle"
      BY <3>1 DEF Idle
    <3> QED
      BY <1>3, <2>1, <3>2
  <2>3. CASE ~(logical >= MaxLogical)
    <3> DEFINE s == requests'[c]
    <3>1. /\ requests' = [requests EXCEPT ![c] =
                            [r EXCEPT !.step = "added", !.last = Compose(p, logical)]]
          /\ objs' = [objs EXCEPT ![r.ts].logical = logical]
      BY <1>5, <2>3 DEF AddLogical
    <3>2. /\ s.step = "added" /\ s.last = Compose(p, logical) /\ s.ts = r.ts
          /\ s.floor = r.floor /\ s.count = r.count /\ s.lease = r.lease
      BY <1>0, <2>1, <3>1 DEF TypeOK, Request
    <3>3. /\ p \in Nat /\ objs[r.ts].logical \in Nat /\ logical \in Nat
          /\ MaxLogical \in Nat /\ logical < MaxLogical
      BY <1>0, <2>1, <2>3, ObjectNumbers, TsoAssumption
    <3>4. objs'[r.ts].physical = p /\ objs'[r.ts].logical = logical
      <4>1. objs \in [1 .. Len(objs) -> Obj]
        BY <1>0, SeqIs DEF TypeOK, Obj
      <4> QED
        BY <2>1, <3>1, <4>1 DEF Obj
    <3> DEFINE b == Compose(p, 0)
    <3>5. /\ b \in Nat /\ Compose(p, logical) = b + logical
          /\ Compose(p, MaxLogical) = b + MaxLogical
          /\ Reached(r.ts) = b + objs[r.ts].logical
      BY <3>3, ComposeIs DEF Reached
    <3> DEFINE f == s.last - s.count + 1
    <3>6. f = b + objs[r.ts].logical + 1
      BY <2>1, <3>2, <3>3, <3>5
    <3>7. \/ Over(lease[r.lease])
          \/ r.floor <= Reached(r.ts)
      BY <2>1 DEF TimeInv, RequestOK
    <3>8. Over(lease[r.lease]) \/ f > r.floor
      BY <2>1, <3>3, <3>5, <3>6, <3>7
    <3>9. /\ s.last <= Compose(objs'[s.ts].physical, objs'[s.ts].logical)
          /\ s.last < Compose(objs'[s.ts].physical, MaxLogical)
      BY <3>2, <3>3, <3>4, <3>5
    <3>10. r.lease \in 1 .. Len(lease)
      BY <2>1 DEF TimeInv, RequestOK
    <3> QED
      BY <2>1, <3>2, <3>8, <3>9, <3>10 DEF RequestOK, Handed, Reached, First
  <2> QED
    BY <2>2, <2>3
<1>6. ASSUME NEW c \in Client, Return(c)
      PROVE  /\ RequestOK(c)'
             /\ latest' = latest \/ \E o \in 1 .. Len(objs) : Handed(latest', o)
  <2> DEFINE r == requests[c]
             s == requests'[c]
             l == IF r.lease = oracle[r.member].lease THEN r.lease ELSE 0
  <2>1. /\ r.step = "added" /\ r.ts \in 1 .. Len(objs) /\ Handed(r.last, r.ts)
        /\ r.lease \in 1 .. Len(lease)
        /\ Over(lease[r.lease]) \/ First(r) > r.floor
    BY <1>0, <1>6 DEF Return, TypeOK, TimeInv, RequestOK
  <2>2. CASE ~MayReturn(r.member)
    <3>1. s = Idle /\ latest' = latest
      BY <1>0, <1>6, <2>2 DEF Return, TypeOK
    <3>2. s.step = "idle"
      BY <3>1 DEF Idle
    <3> QED
      BY <1>3, <3>1, <3>2
  <2>3. CASE MayReturn(r.member)
    <3>1. /\ s = [step |-> "done", member |-> None, ts |-> Nil, count |-> r.count,
                  last |-> r.last, floor |-> r.floor, lease |-> l]
          /\ latest' = latest \/ latest' = r.last
      BY <1>0, <1>6, <2>3 DEF Return, TypeOK
    <3>2. l = 0 \/ First(r) > r.floor
      BY <2>1, <2>3 DEF MayReturn, LeaseUnexpired, Over
    <3> HIDE DEF l
    <3>3. /\ s.step = "done" /\ s.count = r.count /\ s.last = r.last
          /\ s.floor = r.floor /\ s.lease = l
      BY <3>1
    <3>4. RequestOK(c)'
      BY <3>2, <3>3 DEF RequestOK, First
    <3> QED
      BY <2>1, <3>1, <3>4
  <2> QED
    BY <2>2, <2>3
<1>7. ASSUME NEW c \in Client, NEW d \in Client, d # c,
             \/ \E m \in Member, n \in Count : LoadObject(c, m, n)
             \/ AddLogical(c)
             \/ Return(c)
      PROVE  requests'[d] = requests[d]
  BY <1>0, <1>7 DEF LoadObject, AddLogical, Return, TypeOK
<1>8. CASE \E c \in Client : \/ \E m \in Member, n \in Count : LoadObject(c, m, n)
                             \/ AddLogical(c)
                             \/ Return(c)
  <2>1. PICK c \in Client : \/ \E m \in Member, n \in Count : LoadObject(c, m, n)
                            \/ AddLogical(c)
                            \/ Return(c)
    BY <1>8
  <2>2. /\ RequestOK(c)'
        /\ latest' = latest \/ \E o \in 1 .. Len(objs) : Handed(latest', o)
    BY <1>4, <1>5, <1>6, <2>1
  <2>3. \A d \in Client : d # c => RequestOK(d)'
    BY <1>3, <1>7, <2>1
  <2> QED
    BY <1>1, <1>2, <2>2, <2>3 DEF TimeInv
<1>9. ASSUME \A c \in Client : \/ requests'[c] = requests[c]
                               \/ requests'[c].step \in {"idle", "panic"},
             latest' = latest
      PROVE  TimeInv'
  BY <1>1, <1>2, <1>3, <1>9 DEF TimeInv
<1>10. ASSUME NEW m \in Member, Restart(m) \/ \E c \in Client : LoadNil(c, m)
       PROVE  TimeInv'
  <2>1. Idle.step = "idle" /\ [Idle EXCEPT !.step = "panic"].step = "panic"
    BY DEF Idle
  <2> QED
    BY <1>9, <1>10, <2>1 DEF Restart, LoadNil
<1>11. \/ UNCHANGED <<requests, latest>>
       \/ \E m \in Member : Restart(m) \/ \E c \in Client : LoadNil(c, m)
       \/ \E c \in Client : \/ \E m \in Member, n \in Count : LoadObject(c, m, n)
                            \/ AddLogical(c)
                            \/ Return(c)
  BY Zenon DEF Next, tsoVars, Campaign, CampaignWon, CampaignFailed, SyncTimestamp,
     SaveTimestamp, UpdateTimestamp, Resign, Close
<1> QED
  BY <1>8, <1>9, <1>10, <1>11

-----------------------------------------------------------------------------
(* Theorems *)

\* The invariant holds initially.
LEMMA InitInv == Init => TsoInv
<1> SUFFICES ASSUME Init  PROVE TsoInv
  OBVIOUS
<1>1. TypeOK
  <2>1. NewOracle \in Oracle /\ Idle \in Request
    BY DEF NewOracle, Idle, Nil, Oracle, Steps, Request
  <2> QED
    BY <2>1, EmptyIs DEF Init, LeaseInit, NoKey, TypeOK, Idle
<1>2. KeyInv /\ LeaseGuardsKey
  <2>1. key = NoKey /\ Len(lease) = 0
    BY EmptyIs DEF Init, LeaseInit
  <2>2. KeyInv
    BY ONLY <2>1 DEF KeyInv
  <2>3. LeaseGuardsKey
    BY ONLY <2>1 DEF LeaseGuardsKey
  <2> QED
    BY <2>2, <2>3
<1>3. CampaignInv
  BY DEF Init, NewOracle, CampaignInv, CampaignOK, Leading, Serving
<1>4. WindowInv /\ ObjectInv
  BY SMT, EmptyIs DEF Init, NewOracle, WindowInv, WindowOK, Apart, Serving, ObjectInv
<1> QED
  BY <1>1, <1>2, <1>3, <1>4 DEF TsoInv

\* The invariant is inductive, and the saved time does not decrease.
LEMMA StepInv == TsoInv /\ [Next]_vars => TsoInv' /\ saved' >= saved
<1> SUFFICES ASSUME TsoInv, [Next]_vars  PROVE TsoInv' /\ saved' >= saved
  OBVIOUS
<1>1. CASE Next
  <2>1. TypeOK'
    BY <1>1, TypesKept DEF TsoInv
  <2>2. KeyInv' /\ LeaseGuardsKey'
    <3>1. LeaseNext \/ UNCHANGED leaseVars
      BY <1>1, StepIsLeaseStep DEF TsoInv
    <3>2. LeaseTypes
      BY DEF TsoInv, TypeOK, LeaseTypes
    <3>3. CASE UNCHANGED leaseVars
      BY <3>3 DEF leaseVars, TsoInv, KeyInv, LeaseGuardsKey
    <3> QED
      BY <3>1, <3>2, <3>3, KeyKept DEF TsoInv
  <2>3. CampaignInv'
    BY <1>1, CampaignKept DEF TsoInv
  <2>4. WindowInv' /\ ObjectInv' /\ saved' >= saved
    BY <1>1, WindowKept DEF TsoInv
  <2> QED
    BY <2>1, <2>2, <2>3, <2>4 DEF TsoInv
<1>2. CASE UNCHANGED vars
  <2>1. UNCHANGED <<key, lease, saved, objs, oracle, requests, latest>>
    BY <1>2 DEF vars, leaseVars, tsoVars
  <2>2. TypeOK' /\ KeyInv' /\ LeaseGuardsKey'
    BY <2>1 DEF TsoInv, TypeOK, KeyInv, LeaseGuardsKey
  <2>3. CampaignInv'
    BY <2>1 DEF TsoInv, CampaignInv, CampaignOK, Leading, Serving
  <2>4. WindowInv' /\ ObjectInv'
    BY <2>1 DEF TsoInv, WindowInv, WindowOK, Apart, Serving, Current, End, ObjectInv
  <2>5. saved' >= saved
    BY <2>1 DEF TsoInv, TypeOK
  <2> QED
    BY <2>2, <2>3, <2>4, <2>5 DEF TsoInv
<1> QED
  BY <1>1, <1>2

\* Whatever happens, TsoInv holds.
LEMMA TsoInvHolds == Spec => []TsoInv
BY InitInv, StepInv, PTL DEF Spec

\* At any time at most one member has a timestamp to hand out and an unexpired
\* lease (campaignLeader, GetRespTS), for any number of members and campaigns.
THEOREM OneServesHolds == Spec => []OneServes
<1>1. TsoInv => OneServes
  <2> SUFFICES ASSUME TsoInv, NEW m \in Member, NEW n \in Member,
                      oracle[m].ts > Zero, LeaseUnexpired(oracle[m].lease),
                      oracle[n].ts > Zero, LeaseUnexpired(oracle[n].lease)
               PROVE  m = n
    BY DEF OneServes
  <2>1. ASSUME NEW k \in Member, oracle[k].ts > Zero, LeaseUnexpired(oracle[k].lease)
        PROVE  key.member = k
    <3> DEFINE l == oracle[k].campaign
    <3>0. CampaignOK(k)
      BY <2>1 DEF TsoInv, CampaignInv
    <3>1. Serving(k)
      BY ONLY <2>1, <3>0 DEF CampaignOK, Nil, Zero
    <3>2. /\ l \in 1 .. Len(lease) /\ lease[l].member = k
          /\ WonOrOver(lease[l]) /\ oracle[k].lease = l
      BY <3>1 DEF TsoInv, CampaignInv, CampaignOK, Serving, Leading
    <3>3. lease[l].phase = "won" /\ lease[l].valid
      BY <2>1, <3>2 DEF LeaseUnexpired, WonOrOver
    <3> QED
      BY SMTT(30), <3>2, <3>3 DEF TsoInv, LeaseGuardsKey
  <2> QED
    BY <2>1
<1> QED
  BY <1>1, TsoInvHolds, PTL

\* The physical time of a member, also of one that has lost its lease, is below
\* the time saved in etcd (UpdateTimestamp, saveTimestamp).
THEOREM PhysicalBelowSavedHolds == Spec => []PhysicalBelowSaved
<1>1. TsoInv => PhysicalBelowSaved
  <2> SUFFICES ASSUME TsoInv, NEW m \in Member, oracle[m].ts > Zero
               PROVE  objs[oracle[m].ts].physical < saved
    BY DEF PhysicalBelowSaved
  <2>1. oracle[m].ts \in 1 .. Len(objs)
    BY SMT DEF TsoInv, CampaignInv, CampaignOK, Nil, Zero
  <2> QED
    BY <2>1 DEF TsoInv, ObjectInv
<1> QED
  BY <1>1, TsoInvHolds, PTL

\* The saved time never decreases, whoever saves it and whatever the clocks show
\* (SyncTimestamp, UpdateTimestamp, saveTimestamp).
THEOREM SavedIncreasesHolds == Spec => SavedIncreases
<1>1. TsoInv /\ [Next]_vars => [saved' = saved \/ saved' > saved]_vars
  <2> SUFFICES ASSUME TsoInv, [Next]_vars  PROVE saved' = saved \/ saved' > saved
    OBVIOUS
  <2>1. saved \in Nat /\ saved' \in Nat /\ saved' >= saved
    BY StepInv DEF TsoInv, TypeOK
  <2> QED
    BY <2>1
<1> QED
  BY <1>1, TsoInvHolds, PTL DEF Spec, SavedIncreases

\* No two objects, of whichever members, have the same millisecond, so that no
\* timestamp is given twice (UpdateTimestamp, SyncTimestamp, GetRespTS).
THEOREM ObjectsDifferHolds == Spec => []ObjectsDiffer
<1>1. TsoInv => ObjectsDiffer
  <2> SUFFICES ASSUME TsoInv, NEW o \in 1 .. Len(objs), NEW p \in 1 .. Len(objs),
                      o # p
               PROVE  objs[o].physical \div Ms # objs[p].physical \div Ms
    BY DEF ObjectsDiffer
  <2>1. objs[o].physical \in Nat /\ objs[p].physical \in Nat /\ Ms \in Nat \ {0}
    BY Numbers, TsoAssumption DEF TsoInv
  <2>2. \/ objs[o].physical >= objs[p].physical + Ms
        \/ objs[p].physical >= objs[o].physical + Ms
    BY DEF TsoInv, ObjectInv
  <2> DEFINE x == objs[o].physical \div Ms
             y == objs[p].physical \div Ms
  <2>3. x \in Nat /\ y \in Nat
    BY <2>1
  <2>4. x > y \/ y > x
    BY <2>1, <2>2, Milliseconds
  <2> HIDE DEF x, y
  <2>5. x # y
    BY <2>3, <2>4
  <2> QED
    BY <2>5 DEF x, y
<1> QED
  BY <1>1, TsoInvHolds, PTL

\* Timestamps increase, over leader changes, crashes and jumps of the clocks: a
\* request of GetRespTS is given larger ones than any returned before it began,
\* unless the member has won another election meanwhile.
THEOREM TimestampsIncreaseHolds == Spec => []TimestampsIncreaseInTerm
<1>1. Init => WonInv /\ TimeInv
  <2> SUFFICES ASSUME Init  PROVE WonInv /\ TimeInv
    OBVIOUS
  <2>1. Len(lease) = 0 /\ Len(objs) = 0 /\ latest = 0
    BY EmptyIs DEF Init, LeaseInit
  <2>2. \A c \in Client : requests[c].step = "idle"
    BY DEF Init, Idle
  <2> QED
    BY <2>1, <2>2 DEF WonInv, TimeInv, RequestOK
<1>2. TsoInv /\ WonInv /\ TimeInv /\ [Next]_vars => WonInv' /\ TimeInv'
  <2> SUFFICES ASSUME TsoInv, WonInv, TimeInv, [Next]_vars  PROVE WonInv' /\ TimeInv'
    OBVIOUS
  <2>1. CASE Next
    <3>1. LeaseNext \/ UNCHANGED leaseVars
      BY <2>1, StepIsLeaseStep DEF TsoInv
    <3>2. LeaseTypes
      BY DEF TsoInv, TypeOK, LeaseTypes
    <3>3. WonInv'
      BY <3>1, <3>2, WonKeyKept DEF leaseVars, WonInv
    <3> QED
      BY <2>1, <3>3, TimeKept
  <2>2. CASE UNCHANGED vars
    <3>1. UNCHANGED <<key, lease, objs, requests, latest>>
      BY <2>2 DEF vars, leaseVars, tsoVars
    <3> QED
      BY <3>1 DEF WonInv, TimeInv, RequestOK, Handed, Reached
  <2> QED
    BY <2>1, <2>2
<1>3. TimeInv => TimestampsIncreaseInTerm
  BY DEF TimeInv, RequestOK, TimestampsIncreaseInTerm
<1> QED
  BY <1>1, <1>2, <1>3, TsoInvHolds, PTL DEF Spec

=============================================================================
