------------------------------ MODULE Latches ------------------------------
(***************************************************************************)
(* The in-memory latches of kv/transaction/latches/latches.go.  A command  *)
(* latches every key it may write before it runs and releases them when it *)
(* is done.  AcquireLatches and ReleaseLatches each run under latchGuard   *)
(* and are one step; between a failed AcquireLatches and the wg.Wait() of  *)
(* WaitForLatches any number of other steps can happen.                    *)
(*                                                                         *)
(* A successful AcquireLatches makes a wait group whose counter is one     *)
(* until the matching release.  latchMap names that wait group by the      *)
(* thread that made it.  A thread that found a key latched remembers in    *)
(* waitOn the wait group it was given, and NoThread once that group's      *)
(* counter is zero: a Wait on it then returns at once, however late the    *)
(* thread calls it.                                                        *)
(***************************************************************************)
EXTENDS Sequences, Functions

CONSTANTS
    Threads,   \* the goroutines that run commands
    NoThread,  \* no wait group, or one whose counter is zero
    Keys,      \* the user keys
    Requests   \* the key lists a command may latch: empty, repeated keys too

ASSUME LatchAssumption == NoThread \notin Threads /\ Requests \subseteq Seq(Keys)

VARIABLES
    latchMap,  \* key -> the wait group stored under it
    keys,      \* thread -> the keys its command latches
    waitOn,    \* thread -> the wait group AcquireLatches gave it
    pc         \* thread -> idle, acquire, wait or holding

vars == <<latchMap, keys, waitOn, pc>>

Init ==
    /\ latchMap = [k \in Keys |-> NoThread]
    /\ keys = [t \in Threads |-> <<>>]
    /\ waitOn = [t \in Threads |-> NoThread]
    /\ pc = [t \in Threads |-> "idle"]

\* A command arrives on thread t and calls WaitForLatches(ks).
Begin(t) ==
    /\ pc[t] = "idle"
    /\ \E ks \in Requests : keys' = [keys EXCEPT ![t] = ks]
    /\ pc' = [pc EXCEPT ![t] = "acquire"]
    /\ UNCHANGED <<latchMap, waitOn>>

\* Mutant: only the first key of the list is looked up.
LatchedAtFirst(ks) == {i \in DOMAIN ks : i = 1 /\ latchMap[ks[i]] # NoThread}

\* The positions of the keys that are latched already.
LatchedAt(ks) == {i \in DOMAIN ks : latchMap[ks[i]] # NoThread}

\* AcquireLatches finds every key free and stores a new wait group under all.
AcquireLatches(t) ==
    /\ pc[t] = "acquire"
    /\ LatchedAt(keys[t]) = {}
    /\ latchMap' = [k \in Keys |-> IF k \in Range(keys[t]) THEN t ELSE latchMap[k]]
    /\ pc' = [pc EXCEPT ![t] = "holding"]
    /\ UNCHANGED <<keys, waitOn>>

\* AcquireLatches returns the wait group of the first latched key.
FindLatched(t) ==
    /\ pc[t] = "acquire"
    /\ \E i \in LatchedAt(keys[t]) :
        /\ \A j \in LatchedAt(keys[t]) : i <= j
        /\ waitOn' = [waitOn EXCEPT ![t] = latchMap[keys[t][i]]]
    /\ pc' = [pc EXCEPT ![t] = "wait"]
    /\ UNCHANGED <<latchMap, keys>>

\* Mutant: AcquireLatches is called before the loop instead of in it.
WaitAgain(t) == pc[t] = "wait" /\ waitOn[t] = NoThread /\ UNCHANGED vars

\* wg.Wait() returns when the counter is zero; WaitForLatches tries again.
Wait(t) ==
    /\ pc[t] = "wait"
    /\ waitOn[t] = NoThread
    /\ pc' = [pc EXCEPT ![t] = "acquire"]
    /\ UNCHANGED <<latchMap, keys, waitOn>>

\* Mutant: the latches go but nobody is told.
DoneForgotten(ks) == UNCHANGED waitOn

\* wg.Done() on the wait group stored under the first key of the list.
Done(ks) ==
    waitOn' = [u \in Threads |->
                 IF ks # <<>> /\ waitOn[u] = latchMap[ks[1]] THEN NoThread ELSE waitOn[u]]

\* The keys a release deletes from latchMap.
Unlatched(ks) == Range(ks)

\* The command is done; ReleaseLatches with the list it acquired.
ReleaseLatches(t) ==
    /\ pc[t] = "holding"
    /\ Done(keys[t])
    /\ latchMap' = [k \in Keys |-> IF k \in Unlatched(keys[t]) THEN NoThread ELSE latchMap[k]]
    /\ pc' = [pc EXCEPT ![t] = "idle"]
    /\ keys' = [keys EXCEPT ![t] = <<>>]

WaitForLatches(t) == AcquireLatches(t) \/ FindLatched(t) \/ Wait(t)

Next == \E t \in Threads : Begin(t) \/ WaitForLatches(t) \/ ReleaseLatches(t)

Spec == Init /\ [][Next]_vars

\* The goroutines are scheduled and a command that holds its latches ends;
\* nothing says that further commands arrive.
FairSpec ==
    Spec /\ \A t \in Threads : WF_vars(WaitForLatches(t)) /\ WF_vars(ReleaseLatches(t))
-----------------------------------------------------------------------------
TypeOK ==
    /\ latchMap \in [Keys -> Threads \cup {NoThread}]
    /\ keys \in [Threads -> Seq(Keys)]
    /\ waitOn \in [Threads -> Threads \cup {NoThread}]
    /\ pc \in [Threads -> {"idle", "acquire", "wait", "holding"}]

\* Two commands never run at once when they share a key: AcquireLatches looks
\* at every key before it latches any ("Only one thread can hold a latch at a
\* time and all keys that a command might write must be locked at once").
Exclusive ==
    \A t, u \in Threads :
        t # u /\ pc[t] = "holding" /\ pc[u] = "holding"
            => Range(keys[t]) \cap Range(keys[u]) = {}

\* The map holds exactly the latches of the running commands, each under the
\* wait group of its holder: no release leaves a key latched, and none frees a
\* key that a later command has latched meanwhile.
MapIsHolders ==
    \A k \in Keys, t \in Threads :
        latchMap[k] = t <=> pc[t] = "holding" /\ k \in Range(keys[t])

\* No wakeup is lost: whoever is blocked is blocked on the wait group of a
\* command that is still running, so that command's release wakes it, even when
\* the release falls between the failed AcquireLatches and the call of Wait.
BlockedOnHolder ==
    \A t \in Threads : waitOn[t] # NoThread => pc[t] = "wait" /\ pc[waitOn[t]] = "holding"

\* WaitForLatches blocks for ever only when it is overtaken for ever: a command
\* that never gets its latches sees new commands arrive without end.
OnlyTrafficStarves ==
    \A t \in Threads :
        <>[](pc[t] \in {"acquire", "wait"}) => []<><<\E u \in Threads \ {t} : Begin(u)>>_vars
=============================================================================
