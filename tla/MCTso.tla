-------------------------------- MODULE MCTso --------------------------------
(***************************************************************************)
(* Two members that campaign in turn, for TLC.                             *)
(*                                                                         *)
(* View drops what no later step reads: a lease that no member uses, how   *)
(* much of an object was used once nobody refers to it, and that a request *)
(* met no object.                                                          *)
(***************************************************************************)
EXTENDS Tso

CONSTANT Turn \* Turn[l]: who campaigns with lease l

Alternately == <<1, 2, 1>>

InTurn == \A l \in 1 .. Len(lease) : lease[l].member = Turn[l]

LeaseView(l) ==
    CASE ~\E m \in Member : l \in {oracle[m].campaign, oracle[m].lease} -> << >>
      [] lease[l].phase = "granted" -> [lease[l] EXCEPT !.valid = TRUE]
      [] OTHER -> lease[l]

ObjView(o) ==
    IF \/ \E m \in Member : oracle[m].ts = o
       \/ \E c \in Client : requests[c].ts = o
    THEN objs[o] ELSE [objs[o] EXCEPT !.logical = 0]

RequestView(c) ==
    IF requests[c].step = "panic" THEN Idle ELSE requests[c]

View ==
    <<key, [l \in 1 .. Len(lease) |-> LeaseView(l)], saved,
      [o \in 1 .. Len(objs) |-> ObjView(o)], oracle,
      [c \in Client |-> RequestView(c)], latest>>

=============================================================================
