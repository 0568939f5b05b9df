----------------------------- MODULE MCLatches -----------------------------
(* Three threads over three keys.  The lists cross (1,2 / 2,3 / 3,1), repeat *)
(* a key, and are empty, so waiters meet wait groups of different holders.   *)
EXTENDS Latches

CONSTANTS t1, t2, t3

MCThreads == {t1, t2, t3}
MCKeys == 1 .. 3
MCRequests == {<<1, 2>>, <<2, 3>>, <<3, 1>>, <<2, 2>>, <<>>}
=============================================================================
