---------------------------- MODULE MCSnapshots ----------------------------
(***************************************************************************)
(* Bounded instances of Snapshots for TLC.                                 *)
(***************************************************************************)
EXTENDS Snapshots

CONSTANTS a, b

\* Each of two stores leads a region and follows the other's.
Swap(r) == IF r = a THEN b ELSE a

=============================================================================
