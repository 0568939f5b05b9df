---------------------------- MODULE MCBootstrap ----------------------------
(* Two stores start against a scheduler of two members. *)
EXTENDS Bootstrap
=============================================================================
