---------------------------- MODULE MCRaftStore ----------------------------
(* The store has peer 1, loses it, and gets peer 2.  Channels of two slots    *)
(* fill up, so the waits for a full channel are explored too.                 *)
EXTENDS RaftStore

MCMemberAt == <<1, 0, 2>>
=============================================================================
