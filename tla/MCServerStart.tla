---------------------------- MODULE MCServerStart ----------------------------
(* Three overlapping requests beside the call at boot. *)
EXTENDS ServerStart
==============================================================================
