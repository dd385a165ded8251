---------------------------- MODULE MCJobHistory ----------------------------
(* Two overlapping runs and a history of three events. *)
EXTENDS JobHistory, TLC

Overlapping == Permutations(Run)
=============================================================================
