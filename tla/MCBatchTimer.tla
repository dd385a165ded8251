---------------------------- MODULE MCBatchTimer ----------------------------
(* A day of two intervals and a week of four; a PSBT that always fits and one *)
(* that may be skipped.                                                       *)
EXTENDS BatchTimer
=============================================================================
