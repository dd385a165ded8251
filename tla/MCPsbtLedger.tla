---------------------------- MODULE MCPsbtLedger ----------------------------
(* An instance of PsbtLedger for TLC. *)
EXTENDS PsbtLedger, TLC

CONSTANTS p1, p2, p3, o1, o2

\* Two PSBTs compete for o1.
SharedInput == (p1 :> o1) @@ (p2 :> o1) @@ (p3 :> o2)

\* Each batch can be recorded more than once, which only advances the index.
MaxFeeIndex == 2
FeeIndexBound == feeIndex <= MaxFeeIndex
=============================================================================
