---------------------------- MODULE MCCoSigning ----------------------------
(* An instance of CoSigning for TLC. *)
EXTENDS CoSigning, TLC

\* One index that is refused, the one that counts as none, and two others.
Indexes == {-1, 0, 1}

PsbtSymmetry == Permutations(Psbt)
=============================================================================
