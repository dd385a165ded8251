---------------------------- MODULE MCBucketFill ----------------------------
(* Instances of BucketFill for TLC, with real amounts and sizes: inputs     *)
(* spending a two-of-two P2WSH output, outputs paying to P2WPKH.            *)
EXTENDS BucketFill

\* Service fees below the dust limit, at odd roundings, with nothing left for
\* the miners, with little, and with plenty.
MixedOffers ==
  {[value |-> v[1], fee |-> v[2], witness |-> TRUE] : v \in
     {<<27000, 800>>, <<51224, 1024>>, <<51224, 1900>>, <<30000, 700>>,
      <<150000, 3750>>, <<100000, 2830>>, <<150000, 6000>>}}

\* Without a witnessUtxo, worth less than others leave, and more.
HiddenOffers ==
  {[value |-> v[1], fee |-> v[2], witness |-> FALSE] : v \in {<<1200, 500>>, <<51224, 1900>>}}

AllOffers == MixedOffers \cup HiddenOffers
=============================================================================
