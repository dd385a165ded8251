-------------------------- MODULE MCReadEndpoints --------------------------
(* An instance of ReadEndpoints for TLC. *)
EXTENDS ReadEndpoints, TLC

CONSTANTS p1, p2, p3, p4, o1, o2, o3

\* One longer than the others.
Lifetimes == ("positionInQueue" :> 1) @@ ("participationRate" :> 0) @@ ("feeRateInfo" :> 0)

\* Two PSBTs that clash, one of another output, and one of an output that is not there.
Clashing == (p1 :> o1) @@ (p2 :> o1) @@ (p3 :> o2) @@ (p4 :> o3)
SameClash == {(p1 :> p2) @@ (p2 :> p1)}

\* A batch is recorded once.
MaxFeeIndex == 1
FeeIndexBound == feeIndex <= MaxFeeIndex

\* As many are handed in, of all there are; as long as it is only one, time passes
\* and an answer is cached.
MaxAccepted == 2
MaxAcceptedInTime == 1
AcceptedBound == Cardinality(accepted) <= MaxAccepted

MaxEntries == 1
Cached == {u \in CachedUrl : cache[u] # Nothing}
EntriesBound ==
  IF Cardinality(accepted) <= MaxAcceptedInTime THEN Cardinality(Cached) <= MaxEntries
  ELSE Cached = {} /\ \A r \in Request : ask[r].age = 0
=============================================================================
