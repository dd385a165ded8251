----------------------------- MODULE MCGroupHug -----------------------------
(* Instances of GroupHug for TLC. *)
EXTENDS GroupHug, TLC

CONSTANTS p1, p2, o1, o2

OwnInput   == (p1 :> o1) @@ (p2 :> o2)
SameInput  == (p1 :> o1) @@ (p2 :> o1)
OneInput   == (p1 :> o1)

\* Each PSBT is added by one request, and revoked are those whose output does not
\* exist. No step changes either, so this only chooses initial states.
AddsDiffer == \A a, b \in AddRequest : a # b => add[a].psbt # add[b].psbt
MissingRevoked == \A v \in RevokeRequest : Input[rev[v].psbt] \in Missing

RequestSymmetry ==
  Permutations(AddRequest) \cup Permutations(RevokeRequest) \cup Permutations(CronRun)
=============================================================================
