----------------------------- MODULE BucketFill -----------------------------
(***************************************************************************)
(* How one cron run turns the unspent PSBTs into a batch transaction:      *)
(* batchBucket from its sort on, fillUpBucket, attemptPushToBucket and     *)
(* finalizeBatch.  Every finalizeBatch reads the hashes of the PSBTs       *)
(* again, and a hash deleted by a revocation, or written again, in between *)
(* takes the hot wallet's signature off the next transaction, or puts it   *)
(* back.  Amounts are satoshis; sizes are Bitcoin's weight units.          *)
(* The value of an input is taken from its witnessUtxo, by some; a PSBT    *)
(* may give it in its nonWitnessUtxo only, where others find it as well.   *)
(***************************************************************************)
EXTENDS Integers, FiniteSets, FiniteSetsExt

CONSTANTS
  Psbt,
  CoSigned,      \* PSBTs the hot wallet can sign for, at some index
  Offers,        \* what users may hand in: records [value, fee, witness]
  Thresholds,    \* fee rates in sat/vB, rounded down
  FeeShare,      \* FEE = 1 / FeeShare
  TxWeight, PsbtWeight, SignatureWeight, OutputWeight,
  NoTx

VARIABLES
  pc,
  offer,      \* of each PSBT, the value of its input, the fee its output leaves, and
              \* whether there is a witnessUtxo
  threshold,  \* feeRateThreshold
  expired,    \* overrideMinServiceFees
  indexed,    \* co-signed PSBTs whose hash exists and has that index
  steady,     \* no hash has changed since the run began; the code does not know
  density,    \* of each PSBT, as the fraction gain / size
  rest,       \* sortedQueue of the current call of fillUpBucket
  tried,      \* members of rest this call has attempted in vain
  bucket,     \* bucket, as attemptPushToBucket grows it
  chosen,     \* what fillUpBucket returned
  staged,     \* the temporary transaction
  final       \* the transaction handed to postTx

inputs == <<offer, threshold, expired>>
fill   == <<density, rest, tried, bucket>>
hashes == <<indexed, steady>>
vars   == <<pc, inputs, hashes, fill, chosen, staged, final>>

-----------------------------------------------------------------------------
(* Sums and rates, over the offers o and the PSBTs the hot wallet signs.    *)

DustLimit == 546
BytesPerInput == 41
LossShare == 50          \* MAX_ACCEPTABLE_LOSS = 1 / LossShare

\* sumPSBTInputValues: an input without a witnessUtxo counts for nothing.
Counted(o, p) == IF o[p].witness THEN o[p].value ELSE 0
Value(o, S)   == MapThenSumSet(LAMBDA p : Counted(o, p), S)

\* getFee of the PSBT library, which finds every value.
Fee(o, S) == MapThenSumSet(LAMBDA p : o[p].fee, S)

\* inputSum - outputSum: what has not been counted is missing from the fee.
Funds(o, S) == Fee(o, S) - MapThenSumSet(LAMBDA p : o[p].value, {p \in S : ~o[p].witness})

\* Math.round; for FEE of two percent the product before is exact enough.
Rounded(n, d) == (2 * n + d) \div (2 * d)

ServiceFees(o, S) == Rounded(Value(o, S), FeeShare)

VSize(signed, S, outputs) ==
  (TxWeight + Cardinality(S) * PsbtWeight + Cardinality(S \cap signed) * SignatureWeight
     + outputs * OutputWeight + 3) \div 4

FeeOutputs(o, S, service) == IF service > DustLimit /\ Funds(o, S) >= service THEN 1 ELSE 0

\* finalizeBatch: what the network sees of the transaction.
Finalized(o, signed, S, service) ==
  LET outputs == FeeOutputs(o, S, service) IN
  [mining  |-> Fee(o, S) - outputs * service,
   vsize   |-> VSize(signed, S, outputs),
   outputs |-> outputs,
   signed  |-> S \cap signed]

\* getFeeRate rounds down.
Meets(t, rate) == t.mining \div t.vsize >= rate

Fits(o, signed, S, rate) == Meets(Finalized(o, signed, S, ServiceFees(o, S)), rate)

\* validatePSBT: at least 1 sat/vB, where the hot wallet may have signed, and something
\* left for the miners. Mutant: or nothing.
ValidatedLoosely(o, signed, p) ==
  /\ Meets([mining |-> o[p].fee, vsize |-> VSize(signed, {p}, 0)], 1)
  /\ o[p].fee - ServiceFees(o, {p}) >= 0
Validated(o, signed, p) ==
  /\ Meets([mining |-> o[p].fee, vsize |-> VSize(signed, {p}, 0)], 1)
  /\ o[p].fee - ServiceFees(o, {p}) > 0

\* mapPSBTToDensity: serviceFees * miningFees / virtualSize
Density(o, signed, p) ==
  [gain |-> ServiceFees(o, {p}) * (o[p].fee - ServiceFees(o, {p})),
   size |-> VSize(signed, {p}, 0)]

ASSUME ConstantsAssumption ==
  /\ Psbt # {} /\ IsFiniteSet(Psbt)
  /\ CoSigned \subseteq Psbt
  /\ Offers \subseteq [value : Nat, fee : Nat, witness : BOOLEAN]
  /\ Thresholds \subseteq Nat
  /\ FeeShare \in Nat \ {0}
  /\ {TxWeight, PsbtWeight, SignatureWeight, OutputWeight} \subseteq Nat \ {0}

-----------------------------------------------------------------------------

\* The index of a hash need not be the one its PSBT was validated with (CoSigning).
Init ==
  /\ pc = "sort"
  /\ offer \in [Psbt -> Offers]
  /\ \E signed \in SUBSET CoSigned : \A p \in Psbt : Validated(offer, signed, p)
  /\ threshold \in Thresholds
  /\ expired \in BOOLEAN
  /\ indexed \in SUBSET CoSigned /\ steady = TRUE
  /\ density = [p \in Psbt |-> [gain |-> 0, size |-> 1]]
  /\ rest = Psbt
  /\ tried = {} /\ bucket = {} /\ chosen = {}
  /\ staged = NoTx /\ final = NoTx

Sort ==
  /\ pc = "sort"
  /\ density' = [p \in Psbt |-> Density(offer, indexed, p)]
  /\ pc' = "full"
  /\ UNCHANGED <<inputs, hashes, rest, tried, bucket, chosen, staged, final>>

\* The bucket of everything left. Without any input finalize throws.
TryAll ==
  /\ pc = "full"
  /\ \/ /\ rest = {}
        /\ pc' = "thrown" /\ UNCHANGED chosen
     \/ /\ rest # {} /\ Fits(offer, indexed, rest, threshold)
        /\ pc' = "chosen" /\ chosen' = rest
     \/ /\ rest # {} /\ ~Fits(offer, indexed, rest, threshold)
        /\ pc' = "push" /\ UNCHANGED chosen
  /\ UNCHANGED <<inputs, hashes, fill, staged, final>>

Denser(p, q) == density[p].gain * density[q].size >= density[q].gain * density[p].size

\* Next in line; equal densities are taken in any order.
InLine(p) == p \in rest \ tried /\ \A q \in rest \ tried : Denser(p, q)

\* Mutant: slice(index) for slice(index + 1).
AllBut(S, p) == S
Without(S, p) == S \ {p}

\* attemptPushToBucket, and the recursive call after a success: it starts over.
\* Mutant: it goes on after the PSBT just added.
PushGoesOn(p) ==
  /\ pc = "push" /\ InLine(p)
  /\ Fits(offer, indexed, bucket \cup {p}, threshold)
  /\ bucket' = bucket \cup {p}
  /\ rest' = Without(rest, p)
  /\ pc' = "full"
  /\ UNCHANGED <<inputs, hashes, density, tried, chosen, staged, final>>

\* Mutant: only the rate of the PSBT by itself is looked at.
PushAlone(p) ==
  /\ pc = "push" /\ InLine(p)
  /\ Fits(offer, indexed, {p}, threshold)
  /\ bucket' = bucket \cup {p}
  /\ rest' = Without(rest, p)
  /\ tried' = {}
  /\ pc' = "full"
  /\ UNCHANGED <<inputs, hashes, density, chosen, staged, final>>

Push(p) ==
  /\ pc = "push" /\ InLine(p)
  /\ Fits(offer, indexed, bucket \cup {p}, threshold)
  /\ bucket' = bucket \cup {p}
  /\ rest' = Without(rest, p)
  /\ tried' = {}
  /\ pc' = "full"
  /\ UNCHANGED <<inputs, hashes, density, chosen, staged, final>>

Skip(p) ==
  /\ pc = "push" /\ InLine(p)
  /\ ~Fits(offer, indexed, bucket \cup {p}, threshold)
  /\ tried' = tried \cup {p}
  /\ UNCHANGED <<pc, inputs, hashes, density, rest, bucket, chosen, staged, final>>

Exhausted ==
  /\ pc = "push" /\ rest \subseteq tried
  /\ chosen' = bucket
  /\ pc' = "chosen"
  /\ UNCHANGED <<inputs, hashes, fill, staged, final>>

MinServiceFees == threshold * BytesPerInput * LossShare

\* "No PSBTs could be batched", or "Service fees too low".
GiveUp ==
  /\ pc = "chosen"
  /\ chosen = {} \/ (ServiceFees(offer, chosen) < MinServiceFees /\ ~expired)
  /\ pc' = "none"
  /\ UNCHANGED <<inputs, hashes, fill, chosen, staged, final>>

Staged == Finalized(offer, indexed, chosen, ServiceFees(offer, chosen))

\* The first finalizeBatch, and the sanity check. Mutant: no check.
StageUnchecked ==
  /\ pc = "chosen"
  /\ chosen # {} /\ (ServiceFees(offer, chosen) >= MinServiceFees \/ expired)
  /\ staged' = Staged
  /\ pc' = "staged"
  /\ UNCHANGED <<inputs, hashes, fill, chosen, final>>
Stage ==
  /\ pc = "chosen"
  /\ chosen # {} /\ (ServiceFees(offer, chosen) >= MinServiceFees \/ expired)
  /\ staged' = Staged
  /\ pc' = IF Meets(Staged, threshold) THEN "staged" ELSE "none"
  /\ UNCHANGED <<inputs, hashes, fill, chosen, final>>

\* overpaidMinerFees
Overpaid(t) == t.mining - threshold * t.vsize

FinalServiceFees ==
  ServiceFees(offer, chosen) + (IF Overpaid(staged) > 0 THEN Overpaid(staged) ELSE 0) - 1

\* The second finalizeBatch, which moves what the miners need not have to the
\* fee output.
Finish ==
  /\ pc = "staged"
  /\ final' = Finalized(offer, indexed, chosen, FinalServiceFees)
  /\ pc' = "batched"
  /\ UNCHANGED <<inputs, hashes, fill, chosen, staged>>

\* Another request revokes the PSBT, or adds it again, with an index that signs or
\* another one, while the run awaits. Mutant: adding it writes an index even where the request had none.
HashWrittenAlways(p) ==
  /\ p \notin indexed
  /\ indexed' = indexed \cup {p} /\ steady' = FALSE
  /\ UNCHANGED <<pc, inputs, fill, chosen, staged, final>>

HashDeleted(p) ==
  /\ p \in indexed
  /\ indexed' = indexed \ {p} /\ steady' = FALSE
  /\ UNCHANGED <<pc, inputs, fill, chosen, staged, final>>

HashWritten(p) ==
  /\ p \in CoSigned \ indexed
  /\ indexed' = indexed \cup {p} /\ steady' = FALSE
  /\ UNCHANGED <<pc, inputs, fill, chosen, staged, final>>

Run ==
  \/ Sort \/ TryAll \/ (\E p \in Psbt : Push(p) \/ Skip(p)) \/ Exhausted
  \/ GiveUp \/ Stage \/ Finish

Next == Run \/ \E p \in Psbt : HashDeleted(p) \/ HashWritten(p)

\* Redis answers, so the run goes on.
Spec == Init /\ [][Next]_vars /\ WF_vars(Run)

-----------------------------------------------------------------------------

TypeOK ==
  /\ pc \in {"sort", "full", "push", "chosen", "staged", "batched", "none", "thrown"}
  /\ offer \in [Psbt -> Offers]
  /\ threshold \in Thresholds
  /\ expired \in BOOLEAN
  /\ indexed \subseteq CoSigned /\ steady \in BOOLEAN
  /\ rest \subseteq Psbt /\ tried \subseteq rest /\ bucket \subseteq Psbt
  /\ chosen \subseteq Psbt

\* Each PSBT is either pushed or still queued: none is lost between the
\* recursive calls, and none is merged twice (fillUpBucket's slices; a
\* duplicate input makes addInputs throw).
EachOnce == bucket \cap rest = {} /\ bucket \cup rest = Psbt

\* The service fee of any validated PSBTs with a witnessUtxo fits into what their
\* outputs leave, however the percentages round: with them finalizeBatch never drops
\* the fee output for lack of funds (validatePSBT against getServiceFees).
ServiceFeesFit ==
  \A S \in SUBSET {p \in Psbt : offer[p].witness} :
    S # {} => ServiceFees(offer, S) <= Funds(offer, S)

\* As long as no hash changes, a PSBT passed over cannot be added to the bucket
\* that fillUpBucket has filled by then.
SkippedDoesNotFit ==
  steady => \A p \in tried : ~Fits(offer, indexed, bucket \cup {p}, threshold)

\* The sanity check of batchBucket fails only after a hash has changed: fillUpBucket
\* returns nothing, or PSBTs that meet the rate, through all its recursive calls.
ChosenFits == steady /\ pc = "chosen" /\ chosen # {} => Meets(Staged, threshold)

\* The final transaction of a batch that pays the service pays the miners the
\* rate asked for, unless a hash changed after staging. It pays them at most a
\* satoshi more, the rest going to the service, if all inputs have a witnessUtxo
\* (batchBucket's overpaidMinerFees). Only the last satoshi above the dust limit
\* is lost to the final "- 1".
FinalPaysMiners ==
  final # NoTx /\ staged.outputs = 1 /\ final.signed = staged.signed =>
    /\ final.mining >= threshold * final.vsize
    /\ \/ final.mining <= threshold * final.vsize + 1
       \/ \E p \in chosen : ~offer[p].witness
       \/ ServiceFees(offer, chosen) = DustLimit + 1

\* Whatever requests do meanwhile, fillUpBucket returns or throws.
FillEnds == <>(pc \in {"batched", "none", "thrown"})

\* A PSBT that was added to the bucket without dropping its fee rate below the
\* threshold is in the batch.
PushedIsBatched == pc = "chosen" => bucket \subseteq chosen

=============================================================================
