----------------------------- MODULE CoSigning -----------------------------
(***************************************************************************)
(* The signatures of the server: validatePSBT signs a copy of the PSBT to  *)
(* learn its fee rate, the index it signed with is kept in the hash, and   *)
(* finalizeBatch signs again, days and perhaps a wallet rotation later.    *)
(* The hot wallet and the one before it are given when the server starts.  *)
(* Amounts are the subject of BucketFill, interleavings that of GroupHug.  *)
(***************************************************************************)
EXTENDS Integers, FiniteSets, Sequences, Functions

CONSTANTS
  Psbt,
  Index,          \* indexes of users' keys that requests carry
  MaxGeneration,  \* bound on the rotations of the hot wallet
  NoIndex, NoKey, NoForm,
  Gone            \* there is no hash

VARIABLES
  hot,       \* generation of hotWallet; oldHotWallet is the one before
  form,      \* what was handed in, as its user signed it
  queue,
  index,     \* the field index of each hash
  cosigned,  \* PSBTs the server signed when it last validated them
  counted,   \* PSBTs whose rate was once compared with the server's signature in place
  snap,      \* the queue as the cron run read it
  batch      \* the inputs of stagedTx, in order; output i is that of input i

wallets == <<hot>>
redis   == <<queue, index>>
checked == <<cosigned, counted>>
vars    == <<wallets, form, redis, checked, snap, batch>>

-----------------------------------------------------------------------------

\* The server's key in the witness script, by wallet and derivation path.
Key == [generation : 0 .. MaxGeneration, index : Index \cap Nat]

\* "flaws": more than one input or output, a signature that is invalid or missing,
\* a sighash type that is not SINGLE | ANYONECANPAY; one of them at a time.
\* "barely": the rate is the minimum as long as the server has not signed.
Form ==
  [flaws : {{}} \cup {{x} : x \in {"inputs", "outputs", "signature", "sighash"}},
   key : Key \cup {NoKey}, rate : {"enough", "barely", "low"}]

\* An input of the batch: "read" is the index its hash held then, and "cosigned"
\* whether the validation before had signed.
Signed == [psbt : Psbt, server : BOOLEAN, read : Index \cup {NoIndex, Gone}, cosigned : BOOLEAN]

ASSUME ConstantsAssumption ==
  /\ IsFiniteSet(Psbt)
  /\ Index \subseteq Int /\ NoIndex \notin Int /\ Gone \notin Int \cup {NoIndex}
  /\ NoKey \notin Key /\ NoForm \notin Form
  /\ MaxGeneration \in Nat \ {0}

Init ==
  /\ hot = 1
  /\ form = [p \in Psbt |-> NoForm]
  /\ queue = {}
  /\ index = [p \in Psbt |-> Gone]
  /\ cosigned = {} /\ counted = {} /\ snap = {}
  /\ batch = <<>>

-----------------------------------------------------------------------------
(* Signing: getSignerByIndex derives the key of an index from both wallets,  *)
(* and the one whose key is in the witness script signs.                     *)

Wallets == {hot, hot - 1}

HasKey(f, i, loaded) ==
  f.key # NoKey /\ f.key.index = i /\ f.key.generation \in loaded

\* signAllInputs, on the copy that validatePSBT makes; an index of zero counts as
\* none.
SignsCopy(f, i) == i # NoIndex /\ i # 0 /\ HasKey(f, i, Wallets)

\* signBatchedTransaction, with the index of the hash; "0" counts. Mutant: the old
\* wallet is not tried.
SignsInputWithHot(p) == index[p] \in Index /\ HasKey(form[p], index[p], {hot})
SignsInput(p) == index[p] \in Index /\ HasKey(form[p], index[p], Wallets)

-----------------------------------------------------------------------------
(* POST /v1/addPSBT *)

\* Mutant: the rate is that of the PSBT as it was handed in.
RateOfUnsigned(f, i) == f.rate # "low"
RateSuffices(f, i) == f.rate = "enough" \/ (f.rate = "barely" /\ ~SignsCopy(f, i))

\* validatePSBT
Validated(f, i) ==
  /\ i # NoIndex => i >= 0
  /\ f.flaws = {}
  /\ RateSuffices(f, i)

\* registerPSBTWithClient: hset leaves out an undefined index, so that a hash which
\* outlived batching or pruning keeps its old one. Mutant: a text is stored for
\* undefined, for which NoKey stands.
StoredAlways(p, i) == IF i = NoIndex THEN NoKey ELSE i
Stored(p, i) ==
  CASE i # NoIndex -> i
    [] i = NoIndex /\ index[p] = Gone -> NoIndex
    [] OTHER -> index[p]

\* The PSBT is what its user signed; the index is the request's, and may be another
\* one when the PSBT comes again. A key that a user's client was given is not one of
\* a wallet to come.
AddPSBT(p, f, i) ==
  /\ p \notin queue
  /\ form[p] \in {NoForm, f}
  /\ f.key # NoKey => f.key.generation <= hot
  /\ Validated(f, i)
  /\ form' = [form EXCEPT ![p] = f]
  /\ queue' = queue \cup {p}
  /\ index' = [index EXCEPT ![p] = Stored(p, i)]
  /\ cosigned' = IF SignsCopy(f, i) THEN cosigned \cup {p} ELSE cosigned \ {p}
  /\ counted' = IF SignsCopy(f, i) THEN counted \cup {p} ELSE counted
  /\ UNCHANGED <<wallets, snap, batch>>

RevokePSBT(p) ==
  /\ index[p] # Gone
  /\ queue' = queue \ {p}
  /\ index' = [index EXCEPT ![p] = Gone]
  /\ UNCHANGED <<wallets, form, checked, snap, batch>>

-----------------------------------------------------------------------------
(* A cron run, and restarts *)

TakeSnapshot ==
  /\ snap = {} /\ queue # {}
  /\ snap' = queue
  /\ UNCHANGED <<wallets, form, redis, checked, batch>>

\* finalizeBatch for the bucket that fillUpBucket chose.
FinalizeBatch ==
  /\ batch = <<>>
  /\ \E bucket \in (SUBSET snap) \ {{}} : \E order \in Bijection(1 .. Cardinality(bucket), bucket) :
       batch' = [i \in DOMAIN order |->
                   [psbt |-> order[i], server |-> SignsInput(order[i]),
                    read |-> index[order[i]], cosigned |-> order[i] \in cosigned]]
  /\ UNCHANGED <<wallets, form, redis, checked, snap>>

\* The network: no witness may lack the server's signature.
NetworkAccepts == \A i \in DOMAIN batch : form[batch[i].psbt].key # NoKey => batch[i].server

\* postTx, and the transaction that takes the bucket from the queue.
Record ==
  /\ batch # <<>>
  /\ NetworkAccepts
  /\ queue' = queue \ {batch[i].psbt : i \in DOMAIN batch}
  /\ snap' = {} /\ batch' = <<>>
  /\ UNCHANGED <<wallets, form, index, checked>>

\* Nothing could be batched, the network refused, or something threw.
GiveUp ==
  /\ snap # {}
  /\ snap' = {} /\ batch' = <<>>
  /\ UNCHANGED <<wallets, form, redis, checked>>

\* initWallets, with the same wallets or with a new one in front.
Restart ==
  /\ hot' \in {hot, hot + 1} /\ hot' <= MaxGeneration
  /\ snap' = {} /\ batch' = <<>>
  /\ UNCHANGED <<form, redis, checked>>

Next ==
  \/ \E p \in Psbt : RevokePSBT(p)
  \/ \E p \in Psbt, f \in Form, i \in Index \cup {NoIndex} : AddPSBT(p, f, i)
  \/ TakeSnapshot \/ FinalizeBatch \/ Record \/ GiveUp
  \/ Restart

Spec == Init /\ [][Next]_vars

-----------------------------------------------------------------------------

TypeOK ==
  /\ hot \in 1 .. MaxGeneration
  /\ form \in [Psbt -> Form \cup {NoForm}]
  /\ queue \subseteq Psbt /\ snap \subseteq Psbt
  /\ cosigned \subseteq Psbt /\ counted \subseteq Psbt
  /\ index \in [Psbt -> Index \cup {NoIndex, Gone}]
  /\ batch \in Seq(Signed)

\* In the batch the server signs no more than it signed at some validation, and no
\* less than it signed at the last one: in whatever order the bucket came, as long as
\* the hash is there and the wallet of the key has been replaced at most once (a PSBT
\* accepted with a key of the old wallet outlives no further rotation). "No more"
\* excepts an index of zero, which signs in the batch only; an older index that the
\* hash kept over an add without one signs as well (validatePSBT,
\* signBatchedTransaction, hset).
SignedAsValidated ==
  \A i \in DOMAIN batch : LET b == batch[i] IN
    /\ b.server /\ b.read # 0 => b.psbt \in counted
    /\ b.cosigned /\ b.read # Gone /\ form[b.psbt].key.generation >= hot - 1 => b.server

\* What validatePSBT checked still holds in the batch: no input or output of the
\* user is left out, and the signature that the server adds was counted when the
\* fee rate was compared with the minimum, by whichever validation, unless it is
\* made for an index of zero.
BatchAsValidated ==
  \A i \in DOMAIN batch : LET b == batch[i] IN
    /\ form[b.psbt].flaws = {}
    /\ b.server /\ b.read # 0 => form[b.psbt].rate = "enough"

=============================================================================
