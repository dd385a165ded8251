----------------------------- MODULE PsbtLedger -----------------------------
(***************************************************************************)
(* What groupHug promises about the PSBTs handed to it, with every         *)
(* operation atomic: the Redis queue, the hash kept per PSBT, the members  *)
(* of each batch, the fee address index, and the transactions the Bitcoin  *)
(* network has accepted.  GroupHug.tla is the same system with the steps   *)
(* in which the code performs these operations, and implements this one.   *)
(***************************************************************************)
EXTENDS Naturals

CONSTANTS
  Psbt,       \* the PSBTs users may hand in
  Outpoint,   \* the outputs they spend
  Input,      \* the single input of each PSBT
  Token,      \* revocation tokens
  NoToken, NoTx

VARIABLES
  queue,      \* set at KEYS.PSBT.QUEUE
  record,     \* hash at KEYS.PSBT.PREFIX + id, for each PSBT
  batch,      \* members of the sets at KEYS.BATCH + txId, as pairs <<txId, PSBT>>
  feeIndex,   \* counter at KEYS.FEE.INDEX
  broadcast,  \* batch transactions the network accepted
  external    \* outpoints spent by somebody else's transaction

vars == <<queue, record, batch, feeIndex, broadcast, external>>

-----------------------------------------------------------------------------

\* A batch transaction: the PSBTs it merges and the index of the fee address
\* its last output pays.
Tx == [ins : (SUBSET Psbt) \ {{}}, fee : Nat]

\* HSET writes psbt, revocationToken and index together and DEL removes them
\* together, so the token stands for the three fields.
Record == [token : Token \cup {NoToken}, txId : Tx \cup {NoTx}]
Absent == [token |-> NoToken, txId |-> NoTx]

InputsOf(S) == {Input[p] : p \in S}

\* The outpoints that are gone: external to the server, the network's view.
Spent == external \cup UNION {InputsOf(t.ins) : t \in broadcast}

Batched(t) == {p \in Psbt : <<t, p>> \in batch}

ASSUME ConstantsAssumption ==
  /\ Input \in [Psbt -> Outpoint]
  /\ NoToken \notin Token
  /\ NoTx \notin Tx

-----------------------------------------------------------------------------
(* The effects of the Redis commands, and beside each its mutant: the same  *)
(* command with a plausible mistake, which the properties must notice.      *)

\* SREM of a revoked PSBT.
NotWithout(p) == queue
Without(p) == queue \ {p}

\* INCR.
SameFeeIndex == feeIndex
NextFeeIndex == feeIndex + 1

\* SADD KEYS.BATCH + txId.
SwappedMembers(t) == {<<p, t>> : p \in t.ins}
Members(t) == {<<t, p>> : p \in t.ins}

\* HSET { txId } for every PSBT of the bucket.
QueueLabelled(t) ==
  [p \in Psbt |->
     IF p \in t.ins \cup queue THEN [record[p] EXCEPT !.txId = t] ELSE record[p]]
Labelled(t) ==
  [p \in Psbt |-> IF p \in t.ins THEN [record[p] EXCEPT !.txId = t] ELSE record[p]]

-----------------------------------------------------------------------------

Init ==
  /\ queue = {}
  /\ record = [p \in Psbt |-> Absent]
  /\ batch = {}
  /\ feeIndex = 0
  /\ broadcast = {}
  /\ external = {}

\* addPSBTToQueue: SADD the queue and HSET the hash, leaving a txId in place.
Register(p, k) ==
  /\ queue' = queue \cup {p}
  /\ record' = [record EXCEPT ![p].token = k]
  /\ UNCHANGED <<batch, feeIndex, broadcast, external>>

\* revokePSBTController: SREM the queue and DEL the hash of a known PSBT.
Revoke(p) ==
  /\ record[p].token # NoToken
  /\ queue' = Without(p)
  /\ record' = [record EXCEPT ![p] = Absent]
  /\ UNCHANGED <<batch, feeIndex, broadcast, external>>

\* batchBucket: SREM PSBTs whose input has been spent.
DropSpent(S) ==
  /\ InputsOf(S) \subseteq Spent
  /\ queue' = queue \ S
  /\ UNCHANGED <<record, batch, feeIndex, broadcast, external>>

\* The network accepts a batch transaction with a fee address handed out so far.
Broadcast(t) ==
  /\ t.fee <= feeIndex
  /\ InputsOf(t.ins) \cap Spent = {}
  /\ broadcast' = broadcast \cup {t}
  /\ UNCHANGED <<queue, record, batch, feeIndex, external>>

\* batchTransactions: the transaction that follows a successful broadcast.
RecordBatch(t) ==
  /\ t \in broadcast
  /\ feeIndex' = NextFeeIndex
  /\ batch' = batch \cup Members(t)
  /\ record' = Labelled(t)
  /\ queue' = queue \ t.ins
  /\ UNCHANGED <<broadcast, external>>

SpendElsewhere(o) ==
  /\ o \notin Spent
  /\ external' = external \cup {o}
  /\ UNCHANGED <<queue, record, batch, feeIndex, broadcast>>

Next ==
  \/ \E p \in Psbt, k \in Token : Register(p, k)
  \/ \E p \in Psbt : Revoke(p)
  \/ \E S \in SUBSET Psbt : DropSpent(S)
  \/ \E S \in (SUBSET Psbt) \ {{}} : \E i \in 0 .. feeIndex :
       Broadcast([ins |-> S, fee |-> i])
  \/ \E t \in broadcast : RecordBatch(t)
  \/ \E o \in Outpoint : SpendElsewhere(o)

Spec == Init /\ [][Next]_vars

-----------------------------------------------------------------------------

TypeOK ==
  /\ queue \subseteq Psbt
  /\ record \in [Psbt -> Record]
  /\ batch \subseteq Tx \X Psbt
  /\ feeIndex \in Nat
  /\ broadcast \subseteq Tx
  /\ external \subseteq Outpoint

\* A queued PSBT can be revoked: its hash holds a token
\* (validateRevokePSBT and revokePSBTController find it).
QueuedIsRevocable == \A p \in queue : record[p].token # NoToken

\* What the batch status endpoint reports: a PSBT with a txId is in that
\* transaction, the network has accepted it, and the batch set counts exactly
\* its participants (getBatchStatusController).
StatusTellsTruth ==
  \A p \in Psbt :
    LET t == record[p].txId IN
      t # NoTx => t \in broadcast /\ p \in t.ins /\ Batched(t) = t.ins

\* The fee address of a recorded batch is never handed out again
\* (getUnusedFeeAddress derives the address at feeIndex).
RecordedFeeRetired == \A t \in broadcast : Batched(t) # {} => t.fee < feeIndex

\* A PSBT is in at most one batch: two network transactions never share it.
BatchedOnce ==
  \A t, u \in broadcast : t # u => t.ins \cap u.ins = {}

\* A PSBT reported as batched is never reported in another transaction:
\* only its revocation, which deletes the hash, takes the txId away.
StatusStable ==
  [][\A p \in Psbt :
       record[p].txId # NoTx => record'[p].txId \in {record[p].txId, NoTx}]_vars

=============================================================================
