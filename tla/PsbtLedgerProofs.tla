-------------------------- MODULE PsbtLedgerProofs --------------------------
(* Proofs about PsbtLedger: its invariants, for any sets of PSBTs, outpoints *)
(* and tokens.                                                               *)
EXTENDS PsbtLedger, TLAPS

\* A batch set holds exactly the PSBTs of a broadcast transaction, or nothing.
BatchesWhole ==
  \A t \in Tx : \A p \in Psbt :
    <<t, p>> \in batch => t \in broadcast /\ \A q \in Psbt : <<t, q>> \in batch <=> q \in t.ins

\* The labels of StatusTellsTruth, before the batch set is counted.
LabelsTrue ==
  \A p \in Psbt : record[p].txId # NoTx =>
    /\ record[p].txId \in broadcast
    /\ p \in record[p].txId.ins
    /\ <<record[p].txId, p>> \in batch

FeesHandedOut ==
  \A t \in broadcast : t.fee <= feeIndex

Inv ==
  /\ TypeOK
  /\ QueuedIsRevocable
  /\ LabelsTrue
  /\ BatchesWhole
  /\ BatchedOnce
  /\ FeesHandedOut
  /\ RecordedFeeRetired

-----------------------------------------------------------------------------

\* The parameters of Broadcast range over transactions.
LEMMA BroadcastIsTx ==
  ASSUME TypeOK, NEW S \in (SUBSET Psbt) \ {{}}, NEW i \in 0 .. feeIndex
  PROVE  [ins |-> S, fee |-> i] \in Tx
BY DEF TypeOK, Tx

\* TypeOK is inductive.
LEMMA TypeStep == TypeOK /\ [Next]_vars => TypeOK'
<1> SUFFICES ASSUME TypeOK, [Next]_vars PROVE TypeOK'
  OBVIOUS
<1> USE ConstantsAssumption DEF TypeOK
<1>1. ASSUME NEW p \in Psbt, NEW k \in Token, Register(p, k) PROVE TypeOK'
  BY <1>1 DEF Register, Record
<1>2. ASSUME NEW p \in Psbt, Revoke(p) PROVE TypeOK'
  BY <1>2 DEF Revoke, Record, Absent, Without
<1>3. ASSUME NEW S \in SUBSET Psbt, DropSpent(S) PROVE TypeOK'
  BY <1>3 DEF DropSpent
<1>4. ASSUME NEW S \in (SUBSET Psbt) \ {{}}, NEW i \in 0 .. feeIndex,
             Broadcast([ins |-> S, fee |-> i])
      PROVE  TypeOK'
  BY <1>4, BroadcastIsTx DEF Broadcast
<1>5. ASSUME NEW t \in broadcast, RecordBatch(t) PROVE TypeOK'
  <2>1. t \in Tx /\ t.ins \subseteq Psbt
    BY DEF Tx
  <2>2. Members(t) \subseteq Tx \X Psbt
    BY <2>1 DEF Members
  <2>3. record' \in [Psbt -> Record]
    BY <1>5, <2>1 DEF RecordBatch, Labelled, Record
  <2> QED
    BY <1>5, <2>1, <2>2, <2>3 DEF RecordBatch, NextFeeIndex
<1>6. ASSUME NEW o \in Outpoint, SpendElsewhere(o) PROVE TypeOK'
  BY <1>6 DEF SpendElsewhere
<1>7. CASE UNCHANGED vars
  BY <1>7 DEF vars
<1> QED
  BY <1>1, <1>2, <1>3, <1>4, <1>5, <1>6, <1>7 DEF Next

\* The promises hold initially.
LEMMA InvInit == Init => Inv
<1> SUFFICES ASSUME Init PROVE Inv
  OBVIOUS
<1>1. TypeOK
  BY DEF Init, TypeOK, Record, Absent
<1>2. LabelsTrue /\ BatchesWhole /\ QueuedIsRevocable
  BY DEF Init, LabelsTrue, BatchesWhole, QueuedIsRevocable, Absent
<1>3. BatchedOnce /\ FeesHandedOut /\ RecordedFeeRetired
  BY DEF Init, BatchedOnce, FeesHandedOut, RecordedFeeRetired
<1> QED
  BY <1>1, <1>2, <1>3 DEF Inv

\* A new broadcast is disjoint from the earlier ones: its inputs are unspent.
LEMMA BroadcastStep ==
  ASSUME Inv, NEW t \in Tx, Broadcast(t)
  PROVE  BatchedOnce' /\ FeesHandedOut' /\ RecordedFeeRetired'
<1> USE DEF Inv, Broadcast
<1>1. \A u \in broadcast : t.ins \cap u.ins = {}
  <2> SUFFICES ASSUME NEW u \in broadcast, NEW p \in t.ins, p \in u.ins PROVE FALSE
    OBVIOUS
  <2>1. Input[p] \in InputsOf(t.ins) /\ Input[p] \in InputsOf(u.ins)
    BY DEF InputsOf
  <2>2. Input[p] \in Spent
    BY <2>1 DEF Spent
  <2> QED
    BY <2>1, <2>2
<1>2. BatchedOnce'
  BY <1>1 DEF BatchedOnce
<1>3. FeesHandedOut'
  BY DEF FeesHandedOut
<1>4. t \notin broadcast => Batched(t) = {}
  BY DEF BatchesWhole, Batched
<1>5. RecordedFeeRetired'
  BY <1>4 DEF RecordedFeeRetired, Batched
<1> QED
  BY <1>2, <1>3, <1>5

\* Recording a batch writes its members and their labels together.
LEMMA RecordStep ==
  ASSUME Inv, NEW t \in broadcast, RecordBatch(t)
  PROVE  QueuedIsRevocable' /\ LabelsTrue' /\ BatchesWhole' /\ FeesHandedOut' /\ RecordedFeeRetired'
<1> USE DEF Inv, RecordBatch
<1>1. t \in Tx /\ t.ins \subseteq Psbt /\ broadcast \subseteq Tx
  BY DEF TypeOK, Tx
<1>2. \A u \in Tx : \A p \in Psbt :
        <<u, p>> \in batch' <=> <<u, p>> \in batch \/ (u = t /\ p \in t.ins)
  BY DEF Members
<1>3. \A p \in Psbt :
        /\ record'[p].token = record[p].token
        /\ record'[p].txId = IF p \in t.ins THEN t ELSE record[p].txId
  BY DEF Labelled, TypeOK, Record
<1>4. QueuedIsRevocable'
  BY <1>3 DEF QueuedIsRevocable, TypeOK
<1>5. LabelsTrue'
  BY <1>1, <1>2, <1>3 DEF LabelsTrue
<1>6. BatchesWhole'
  BY <1>1, <1>2 DEF BatchesWhole
<1>7. FeesHandedOut'
  BY <1>1 DEF FeesHandedOut, NextFeeIndex, TypeOK, Tx
<1>8. RecordedFeeRetired'
  <2>1. \A u \in broadcast : u.fee \in Nat /\ u.fee <= feeIndex
    BY <1>1 DEF FeesHandedOut, Tx
  <2> QED
    BY <2>1 DEF RecordedFeeRetired, NextFeeIndex, TypeOK
<1> QED
  BY <1>4, <1>5, <1>6, <1>7, <1>8

\* Inv is inductive.
LEMMA InvStep == Inv /\ [Next]_vars => Inv'
<1> SUFFICES ASSUME Inv, [Next]_vars PROVE Inv'
  OBVIOUS
<1> USE DEF Inv
<1>1. TypeOK'
  BY TypeStep
<1>2. ASSUME NEW p \in Psbt, NEW k \in Token, Register(p, k) PROVE Inv'
  <2>1. /\ record'[p].token = k /\ record'[p].txId = record[p].txId
        /\ \A q \in Psbt \ {p} : record'[q] = record[q]
    BY <1>2 DEF Register, TypeOK, Record
  <2>2. QueuedIsRevocable'
    BY <1>2, <2>1, ConstantsAssumption DEF Register, QueuedIsRevocable, TypeOK
  <2>3. LabelsTrue'
    BY <1>2, <2>1 DEF Register, LabelsTrue
  <2> QED
    BY <1>1, <1>2, <2>2, <2>3
       DEF Register, BatchesWhole, BatchedOnce, FeesHandedOut, RecordedFeeRetired, Batched
<1>3. ASSUME NEW p \in Psbt, Revoke(p) PROVE Inv'
  <2>1. record'[p].txId = NoTx /\ \A q \in Psbt \ {p} : record'[q] = record[q]
    BY <1>3 DEF Revoke, Absent, TypeOK
  <2>2. QueuedIsRevocable'
    BY <1>3, <2>1 DEF Revoke, Without, QueuedIsRevocable, TypeOK
  <2>3. LabelsTrue'
    BY <1>3, <2>1 DEF Revoke, LabelsTrue
  <2> QED
    BY <1>1, <1>3, <2>2, <2>3
       DEF Revoke, BatchesWhole, BatchedOnce, FeesHandedOut, RecordedFeeRetired, Batched
<1>4. ASSUME NEW S \in SUBSET Psbt, DropSpent(S) PROVE Inv'
  BY <1>1, <1>4 DEF DropSpent, QueuedIsRevocable, LabelsTrue, BatchesWhole, BatchedOnce,
                    FeesHandedOut, RecordedFeeRetired, Batched
<1>5. ASSUME NEW S \in (SUBSET Psbt) \ {{}}, NEW i \in 0 .. feeIndex,
             Broadcast([ins |-> S, fee |-> i])
      PROVE  Inv'
  <2>1. BatchedOnce' /\ FeesHandedOut' /\ RecordedFeeRetired'
    BY <1>5, BroadcastIsTx, BroadcastStep
  <2>2. QueuedIsRevocable' /\ LabelsTrue' /\ BatchesWhole'
    BY <1>5 DEF Broadcast, QueuedIsRevocable, LabelsTrue, BatchesWhole
  <2> QED
    BY <1>1, <2>1, <2>2
<1>6. ASSUME NEW t \in broadcast, RecordBatch(t) PROVE Inv'
  <2>1. BatchedOnce'
    BY <1>6 DEF RecordBatch, BatchedOnce
  <2> QED
    BY <1>1, <1>6, <2>1, RecordStep
<1>7. ASSUME NEW o \in Outpoint, SpendElsewhere(o) PROVE Inv'
  BY <1>1, <1>7 DEF SpendElsewhere, QueuedIsRevocable, LabelsTrue, BatchesWhole, BatchedOnce,
                    FeesHandedOut, RecordedFeeRetired, Batched
<1>8. CASE UNCHANGED vars
  BY <1>1, <1>8 DEF vars, QueuedIsRevocable, LabelsTrue, BatchesWhole, BatchedOnce,
                    FeesHandedOut, RecordedFeeRetired, Batched
<1> QED
  BY <1>2, <1>3, <1>4, <1>5, <1>6, <1>7, <1>8 DEF Next

\* The state invariant of the ledger.
THEOREM LedgerInvariant == Spec => []Inv
<1>1. Init => Inv
  BY InvInit
<1>2. Inv /\ [Next]_vars => Inv'
  BY InvStep
<1> QED
  BY <1>1, <1>2, PTL DEF Spec

-----------------------------------------------------------------------------

\* Every key holds a value of its type, after any sequence of operations.
THEOREM LedgerTypes == Spec => []TypeOK
<1>1. Inv => TypeOK
  BY DEF Inv
<1> QED
  BY <1>1, LedgerInvariant, PTL

\* A queued PSBT always has a hash with a token to revoke it by.
THEOREM QueuedStaysRevocable == Spec => []QueuedIsRevocable
<1>1. Inv => QueuedIsRevocable
  BY DEF Inv
<1> QED
  BY <1>1, LedgerInvariant, PTL

\* What the batch status endpoint reports is true: the PSBT is part of a
\* transaction the network has, and the participants are those of the batch.
THEOREM StatusIsTrue == Spec => []StatusTellsTruth
<1>1. Inv => StatusTellsTruth
  <2> SUFFICES ASSUME Inv, NEW p \in Psbt, record[p].txId # NoTx
               PROVE  /\ record[p].txId \in broadcast
                      /\ p \in record[p].txId.ins
                      /\ Batched(record[p].txId) = record[p].txId.ins
    BY DEF StatusTellsTruth
  <2> DEFINE t == record[p].txId
  <2>1. t \in broadcast /\ p \in t.ins /\ <<t, p>> \in batch
    BY DEF Inv, LabelsTrue
  <2>2. t \in Tx /\ t.ins \subseteq Psbt
    BY <2>1 DEF Inv, TypeOK, Tx
  <2>3. \A q \in Psbt : <<t, q>> \in batch <=> q \in t.ins
    BY <2>1, <2>2 DEF Inv, BatchesWhole
  <2>4. Batched(t) = t.ins
    BY <2>2, <2>3 DEF Batched
  <2> QED
    BY <2>1, <2>4
<1> QED
  BY <1>1, LedgerInvariant, PTL

\* The fee address of a recorded batch is behind the index for good.
THEOREM FeeAddressRetired == Spec => []RecordedFeeRetired
<1>1. Inv => RecordedFeeRetired
  BY DEF Inv
<1> QED
  BY <1>1, LedgerInvariant, PTL

\* A reported txId never changes into another one.
THEOREM StatusNeverChanges == Spec => StatusStable
<1> DEFINE Stable ==
      \A p \in Psbt : record[p].txId # NoTx => record'[p].txId \in {record[p].txId, NoTx}
<1>1. Inv /\ [Next]_vars => [Stable]_vars
  <2> SUFFICES ASSUME Inv, Next, NEW p \in Psbt, record[p].txId # NoTx
               PROVE  record'[p].txId \in {record[p].txId, NoTx}
    OBVIOUS
  <2>1. TypeOK
    BY DEF Inv
  <2>2. ASSUME NEW q \in Psbt, NEW k \in Token, Register(q, k)
        PROVE  record'[p].txId = record[p].txId
    BY <2>1, <2>2 DEF Register, TypeOK, Record
  <2>3. ASSUME NEW q \in Psbt, Revoke(q)
        PROVE  record'[p].txId \in {record[p].txId, NoTx}
    BY <2>1, <2>3 DEF Revoke, Absent, TypeOK, Record
  <2>4. ASSUME NEW t \in broadcast, RecordBatch(t)
        PROVE  record'[p].txId = record[p].txId
    <3>1. record'[p].txId = IF p \in t.ins THEN t ELSE record[p].txId
      BY <2>1, <2>4 DEF RecordBatch, Labelled, TypeOK, Record
    <3>2. p \in t.ins => t = record[p].txId
      BY DEF Inv, LabelsTrue, BatchedOnce
    <3> QED
      BY <3>1, <3>2
  <2>5. ASSUME record' = record PROVE record'[p].txId = record[p].txId
    BY <2>5
  <2> QED
    BY <2>2, <2>3, <2>4, <2>5 DEF Next, DropSpent, Broadcast, SpendElsewhere
<1> QED
  BY <1>1, LedgerInvariant, PTL DEF Spec, StatusStable

=============================================================================
