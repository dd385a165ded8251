-------------------------- MODULE CoSigningProofs --------------------------
(* Proofs about CoSigning: what the server signs in a batch is what it signed *)
(* and counted at validation, for any PSBTs, any indexes and any number of    *)
(* rotations.                                                                 *)
EXTENDS CoSigning, FiniteSetTheorems, TLAPS

\* What a PSBT once accepted is like, whether or not it is still queued.
AcceptedRight ==
  \A p \in Psbt :
    /\ p \in counted => form[p] # NoForm
    /\ form[p] # NoForm =>
       /\ form[p].flaws = {}
       /\ form[p].key # NoKey => form[p].key.generation <= hot
       /\ p \in counted => form[p].rate = "enough"

\* The index in a hash, whichever add left it there, is one some validation signed
\* with when it signs now, and the one the last validation signed with if that did.
HashRight(p) ==
  /\ form[p] # NoForm
  /\ index[p] \in Index \ {0} /\ HasKey(form[p], index[p], Wallets) => p \in counted
  /\ p \in cosigned =>
       index[p] \in Index /\ form[p].key # NoKey /\ form[p].key.index = index[p]

\* Queue and snapshot hold accepted PSBTs.
HashesRight ==
  \A p \in Psbt :
    /\ index[p] # Gone => HashRight(p)
    /\ p \in queue \cup snap => form[p] # NoForm

\* So does the batch, and it is signed as validated.
BatchRight ==
  /\ \A i \in DOMAIN batch : form[batch[i].psbt] # NoForm
  /\ SignedAsValidated

Inv == TypeOK /\ AcceptedRight /\ HashesRight /\ BatchRight

-----------------------------------------------------------------------------

\* An accepted form has the fields of one, and its key those of a key.
LEMMA FormFields ==
  ASSUME NEW f \in Form
  PROVE  f.key # NoKey => f.key.generation \in 0 .. MaxGeneration /\ f.key.index \in Index
BY DEF Form, Key

\* An input of the batch is one of a PSBT, signed or not.
LEMMA BatchInput ==
  ASSUME TypeOK, NEW i \in DOMAIN batch
  PROVE  batch[i] \in Signed
BY DEF TypeOK

LEMMA InvInit == Init => Inv
<1> SUFFICES ASSUME Init PROVE Inv
  OBVIOUS
<1>1. TypeOK
  BY ConstantsAssumption DEF Init, TypeOK
<1>2. AcceptedRight /\ HashesRight
  BY DEF Init, AcceptedRight, HashesRight
<1>3. BatchRight
  BY DEF Init, BatchRight, SignedAsValidated
<1> QED
  BY <1>1, <1>2, <1>3 DEF Inv

-----------------------------------------------------------------------------

LEMMA TypeStep == TypeOK /\ [Next]_vars => TypeOK'
<1> SUFFICES ASSUME TypeOK, [Next]_vars PROVE TypeOK'
  OBVIOUS
<1> USE ConstantsAssumption DEF TypeOK, wallets, redis, checked
<1>1. ASSUME NEW p \in Psbt, RevokePSBT(p) PROVE TypeOK'
  BY <1>1 DEF RevokePSBT
<1>2. ASSUME NEW p \in Psbt, NEW f \in Form, NEW i \in Index \cup {NoIndex}, AddPSBT(p, f, i)
      PROVE  TypeOK'
  <2>1. Stored(p, i) \in Index \cup {NoIndex, Gone}
    BY DEF Stored
  <2> QED
    BY <1>2, <2>1 DEF AddPSBT
<1>3. CASE TakeSnapshot
  BY <1>3 DEF TakeSnapshot
<1>4. CASE FinalizeBatch
  <2>b. PICK bucket \in SUBSET snap : \E order \in Bijection(1 .. Cardinality(bucket), bucket) :
          batch' = [i \in DOMAIN order |->
                      [psbt |-> order[i], server |-> SignsInput(order[i]),
                       read |-> index[order[i]], cosigned |-> order[i] \in cosigned]]
    BY <1>4 DEF FinalizeBatch
  <2>1. PICK order \in Bijection(1 .. Cardinality(bucket), bucket) :
          batch' = [i \in DOMAIN order |->
                      [psbt |-> order[i], server |-> SignsInput(order[i]),
                       read |-> index[order[i]], cosigned |-> order[i] \in cosigned]]
    BY <2>b
  <2>2. Cardinality(bucket) \in Nat
    BY FS_Subset, FS_CardinalityType
  <2>3. order \in [1 .. Cardinality(bucket) -> Psbt]
    BY DEF Bijection, Injection
  <2>4. \A i \in DOMAIN order :
          [psbt |-> order[i], server |-> SignsInput(order[i]),
           read |-> index[order[i]], cosigned |-> order[i] \in cosigned] \in Signed
    BY <2>3 DEF Signed, SignsInput, HasKey
  <2>5. batch' \in [1 .. Cardinality(bucket) -> Signed]
    BY <2>1, <2>3, <2>4
  <2>6. batch' \in Seq(Signed)
    BY <2>2, <2>5
  <2> QED
    BY <1>4, <2>6 DEF FinalizeBatch
<1>5. CASE Record
  BY <1>5 DEF Record
<1>6. CASE GiveUp
  BY <1>6 DEF GiveUp
<1>7. CASE Restart
  BY <1>7 DEF Restart
<1>8. CASE UNCHANGED vars
  BY <1>8 DEF vars
<1> QED
  BY <1>1, <1>2, <1>3, <1>4, <1>5, <1>6, <1>7, <1>8 DEF Next

LEMMA AcceptedStep == Inv /\ [Next]_vars => AcceptedRight'
<1> SUFFICES ASSUME Inv, [Next]_vars PROVE AcceptedRight'
  OBVIOUS
<1> USE ConstantsAssumption
<1>t. TypeOK
  BY DEF Inv
<1>1. ASSUME NEW p \in Psbt, NEW f \in Form, NEW i \in Index \cup {NoIndex}, AddPSBT(p, f, i)
      PROVE  AcceptedRight'
  <2>1. form' = [form EXCEPT ![p] = f] /\ form[p] \in {NoForm, f} /\ hot' = hot
    BY <1>1 DEF AddPSBT, wallets
  <2>f. f # NoForm
    OBVIOUS
  <2>2. \A q \in Psbt : q # p => form'[q] = form[q] /\ (q \in counted' <=> q \in counted)
    BY <1>1, <1>t, <2>1 DEF AddPSBT, TypeOK
  <2>3. form'[p] = f /\ (p \in counted' <=> p \in counted \/ SignsCopy(f, i))
    BY <1>1, <1>t, <2>1 DEF AddPSBT, TypeOK
  <2>4. f.flaws = {} /\ (f.key # NoKey => f.key.generation <= hot)
    BY <1>1 DEF AddPSBT, Validated
  <2>5. SignsCopy(f, i) => f.rate = "enough"
    BY <1>1 DEF AddPSBT, Validated, RateSuffices
  <2>6. p \in counted => f.rate = "enough"
    BY <2>1 DEF Inv, AcceptedRight
  <2> QED
    BY <2>1, <2>f, <2>2, <2>3, <2>4, <2>5, <2>6 DEF AcceptedRight, Inv
<1>2. CASE Restart
  <2>1. hot' \in {hot, hot + 1} /\ form' = form /\ counted' = counted /\ hot \in Nat
    BY <1>2, <1>t DEF Restart, TypeOK, checked
  <2> SUFFICES ASSUME NEW p \in Psbt, form[p] # NoForm, form[p].key # NoKey
               PROVE  form[p].key.generation <= hot'
    BY <2>1 DEF AcceptedRight, Inv
  <2>2. form[p] \in Form
    BY <1>t DEF TypeOK
  <2>3. form[p].key.generation \in Nat /\ form[p].key.generation <= hot
    BY <2>2, FormFields DEF AcceptedRight, Inv
  <2> QED
    BY <2>1, <2>3
<1>3. CASE UNCHANGED <<hot, form, counted>>
  BY <1>3 DEF Inv, AcceptedRight
<1>4. ASSUME \/ \E p \in Psbt : RevokePSBT(p)
             \/ TakeSnapshot \/ FinalizeBatch \/ Record \/ GiveUp \/ UNCHANGED vars
      PROVE  UNCHANGED <<hot, form, counted>>
  BY <1>4 DEF RevokePSBT, TakeSnapshot, FinalizeBatch, Record, GiveUp, vars, wallets, redis, checked
<1> QED
  BY <1>1, <1>2, <1>3, <1>4 DEF Next

LEMMA HashesStep == Inv /\ [Next]_vars => HashesRight'
<1> SUFFICES ASSUME Inv, [Next]_vars PROVE HashesRight'
  OBVIOUS
<1> USE ConstantsAssumption DEF wallets, redis, checked
<1>t. TypeOK
  BY DEF Inv
<1>h. HashesRight
  BY DEF Inv
<1>1. ASSUME NEW p \in Psbt, RevokePSBT(p) PROVE HashesRight'
  <2>1. index'[p] = Gone /\ \A q \in Psbt : q # p => index'[q] = index[q]
    BY <1>1, <1>t DEF RevokePSBT, TypeOK
  <2>2. queue' \cup snap' \subseteq queue \cup snap
    BY <1>1 DEF RevokePSBT
  <2>3. UNCHANGED <<hot, form, cosigned, counted>>
    BY <1>1 DEF RevokePSBT
  <2> QED
    BY <1>h, <2>1, <2>2, <2>3 DEF HashesRight, HashRight, HasKey, Wallets
<1>2. ASSUME NEW p \in Psbt, NEW f \in Form, NEW i \in Index \cup {NoIndex}, AddPSBT(p, f, i)
      PROVE  HashesRight'
  <2>1. f # NoForm /\ form[p] \in {NoForm, f} /\ hot' = hot /\ snap' = snap
    BY <1>2 DEF AddPSBT
  <2>2. form'[p] = f /\ index'[p] = Stored(p, i)
    BY <1>2, <1>t DEF AddPSBT, TypeOK
  <2>3. /\ p \in cosigned' <=> SignsCopy(f, i)
        /\ p \in counted' <=> p \in counted \/ SignsCopy(f, i)
    BY <1>2 DEF AddPSBT
  <2>4. ASSUME NEW q \in Psbt, q # p
        PROVE  /\ form'[q] = form[q] /\ index'[q] = index[q]
               /\ q \in cosigned' <=> q \in cosigned
               /\ q \in counted' <=> q \in counted
               /\ q \in queue' <=> q \in queue
    BY <1>2, <1>t, <2>4 DEF AddPSBT, TypeOK
  <2>5. HashRight(p)'
    <3>1. CASE i = NoIndex
      <4>1. p \notin cosigned'
        BY <2>3, <3>1 DEF SignsCopy
      <4>2. index[p] = Gone => index'[p] \notin Index
        BY <2>2, <3>1 DEF Stored
      <4>3. index[p] # Gone => index'[p] = index[p] /\ form[p] = f
        BY <1>h, <2>1, <2>2, <3>1 DEF Stored, HashesRight, HashRight
      <4> QED
        BY <1>h, <2>1, <2>2, <2>3, <4>1, <4>2, <4>3 DEF HashesRight, HashRight, HasKey, Wallets
    <3>2. CASE i \in Index
      <4>1. index'[p] = i
        BY <2>2, <3>2 DEF Stored
      <4>2. SignsCopy(f, i) <=> i # 0 /\ HasKey(f, i, Wallets)
        BY <3>2 DEF SignsCopy
      <4> QED
        BY <2>1, <2>2, <2>3, <3>2, <4>1, <4>2 DEF HashRight, HasKey, Wallets
    <3> QED
      BY <3>1, <3>2
  <2>6. ASSUME NEW q \in Psbt, q # p
        PROVE  /\ index'[q] # Gone => HashRight(q)'
               /\ q \in queue' \cup snap' => form'[q] # NoForm
    BY <1>h, <2>1, <2>4, <2>6 DEF HashesRight, HashRight, HasKey, Wallets
  <2> QED
    BY <2>1, <2>2, <2>5, <2>6 DEF HashesRight
<1>3. CASE Restart
  <2>1. hot' \in {hot, hot + 1} /\ hot \in Nat /\ UNCHANGED <<form, queue, index, cosigned, counted>>
        /\ snap' = {}
    BY <1>3, <1>t DEF Restart, TypeOK
  <2>2. ASSUME NEW p \in Psbt, index[p] # Gone PROVE HashRight(p)'
    <3>1. HashRight(p)
      BY <1>h, <2>2 DEF HashesRight
    <3>2. form[p] \in Form
      BY <1>t, <3>1 DEF TypeOK, HashRight
    <3>3. form[p].key # NoKey => form[p].key.generation \in Nat /\ form[p].key.generation <= hot
      BY <3>1, <3>2, FormFields DEF Inv, AcceptedRight, HashRight
    <3>4. HasKey(form[p], index[p], Wallets') => HasKey(form[p], index[p], Wallets)
      BY <2>1, <3>3 DEF HasKey, Wallets
    <3> QED
      BY <2>1, <3>1, <3>4 DEF HashRight, HasKey, Wallets
  <2> QED
    BY <1>h, <2>1, <2>2 DEF HashesRight
<1>4. ASSUME UNCHANGED <<hot, form, index, cosigned, counted>>,
             queue' \cup snap' \subseteq queue \cup snap
      PROVE  HashesRight'
  BY <1>h, <1>4 DEF HashesRight, HashRight, HasKey, Wallets
<1>5. ASSUME TakeSnapshot \/ FinalizeBatch \/ Record \/ GiveUp \/ UNCHANGED vars
      PROVE  /\ UNCHANGED <<hot, form, index, cosigned, counted>>
             /\ queue' \cup snap' \subseteq queue \cup snap
  BY <1>5 DEF TakeSnapshot, FinalizeBatch, Record, GiveUp, vars
<1> QED
  BY <1>1, <1>2, <1>3, <1>4, <1>5 DEF Next

LEMMA BatchStep == Inv /\ [Next]_vars => BatchRight'
<1> SUFFICES ASSUME Inv, [Next]_vars PROVE BatchRight'
  OBVIOUS
<1> USE ConstantsAssumption DEF wallets, redis, checked
<1>t. TypeOK
  BY DEF Inv
<1>1. ASSUME NEW p \in Psbt, NEW f \in Form, NEW i \in Index \cup {NoIndex}, AddPSBT(p, f, i)
      PROVE  BatchRight'
  <2>1. \A q \in Psbt : form[q] # NoForm => form'[q] = form[q]
    BY <1>1, <1>t DEF AddPSBT, TypeOK
  <2>2. \A j \in DOMAIN batch : batch[j].psbt \in Psbt
    BY <1>t, BatchInput DEF Signed
  <2>3. batch' = batch /\ hot' = hot /\ counted \subseteq counted'
    BY <1>1 DEF AddPSBT
  <2> QED
    BY <2>1, <2>2, <2>3 DEF Inv, BatchRight, SignedAsValidated
<1>2. CASE FinalizeBatch
  <2>b. PICK bucket \in SUBSET snap : \E order \in Bijection(1 .. Cardinality(bucket), bucket) :
          batch' = [i \in DOMAIN order |->
                      [psbt |-> order[i], server |-> SignsInput(order[i]),
                       read |-> index[order[i]], cosigned |-> order[i] \in cosigned]]
    BY <1>2 DEF FinalizeBatch
  <2>1. PICK order \in Bijection(1 .. Cardinality(bucket), bucket) :
          batch' = [i \in DOMAIN order |->
                      [psbt |-> order[i], server |-> SignsInput(order[i]),
                       read |-> index[order[i]], cosigned |-> order[i] \in cosigned]]
    BY <2>b
  <2>2. \A i \in DOMAIN order : order[i] \in snap /\ order[i] \in Psbt
    BY <1>t DEF Bijection, Injection, TypeOK
  <2>3. UNCHANGED <<hot, form, counted>>
    BY <1>2 DEF FinalizeBatch
  <2>4. ASSUME NEW i \in DOMAIN order
        PROVE  /\ form[order[i]] # NoForm
               /\ SignsInput(order[i]) /\ index[order[i]] # 0 => order[i] \in counted
               /\ order[i] \in cosigned /\ index[order[i]] # Gone
                    /\ form[order[i]].key.generation >= hot - 1 => SignsInput(order[i])
    <3> DEFINE p == order[i]
    <3>1. p \in Psbt /\ p \in snap
      BY <2>2
    <3>2. form[p] # NoForm /\ (index[p] # Gone => HashRight(p))
      BY <3>1 DEF Inv, HashesRight
    <3>3. SignsInput(p) => index[p] \in Index /\ index[p] # Gone /\ HasKey(form[p], index[p], Wallets)
      BY DEF SignsInput
    <3>4. SignsInput(p) /\ index[p] # 0 => p \in counted
      BY <3>2, <3>3 DEF HashRight
    <3>5. ASSUME p \in cosigned, index[p] # Gone, form[p].key.generation >= hot - 1
          PROVE  SignsInput(p)
      <4>1. index[p] \in Index /\ form[p].key # NoKey /\ form[p].key.index = index[p]
        BY <3>2, <3>5 DEF HashRight
      <4>2. form[p] \in Form
        BY <1>t, <3>1, <3>2 DEF TypeOK
      <4>3. form[p].key.generation \in Nat /\ form[p].key.generation <= hot /\ hot \in Nat
        BY <1>t, <3>1, <3>2, <4>1, <4>2, FormFields DEF Inv, AcceptedRight, TypeOK
      <4>4. form[p].key.generation \in Wallets
        BY <3>5, <4>3 DEF Wallets
      <4> QED
        BY <4>1, <4>4 DEF SignsInput, HasKey
    <3> QED
      BY <3>2, <3>4, <3>5
  <2> QED
    BY <2>1, <2>3, <2>4 DEF BatchRight, SignedAsValidated
<1>3. ASSUME Record \/ GiveUp \/ Restart PROVE BatchRight'
  <2>1. batch' = <<>>
    BY <1>3 DEF Record, GiveUp, Restart
  <2> QED
    BY <2>1 DEF BatchRight, SignedAsValidated
<1>4. CASE UNCHANGED <<hot, form, counted, batch>>
  BY <1>4 DEF Inv, BatchRight, SignedAsValidated
<1>5. ASSUME (\E p \in Psbt : RevokePSBT(p)) \/ TakeSnapshot \/ UNCHANGED vars
      PROVE  UNCHANGED <<hot, form, counted, batch>>
  BY <1>5 DEF RevokePSBT, TakeSnapshot, vars
<1> QED
  BY <1>1, <1>2, <1>3, <1>4, <1>5 DEF Next

-----------------------------------------------------------------------------

\* The invariant holds in every reachable state.
THEOREM InvHolds == Spec => []Inv
<1>1. Inv /\ [Next]_vars => Inv'
  BY TypeStep, AcceptedStep, HashesStep, BatchStep DEF Inv
<1> QED
  BY InvInit, <1>1, PTL DEF Spec

\* Every variable keeps its type (CoSigning as a whole).
THEOREM TypeCorrect == Spec => []TypeOK
<1>1. Inv => TypeOK
  BY DEF Inv
<1> QED
  BY InvHolds, <1>1, PTL

\* The batch is signed as it was validated: a server's signature in it is one that a
\* validation made and counted, or for index zero; and a key of an accepted PSBT signs
\* as long as its wallet was replaced at most once, whatever adds, with which
\* indexes, came between (validatePSBT, hset, signBatchedTransaction).
THEOREM BatchSigned == Spec => []SignedAsValidated
<1>1. Inv => SignedAsValidated
  BY DEF Inv, BatchRight
<1> QED
  BY InvHolds, <1>1, PTL

\* Nothing validation checked is lost on the way to the batch (validatePSBT,
\* finalizeBatch).
THEOREM BatchChecked == Spec => []BatchAsValidated
<1>1. Inv => BatchAsValidated
  <2> SUFFICES ASSUME Inv, NEW i \in DOMAIN batch
               PROVE  /\ form[batch[i].psbt].flaws = {}
                      /\ batch[i].server /\ batch[i].read # 0 => form[batch[i].psbt].rate = "enough"
    BY DEF BatchAsValidated
  <2>1. batch[i].psbt \in Psbt /\ form[batch[i].psbt] # NoForm
    BY BatchInput DEF Inv, BatchRight, Signed
  <2>2. batch[i].server /\ batch[i].read # 0 => batch[i].psbt \in counted
    BY DEF Inv, BatchRight, SignedAsValidated
  <2> QED
    BY <2>1, <2>2 DEF Inv, AcceptedRight
<1> QED
  BY InvHolds, <1>1, PTL

=============================================================================
