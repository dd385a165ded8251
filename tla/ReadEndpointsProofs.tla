------------------------ MODULE ReadEndpointsProofs ------------------------
(* Proofs about ReadEndpoints: what its requests answer, for any PSBTs, any   *)
(* number of overlapping requests, and any lifetimes.                         *)
EXTENDS ReadEndpoints, FiniteSetTheorems, TLAPS

\* The invariant of the ledger underneath, and the proof that it is one.
LedgerProofs == INSTANCE PsbtLedgerProofs

\* A hash lasts from the acceptance to the revocation.
HashesLast ==
  /\ queue \subseteq accepted
  /\ \A p \in accepted \ revoked : record[p].token # NoToken

Complete(t, p) ==
  /\ t \in broadcast /\ p \in t.ins
  /\ Ledger!Batched(t) = t.ins

\* What holds of a request, wherever it is.
SnapRight(s) ==
  /\ s.snap \subseteq accepted
  /\ s.todo \subseteq s.snap /\ s.unspent \subseteq s.snap
  /\ s.pc \in {"cache", "rate", "exists", "txId", "lookup"} => s.url.kind \in CachedKind
  /\ s.pc \in {"cache", "rate"} => s.snap = {}
  /\ s.pc \in {"exists", "txId"} => s.url.kind = "positionInQueue"
  /\ s.pc \in {"members", "waiting"} => s.url.kind = "batch"
  /\ s.known => s.url.kind = "info" /\ s.url.id \in accepted

AgeRight(s) ==
  /\ s.pc \notin Resting => s.age <= MaxRun
  /\ s.url.kind \in CachedKind => s.age <= Lifetime[s.url.kind] + MaxRun

PositionRight(s) ==
  /\ s.url.kind = "positionInQueue" /\ s.url.id \in s.snap =>
       (s.pc = "lookup" \/ (s.pc = "txId" /\ ~s.found) => s.url.id \in revoked)
  /\ s.answer.position > 0 => s.url.id \in revoked

LookupRight(s) ==
  /\ s.pc = "lookup" /\ s.url.kind # "positionInQueue" => s.snap # {}
  /\ s.pc = "lookup" /\ ~s.missed =>
       \A p \in s.snap : p \in s.todo \/ p \in s.unspent \/ Input[p] \in Gone
  /\ s.pc = "hung" =>
       /\ s.snap # {}
       /\ \/ s.missed \/ Clash(s.snap)
          \/ \A p \in s.snap : Input[p] \in Gone
          \/ \E p \in s.snap : Input[p] \in Missing

ToldRight(s) ==
  /\ s.answer.tx # NoTx => s.pc \in {"members", "answered"} /\ Complete(s.answer.tx, s.url.id)
  /\ s.pc = "members" => s.answer.tx # NoTx
  /\ s.pc = "answered" /\ s.answer.tx # NoTx =>
       s.answer.participants = Cardinality(s.answer.tx.ins)
  /\ s.pc = "notFound" /\ s.url.kind = "info" /\ s.known => s.url.id \in revoked \cup Hidden

AskRight(s) ==
  s \in AskState /\ SnapRight(s) /\ AgeRight(s) /\ PositionRight(s) /\ LookupRight(s) /\ ToldRight(s)

EntryRight(u, e) ==
  e = Nothing \/
    /\ e \in Entry
    /\ e.left + e.age <= Lifetime[u.kind] + MaxRun
    /\ e.answer.position > 0 => u.id \in revoked
    /\ e.answer.tx = NoTx

Inv ==
  /\ LedgerProofs!Inv
  /\ accepted \subseteq Psbt /\ revoked \subseteq Psbt
  /\ HashesLast
  /\ ask \in [Request -> AskState]
  /\ \A r \in Request : AskRight(ask[r])
  /\ cache \in [CachedUrl -> Entry \cup {Nothing}]
  /\ \A u \in CachedUrl : EntryRight(u, cache[u])

-----------------------------------------------------------------------------
(* The ledger, as this module and as its proofs see it. *)

LEMMA SameLedger ==
  /\ LedgerProofs!TypeOK <=> Ledger!TypeOK
  /\ Ledger!Init => LedgerProofs!Init
  /\ Ledger!Next => LedgerProofs!Next
<1>1. LedgerProofs!TypeOK <=> Ledger!TypeOK
  BY DEF LedgerProofs!TypeOK, Ledger!TypeOK, LedgerProofs!Record, Ledger!Record,
         LedgerProofs!Tx, Ledger!Tx
<1>2. Ledger!Init => LedgerProofs!Init
  BY DEF LedgerProofs!Init, Ledger!Init, LedgerProofs!Absent, Ledger!Absent
<1>3. ASSUME NEW p \in Psbt
      PROVE  /\ \A k \in Token : Ledger!Register(p, k) => LedgerProofs!Register(p, k)
             /\ Ledger!Revoke(p) => LedgerProofs!Revoke(p)
  BY DEF LedgerProofs!Register, Ledger!Register, LedgerProofs!Revoke, Ledger!Revoke,
         LedgerProofs!Absent, Ledger!Absent, LedgerProofs!Without, Ledger!Without
<1>4. ASSUME NEW S \in SUBSET Psbt, Ledger!DropSpent(S) PROVE LedgerProofs!DropSpent(S)
  BY <1>4 DEF LedgerProofs!DropSpent, Ledger!DropSpent, LedgerProofs!Spent, Ledger!Spent,
              LedgerProofs!InputsOf, Ledger!InputsOf
<1>5. ASSUME NEW t, Ledger!Broadcast(t) PROVE LedgerProofs!Broadcast(t)
  BY <1>5 DEF LedgerProofs!Broadcast, Ledger!Broadcast, LedgerProofs!Spent, Ledger!Spent,
              LedgerProofs!InputsOf, Ledger!InputsOf
<1>6. ASSUME NEW t \in broadcast, Ledger!RecordBatch(t) PROVE LedgerProofs!RecordBatch(t)
  BY <1>6 DEF LedgerProofs!RecordBatch, Ledger!RecordBatch, LedgerProofs!NextFeeIndex,
              Ledger!NextFeeIndex, LedgerProofs!Members, Ledger!Members,
              LedgerProofs!Labelled, Ledger!Labelled
<1>7. ASSUME NEW o \in Outpoint, Ledger!SpendElsewhere(o) PROVE LedgerProofs!SpendElsewhere(o)
  BY <1>7 DEF LedgerProofs!SpendElsewhere, Ledger!SpendElsewhere, LedgerProofs!Spent,
              Ledger!Spent, LedgerProofs!InputsOf, Ledger!InputsOf
<1> QED
  BY <1>1, <1>2, <1>3, <1>4, <1>5, <1>6, <1>7 DEF LedgerProofs!Next, Ledger!Next

\* The ledger's invariant, with what is used of it.
LEMMA LedgerFacts ==
  ASSUME LedgerProofs!Inv
  PROVE  /\ Ledger!TypeOK
         /\ \A p \in queue : record[p].token # NoToken
         /\ \A p \in Psbt : record[p].txId # NoTx => Complete(record[p].txId, p)
         /\ \A t \in broadcast : Ledger!Batched(t) \in {{}, t.ins}
<1>1. Ledger!TypeOK
  BY SameLedger DEF LedgerProofs!Inv
<1>2. \A t \in broadcast : t \in Ledger!Tx /\ t.ins \subseteq Psbt
  BY <1>1 DEF Ledger!TypeOK, Ledger!Tx
<1>3. LedgerProofs!Tx = Ledger!Tx
  BY DEF LedgerProofs!Tx, Ledger!Tx
<1>4. \A t \in broadcast : \A p \in Psbt : <<t, p>> \in batch => Ledger!Batched(t) = t.ins
  BY <1>2, <1>3 DEF LedgerProofs!Inv, LedgerProofs!BatchesWhole, Ledger!Batched
<1>5. \A t \in broadcast : Ledger!Batched(t) \in {{}, t.ins}
  BY <1>4 DEF Ledger!Batched
<1>6. \A p \in Psbt : record[p].txId # NoTx => Complete(record[p].txId, p)
  BY <1>4 DEF LedgerProofs!Inv, LedgerProofs!LabelsTrue, Complete
<1>7. \A p \in queue : record[p].token # NoToken
  BY DEF LedgerProofs!Inv, LedgerProofs!QueuedIsRevocable
<1> QED
  BY <1>1, <1>5, <1>6, <1>7

-----------------------------------------------------------------------------
(* What the system underneath does only adds to what was true. *)

\* Serve, with every step of the ledger: cron runs may overlap.
Serving == Ledger!Next /\ Remember

LEMMA ServeIsServing ==
  ASSUME Inv, Serve
  PROVE  Serving
<1>1. queue \subseteq Psbt /\ feeIndex \in Nat /\ accepted \subseteq Psbt
  BY LedgerFacts DEF Inv, Ledger!TypeOK
<1>2. ASSUME Batches PROVE Ledger!Next
  <2>1. ASSUME NEW S \in (SUBSET accepted) \ {{}}, Ledger!Broadcast([ins |-> S, fee |-> feeIndex])
        PROVE  Ledger!Next
    <3>1. S \in (SUBSET Psbt) \ {{}} /\ feeIndex \in 0 .. feeIndex
      BY <1>1
    <3> QED
      BY <2>1, <3>1 DEF Ledger!Next
  <2>2. ASSUME NEW t \in broadcast, Ledger!RecordBatch(t) PROVE Ledger!Next
    BY <2>2 DEF Ledger!Next
  <2> QED
    BY <1>2, <2>1, <2>2 DEF Batches
<1> QED
  BY <1>1, <1>2 DEF Serve, Ledger!Next, Serving

LEMMA ServeLedger ==
  ASSUME Inv, Serving
  PROVE  LedgerProofs!Inv'
<1>1. LedgerProofs!Next
  BY SameLedger DEF Serving
<1> QED
  BY <1>1, ConstantsAssumption, LedgerProofs!InvStep DEF Inv, LedgerProofs!Tx, Ledger!Tx

\* Nothing spent, broadcast or recorded in a batch is taken back; a hash goes only
\* when its PSBT is revoked, and a PSBT is queued only when it is registered.
LEMMA LedgerGrows ==
  ASSUME Inv, Serving
  PROVE  /\ broadcast \subseteq broadcast' /\ batch \subseteq batch'
         /\ external \subseteq external'
         /\ \A p \in Psbt : p \in queue' /\ p \notin queue => record'[p].token # NoToken
<1> USE DEF Ledger!Register, Ledger!Revoke, Ledger!DropSpent, Ledger!Broadcast,
            Ledger!RecordBatch, Ledger!SpendElsewhere, Ledger!Without
<1>1. CASE \E p \in Psbt, k \in Token : Ledger!Register(p, k)
  <2>1. PICK p \in Psbt, k \in Token : Ledger!Register(p, k)
    BY <1>1
  <2>2. record'[p].token = k
    BY <2>1, LedgerFacts DEF Inv, Ledger!TypeOK, Ledger!Record
  <2> QED
    BY <2>1, <2>2, ConstantsAssumption
<1>2. CASE \E p \in Psbt : Ledger!Revoke(p)
  BY <1>2
<1>3. CASE \E S \in SUBSET Psbt : Ledger!DropSpent(S)
  BY <1>3
<1>4. CASE \E S \in (SUBSET Psbt) \ {{}} : \E i \in 0 .. feeIndex :
             Ledger!Broadcast([ins |-> S, fee |-> i])
  BY <1>4
<1>5. CASE \E t \in broadcast : Ledger!RecordBatch(t)
  <2>1. queue' \subseteq queue /\ broadcast' = broadcast /\ batch \subseteq batch'
    BY <1>5
  <2> QED
    BY <1>5, <2>1
<1>6. CASE \E o \in Outpoint : Ledger!SpendElsewhere(o)
  BY <1>6
<1> QED
  BY <1>1, <1>2, <1>3, <1>4, <1>5, <1>6 DEF Serving, Ledger!Next

\* In general, for any step that keeps or adds.
Grown ==
  /\ accepted \subseteq accepted' /\ revoked \subseteq revoked'
  /\ Ledger!Spent \subseteq Ledger!Spent'
  /\ \A t, p : Complete(t, p) => Complete(t, p)'

LEMMA ServeGrows ==
  ASSUME Inv, Serving
  PROVE  Grown /\ HashesLast' /\ accepted' \subseteq Psbt /\ revoked' \subseteq Psbt
<1>1. Ledger!TypeOK' /\ \A t \in broadcast' : Ledger!Batched(t)' \in {{}, t.ins}
  <2>1. LedgerProofs!Inv'
    BY ServeLedger
  <2>2. LedgerProofs!Inv => Ledger!TypeOK /\ \A t \in broadcast : Ledger!Batched(t) \in {{}, t.ins}
    BY LedgerFacts
  <2>3. (LedgerProofs!Inv => Ledger!TypeOK /\ \A t \in broadcast : Ledger!Batched(t) \in {{}, t.ins})'
    BY <2>2, LedgerFacts, PTL
  <2> QED
    BY <2>1, <2>3
<1>2. Ledger!Spent \subseteq Ledger!Spent'
  BY LedgerGrows DEF Ledger!Spent
<1>3. ASSUME NEW t, NEW p, Complete(t, p) PROVE Complete(t, p)'
  <2>1. t \in broadcast' /\ p \in t.ins /\ p \in Ledger!Batched(t)
    BY <1>3, LedgerGrows DEF Complete
  <2>2. p \in Ledger!Batched(t)'
    BY <2>1, LedgerGrows DEF Ledger!Batched
  <2> QED
    BY <1>1, <2>1, <2>2 DEF Complete
<1>4. accepted \subseteq accepted' /\ revoked \subseteq revoked'
  BY DEF Serving, Remember
<1>5. accepted' \subseteq Psbt /\ revoked' \subseteq Psbt
  BY <1>1 DEF Serving, Remember, Inv, Ledger!TypeOK
<1>6. HashesLast'
  <2>1. queue' \subseteq accepted'
    BY DEF Serving, Remember
  <2>2. ASSUME NEW p \in accepted' \ revoked' PROVE record'[p].token # NoToken
    <3>1. p \in Psbt /\ ~(record[p].token # NoToken /\ record'[p].token = NoToken)
      BY <1>5, <2>2 DEF Serving, Remember
    <3>2. CASE p \in accepted
      BY <1>4, <2>2, <3>1, <3>2 DEF Inv, HashesLast
    <3>3. CASE p \notin accepted
      BY <2>2, <3>1, <3>3, LedgerGrows DEF Serving, Remember, Inv, HashesLast
    <3> QED
      BY <3>2, <3>3
  <2> QED
    BY <2>1, <2>2 DEF HashesLast
<1> QED
  BY <1>2, <1>3, <1>4, <1>5, <1>6 DEF Grown

\* What holds of a request, or of an entry, still does.
LEMMA RequestGrows ==
  ASSUME Grown, NEW s, AskRight(s)
  PROVE  AskRight(s)'
<1> USE DEF Grown
<1>1. SnapRight(s)'
  BY DEF AskRight, SnapRight
<1>2. AgeRight(s)'
  BY DEF AskRight, AgeRight
<1>3. PositionRight(s)'
  BY DEF AskRight, PositionRight
<1>4. LookupRight(s)'
  BY DEF AskRight, LookupRight, Gone
<1>5. ToldRight(s)'
  BY DEF AskRight, ToldRight
<1> QED
  BY <1>1, <1>2, <1>3, <1>4, <1>5 DEF AskRight

LEMMA EntryGrows ==
  ASSUME Grown, NEW u, NEW e, EntryRight(u, e)
  PROVE  EntryRight(u, e)'
BY DEF Grown, EntryRight

-----------------------------------------------------------------------------
(* A request takes a step, and nothing else happens: it is enough that the    *)
(* new state of the request is right, and the entry it leaves in the cache.   *)

LEMMA RequestsRight ==
  ASSUME Grown, \A q \in Request : AskRight(ask'[q])
  PROVE  (\A q \in Request : AskRight(ask[q]))'
<1>1. SUFFICES ASSUME NEW q \in Request PROVE AskRight(ask[q])'
  OBVIOUS
<1>2. PICK z : z = ask'[q]
  OBVIOUS
<1>3. AskRight(z)'
  BY <1>2, RequestGrows
<1> QED
  BY <1>2, <1>3 DEF AskRight, SnapRight, AgeRight, PositionRight, LookupRight, ToldRight

LEMMA EntriesRight ==
  ASSUME Grown, \A u \in CachedUrl : EntryRight(u, cache'[u])
  PROVE  (\A u \in CachedUrl : EntryRight(u, cache[u]))'
BY DEF Grown, EntryRight, CachedUrl, Url

LEMMA NothingGrows ==
  ASSUME UNCHANGED <<ledger, past>>
  PROVE  Grown /\ (HashesLast => HashesLast')
<1>1. broadcast' = broadcast /\ batch' = batch /\ external' = external
  BY DEF ledger
<1>2. \A t, p : Complete(t, p) => Complete(t, p)'
  BY <1>1 DEF Complete, Ledger!Batched
<1>3. Ledger!Spent' = Ledger!Spent
  BY <1>1 DEF Ledger!Spent, Ledger!InputsOf
<1> QED
  BY <1>2, <1>3 DEF Grown, HashesLast, ledger, past

LEMMA SameLedgerInv ==
  ASSUME LedgerProofs!Inv, UNCHANGED ledger
  PROVE  LedgerProofs!Inv'
<1>1. UNCHANGED LedgerProofs!vars
  BY DEF ledger, LedgerProofs!vars
<1> QED
  BY <1>1, ConstantsAssumption, LedgerProofs!InvStep DEF LedgerProofs!Tx, Ledger!Tx

LEMMA RequestStep ==
  ASSUME Inv, NEW r \in Request, NEW s, To(r, s), AskRight(s),
         \/ UNCHANGED cache
         \/ \E u \in CachedUrl, e \in Entry :
              EntryRight(u, e) /\ cache' = [cache EXCEPT ![u] = e]
  PROVE  Inv'
<1>1. UNCHANGED <<ledger, past>> /\ ask' = [ask EXCEPT ![r] = s]
  BY DEF To
<1>2. ask' \in [Request -> AskState] /\ \A q \in Request : AskRight(ask'[q])
  BY <1>1 DEF Inv, AskRight
<1>3. cache' \in [CachedUrl -> Entry \cup {Nothing}] /\ \A u \in CachedUrl : EntryRight(u, cache'[u])
  BY DEF Inv
<1>4. LedgerProofs!Inv'
  BY <1>1, SameLedgerInv DEF Inv
<1>5. accepted' \subseteq Psbt /\ revoked' \subseteq Psbt
  BY <1>1 DEF Inv, past
<1> QED
  BY <1>1, <1>2, <1>3, <1>4, <1>5, NothingGrows, RequestsRight, EntriesRight DEF Inv

-----------------------------------------------------------------------------
(* The states that requests come to. *)

LEMMA AnswerTypes ==
  /\ Zero \in Answer /\ Zero.position = 0 /\ Zero.tx = NoTx /\ NoTx \notin Ledger!Tx
  /\ Cardinality(Psbt) \in Nat
  /\ \A S \in SUBSET Psbt : Cardinality(S) \in Count
<1>1. Cardinality(Psbt) \in Nat
  BY ConstantsAssumption, FS_CardinalityType
<1>2. ASSUME NEW S \in SUBSET Psbt PROVE Cardinality(S) \in Count
  <2>1. IsFiniteSet(S) /\ Cardinality(S) <= Cardinality(Psbt)
    BY ConstantsAssumption, FS_Subset
  <2>2. Cardinality(S) \in Nat
    BY <2>1, FS_CardinalityType
  <2> QED
    BY <1>1, <2>1, <2>2 DEF Count
<1>3. Zero \in Answer
  BY <1>1 DEF Zero, Answer, Count
<1> QED
  BY <1>1, <1>2, <1>3, ConstantsAssumption DEF Zero

LEMMA StartRight ==
  ASSUME Inv, NEW u \in Url, NEW known \in BOOLEAN,
         known => u.kind = "info" /\ u.id \in accepted
  PROVE  AskRight(New(u, known))
<1> DEFINE s == New(u, known)
<1>1. /\ s.url = u /\ s.known = known /\ s.age = 0 /\ s.snap = {} /\ s.todo = {}
      /\ s.unspent = {} /\ s.answer = Zero
      /\ s.pc \in {"cache", "record"} /\ (s.pc = "cache" => u.kind \in CachedKind)
  BY DEF New
<1>2. s \in AskState
  BY AnswerTypes DEF New, AskState
<1>3. SnapRight(s) /\ PositionRight(s) /\ LookupRight(s) /\ ToldRight(s)
  BY <1>1, AnswerTypes DEF SnapRight, PositionRight, LookupRight, ToldRight
<1>4. AgeRight(s)
  BY <1>1, ConstantsAssumption DEF AgeRight
<1> HIDE DEF s
<1>5. AskRight(s)
  BY <1>2, <1>3, <1>4 DEF AskRight
<1> QED
  BY <1>5 DEF s

LEMMA RestRight ==
  ASSUME Inv, NEW r \in Request, NEW pc \in {"answered", "notFound", "error"},
         NEW answer \in Answer, NEW age \in Nat,
         LET u == ask[r].url IN
           /\ u.kind \in CachedKind => age <= Lifetime[u.kind] + MaxRun
           /\ answer.position > 0 => u.id \in revoked
           /\ answer.tx # NoTx =>
                /\ pc = "answered" /\ Complete(answer.tx, u.id)
                /\ answer.participants = Cardinality(answer.tx.ins)
           /\ pc = "notFound" /\ u.kind = "info" /\ ask[r].known => u.id \in revoked \cup Hidden
  PROVE  AskRight([New(ask[r].url, ask[r].known) EXCEPT !.pc = pc, !.answer = answer, !.age = age])
<1> DEFINE s == [New(ask[r].url, ask[r].known) EXCEPT !.pc = pc, !.answer = answer, !.age = age]
<1>1. /\ s.url = ask[r].url /\ s.known = ask[r].known /\ s.age = age /\ s.snap = {}
      /\ s.todo = {} /\ s.unspent = {} /\ s.answer = answer /\ s.pc = pc /\ s.missed = FALSE
  BY DEF New
<1>2. ask[r] \in AskState /\ SnapRight(ask[r])
  BY DEF Inv, AskRight
<1>3. s \in AskState
  BY <1>2 DEF New, AskState, Resting
<1>4. SnapRight(s)
  BY <1>1, <1>2 DEF SnapRight
<1>5. AgeRight(s) /\ PositionRight(s) /\ LookupRight(s) /\ ToldRight(s)
  BY <1>1 DEF AgeRight, PositionRight, LookupRight, ToldRight, Resting
<1> HIDE DEF s
<1>6. AskRight(s)
  BY <1>3, <1>4, <1>5 DEF AskRight
<1> QED
  BY <1>6 DEF s

\* A request that goes on reading, for a cached kind.
LEMMA GoOnRight ==
  ASSUME Inv, NEW r \in Request, ask[r].pc \notin Resting, NEW s \in AskState,
         s.url = ask[r].url, s.known = ask[r].known, s.age = ask[r].age, s.answer = ask[r].answer,
         s.pc \in {"rate", "exists", "txId", "lookup"},
         ask[r].pc \notin {"members", "waiting", "record"},
         SnapRight(s), PositionRight(s), LookupRight(s)
  PROVE  AskRight(s)
<1>1. AskRight(ask[r])
  BY DEF Inv
<1>2. AgeRight(s)
  BY <1>1 DEF AskRight, AgeRight
<1>3. ToldRight(s)
  BY <1>1 DEF AskRight, ToldRight, Resting
<1> QED
  BY <1>2, <1>3 DEF AskRight

-----------------------------------------------------------------------------
(* The actions. *)

\* What the requests have in common.
LEMMA AskFacts ==
  ASSUME Inv, NEW r \in Request
  PROVE  /\ ask[r] \in AskState /\ AskRight(ask[r])
         /\ ask[r].url \in Url /\ ask[r].known \in BOOLEAN /\ ask[r].age \in Nat
         /\ ask[r].url.kind \in CachedKind => ask[r].url \in CachedUrl
         /\ ask[r].url.kind \in {"positionInQueue", "batch", "info"} => ask[r].url.id \in Psbt
BY DEF Inv, AskState, CachedUrl, Url

LEMMA StartInv ==
  ASSUME Inv, NEW r \in Request, NEW u \in Url, Start(r, u)
  PROVE  Inv'
<1>1. PICK known \in BOOLEAN : known = (u.kind = "info" /\ u.id \in accepted)
  OBVIOUS
<1>2. AskRight(New(u, known))
  BY <1>1, StartRight
<1>3. To(r, New(u, known)) /\ UNCHANGED cache
  BY <1>1 DEF Start
<1> QED
  BY <1>2, <1>3, RequestStep

LEMMA RestInv ==
  ASSUME Inv, NEW r \in Request, NEW pc \in {"answered", "notFound", "error"},
         NEW answer \in Answer, NEW age \in Nat, Rest(r, pc, answer, age),
         LET u == ask[r].url IN
           /\ u.kind \in CachedKind => age <= Lifetime[u.kind] + MaxRun
           /\ answer.position > 0 => u.id \in revoked
           /\ answer.tx # NoTx =>
                /\ pc = "answered" /\ Complete(answer.tx, u.id)
                /\ answer.participants = Cardinality(answer.tx.ins)
           /\ pc = "notFound" /\ u.kind = "info" /\ ask[r].known => u.id \in revoked \cup Hidden,
         \/ UNCHANGED cache
         \/ \E u \in CachedUrl, e \in Entry :
              EntryRight(u, e) /\ cache' = [cache EXCEPT ![u] = e]
  PROVE  Inv'
<1> DEFINE s == [New(ask[r].url, ask[r].known) EXCEPT !.pc = pc, !.answer = answer, !.age = age]
<1>1. AskRight(s)
  BY RestRight
<1>2. To(r, s)
  BY DEF Rest
<1> HIDE DEF s
<1> QED
  BY <1>1, <1>2, RequestStep

LEMMA HitInv ==
  ASSUME Inv, NEW r \in Request, Hit(r)
  PROVE  Inv'
<1> DEFINE u == ask[r].url
           e == cache[u]
<1>1. e # Nothing /\ Rest(r, "answered", e.answer, e.age) /\ UNCHANGED cache
      /\ ask[r].pc = "cache"
  BY DEF Hit, CacheKey
<1>2. u.kind \in CachedKind /\ u \in CachedUrl
  BY <1>1, AskFacts DEF AskRight, SnapRight
<1>3. e \in Entry /\ EntryRight(u, e)
  BY <1>1, <1>2 DEF Inv
<1>4. e.answer \in Answer /\ e.age \in Nat /\ e.left \in Nat
  BY <1>3 DEF Entry
<1>5. e.age <= Lifetime[u.kind] + MaxRun
  BY <1>1, <1>2, <1>3, <1>4, ConstantsAssumption DEF EntryRight
<1>6. (e.answer.position > 0 => u.id \in revoked) /\ e.answer.tx = NoTx
  BY <1>1, <1>3 DEF EntryRight
<1> HIDE DEF e
<1> QED
  BY <1>1, <1>4, <1>5, <1>6, RestInv

LEMMA MissInv ==
  ASSUME Inv, NEW r \in Request, Miss(r)
  PROVE  Inv'
<1> DEFINE s == [ask[r] EXCEPT !.pc = "rate"]
<1>1. ask[r].pc = "cache" /\ To(r, s) /\ UNCHANGED cache
  BY DEF Miss
<1>2. s \in AskState /\ s.url = ask[r].url /\ s.known = ask[r].known /\ s.age = ask[r].age
      /\ s.answer = ask[r].answer /\ s.pc = "rate" /\ s.snap = ask[r].snap
      /\ s.todo = ask[r].todo /\ s.unspent = ask[r].unspent
  BY AskFacts DEF AskState
<1>3. SnapRight(s)
  BY <1>1, <1>2, AskFacts DEF AskRight, SnapRight
<1>4. PositionRight(s) /\ LookupRight(s)
  BY <1>1, <1>2, AskFacts DEF AskRight, PositionRight, LookupRight
<1> HIDE DEF s
<1>5. AskRight(s)
  BY <1>1, <1>2, <1>3, <1>4, GoOnRight DEF Resting
<1> QED
  BY <1>1, <1>5, RequestStep

LEMMA NoRateInv ==
  ASSUME Inv, NEW r \in Request, NoRate(r)
  PROVE  Inv'
<1>1. Zero \in Answer /\ Zero.position = 0 /\ Zero.tx = NoTx
  BY AnswerTypes
<1>2. \A u \in Url : u.kind \in CachedKind => 0 <= Lifetime[u.kind] + MaxRun
  BY ConstantsAssumption
<1> QED
  BY <1>1, <1>2, AskFacts, RestInv DEF NoRate

LEMMA ReadQueueInv ==
  ASSUME Inv, NEW r \in Request, ReadQueue(r)
  PROVE  Inv'
<1> DEFINE a == ask[r]
<1>0. a.pc = "rate" /\ UNCHANGED cache
  BY DEF ReadQueue
<1>1. a.url.kind \in CachedKind /\ queue \subseteq Psbt /\ a.age <= MaxRun /\ a.age \in Nat
  BY <1>0, AskFacts, LedgerFacts DEF AskRight, SnapRight, AgeRight, Resting, Inv, Ledger!TypeOK
<1>2. CASE EmptyIsAnswered(r)
  <2>1. Rest(r, "answered", Zero, a.age)
    BY <1>2 DEF ReadQueue
  <2>2. a.age <= Lifetime[a.url.kind] + MaxRun
    BY <1>1, ConstantsAssumption
  <2>3. Zero \in Answer /\ Zero.position = 0 /\ Zero.tx = NoTx
    BY AnswerTypes
  <2> QED
    BY <1>0, <1>1, <2>1, <2>2, <2>3, RestInv
<1>3. CASE ~EmptyIsAnswered(r) /\ a.url.kind = "positionInQueue"
  <2> DEFINE s == [a EXCEPT !.snap = queue, !.pc = "exists"]
  <2>1. To(r, s)
    BY <1>3, AskFacts DEF ReadQueue, AskState
  <2>2. s \in AskState /\ s.url = a.url /\ s.known = a.known /\ s.age = a.age
        /\ s.answer = a.answer /\ s.pc = "exists" /\ s.snap = queue
        /\ s.todo = {} /\ s.unspent = {}
    <3>1. a.todo = {} /\ a.unspent = {}
      BY <1>0, AskFacts DEF AskRight, SnapRight
    <3> QED
      BY <1>1, <3>1, AskFacts DEF AskState
  <2>3. SnapRight(s) /\ PositionRight(s) /\ LookupRight(s)
    BY <1>1, <1>3, <2>2, AskFacts DEF AskRight, SnapRight, PositionRight, LookupRight, Inv, HashesLast
  <2> HIDE DEF s
  <2>4. AskRight(s)
    BY <1>0, <2>2, <2>3, GoOnRight DEF Resting
  <2> QED
    BY <1>0, <2>1, <2>4, RequestStep
<1>4. CASE ~EmptyIsAnswered(r) /\ a.url.kind # "positionInQueue"
  <2> DEFINE s == [a EXCEPT !.snap = queue, !.pc = "lookup", !.todo = queue]
  <2>1. To(r, s)
    BY <1>4, AskFacts DEF ReadQueue, AskState, Looking
  <2>2. s \in AskState /\ s.url = a.url /\ s.known = a.known /\ s.age = a.age
        /\ s.answer = a.answer /\ s.pc = "lookup" /\ s.snap = queue
        /\ s.todo = queue /\ s.unspent = {}
    <3>1. a.unspent = {}
      BY <1>0, AskFacts DEF AskRight, SnapRight
    <3> QED
      BY <1>1, <3>1, AskFacts DEF AskState
  <2>3. SnapRight(s)
    BY <1>1, <1>4, <2>2, AskFacts DEF AskRight, SnapRight, Inv, HashesLast
  <2>4. PositionRight(s)
    BY <1>0, <1>4, <2>2, AskFacts DEF AskRight, PositionRight
  <2>5. LookupRight(s)
    BY <1>4, <2>2 DEF LookupRight, EmptyIsAnswered
  <2> HIDE DEF s
  <2>6. AskRight(s)
    BY <1>0, <2>2, <2>3, <2>4, <2>5, GoOnRight DEF Resting
  <2> QED
    BY <1>0, <2>1, <2>6, RequestStep
<1> QED
  BY <1>2, <1>3, <1>4

LEMMA ReadExistsInv ==
  ASSUME Inv, NEW r \in Request, ReadExists(r)
  PROVE  Inv'
<1> DEFINE a == ask[r]
           s == [a EXCEPT !.pc = "txId", !.found = (record[a.url.id] # Ledger!Absent)]
<1>1. a.pc = "exists" /\ To(r, s) /\ UNCHANGED cache
  BY DEF ReadExists
<1>2. /\ s \in AskState /\ s.url = a.url /\ s.known = a.known /\ s.age = a.age
      /\ s.answer = a.answer /\ s.pc = "txId" /\ s.snap = a.snap
      /\ s.todo = a.todo /\ s.unspent = a.unspent
      /\ s.found = (record[a.url.id] # Ledger!Absent)
  BY AskFacts DEF AskState
<1>3. SnapRight(s)
  BY <1>1, <1>2, AskFacts DEF AskRight, SnapRight
<1>4. PositionRight(s)
  <2>1. a.url.id \in a.snap /\ ~s.found => a.url.id \in revoked
    <3>1. Ledger!Absent.token = NoToken
      BY DEF Ledger!Absent
    <3> QED
      BY <1>2, <3>1, AskFacts DEF AskRight, SnapRight, Inv, HashesLast
  <2> QED
    BY <1>1, <1>2, <2>1, AskFacts DEF AskRight, PositionRight
<1>5. LookupRight(s)
  BY <1>2 DEF LookupRight
<1> HIDE DEF s
<1>6. AskRight(s)
  BY <1>1, <1>2, <1>3, <1>4, <1>5, GoOnRight DEF Resting
<1> QED
  BY <1>1, <1>6, RequestStep

LEMMA ReadTxIdInv ==
  ASSUME Inv, NEW r \in Request, ReadTxId(r)
  PROVE  Inv'
<1> DEFINE a == ask[r]
           s == [a EXCEPT !.pc = "lookup", !.todo = a.snap]
<1>1. a.pc = "txId" /\ UNCHANGED cache /\ a.url.kind = "positionInQueue"
  BY AskFacts DEF ReadTxId, AskRight, SnapRight
<1>2. CASE Rest(r, "notFound", Zero, 0)
  <2>1. Zero \in Answer /\ Zero.position = 0 /\ Zero.tx = NoTx
    BY AnswerTypes
  <2>2. a.url.kind \in CachedKind => 0 <= Lifetime[a.url.kind] + MaxRun
    BY ConstantsAssumption
  <2> QED
    BY <1>1, <1>2, <2>1, <2>2, RestInv
<1>3. CASE ~TurnedAway(a) /\ To(r, Looking(a))
  <2>1. To(r, s)
    BY <1>3 DEF Looking
  <2>2. /\ s \in AskState /\ s.url = a.url /\ s.known = a.known /\ s.age = a.age
        /\ s.answer = a.answer /\ s.pc = "lookup" /\ s.snap = a.snap
        /\ s.todo = a.snap /\ s.unspent = a.unspent
    BY AskFacts DEF AskState
  <2>3. SnapRight(s)
    BY <1>1, <2>2, AskFacts DEF AskRight, SnapRight
  <2>4. PositionRight(s)
    BY <1>1, <1>3, <2>2, AskFacts DEF AskRight, PositionRight, TurnedAway
  <2>5. LookupRight(s)
    BY <1>1, <2>2 DEF LookupRight
  <2> HIDE DEF s
  <2>6. AskRight(s)
    BY <1>1, <2>2, <2>3, <2>4, <2>5, GoOnRight DEF Resting
  <2> QED
    BY <1>1, <2>1, <2>6, RequestStep
<1> QED
  BY <1>2, <1>3 DEF ReadTxId

\* A request that nobody answers had a reason.
LEMMA HungInv ==
  ASSUME Inv, NEW r \in Request, ask[r].pc = "lookup", Hung(r), UNCHANGED cache,
         ask[r].snap # {},
         \/ ask[r].missed \/ Clash(ask[r].snap)
         \/ \A p \in ask[r].snap : Input[p] \in Gone
         \/ \E p \in ask[r].snap : Input[p] \in Missing
  PROVE  Inv'
<1> DEFINE a == ask[r]
           s == [a EXCEPT !.pc = "hung", !.age = 0]
<1>1. To(r, s)
  BY DEF Hung
<1>2. /\ s \in AskState /\ s.url = a.url /\ s.known = a.known /\ s.age = 0
      /\ s.answer = a.answer /\ s.pc = "hung" /\ s.snap = a.snap /\ s.missed = a.missed
      /\ s.todo = a.todo /\ s.unspent = a.unspent
  BY AskFacts DEF AskState, Resting
<1>3. SnapRight(s)
  BY <1>2, AskFacts DEF AskRight, SnapRight
<1>4. AgeRight(s)
  BY <1>2, ConstantsAssumption DEF AgeRight, Resting
<1>5. PositionRight(s)
  BY <1>2, AskFacts DEF AskRight, PositionRight
<1>6. LookupRight(s)
  BY <1>2 DEF LookupRight
<1>7. ToldRight(s)
  BY <1>2, AskFacts DEF AskRight, ToldRight
<1> HIDE DEF s
<1>8. AskRight(s)
  BY <1>2, <1>3, <1>4, <1>5, <1>6, <1>7 DEF AskRight
<1> QED
  BY <1>1, <1>8, RequestStep

LEMMA LookupInv ==
  ASSUME Inv, NEW r \in Request, NEW p \in Psbt, Lookup(r, p)
  PROVE  Inv'
<1> DEFINE a == ask[r]
<1>1. a.pc = "lookup" /\ p \in a.todo /\ UNCHANGED cache
  BY DEF Lookup
<1>2. ASSUME NEW s, To(r, s), s \in AskState, s.url = a.url, s.known = a.known, s.age = a.age,
             s.answer = a.answer, s.pc = "lookup", s.snap = a.snap, s.todo = a.todo \ {p},
             \/ s.missed
             \/ s.missed = a.missed /\ (p \in s.unspent \/ Input[p] \in Gone),
             a.unspent \subseteq s.unspent, s.unspent \subseteq a.unspent \cup {p}
      PROVE  Inv'
  <2>1. SnapRight(s)
    BY <1>1, <1>2, AskFacts DEF AskRight, SnapRight
  <2>2. PositionRight(s)
    BY <1>1, <1>2, AskFacts DEF AskRight, PositionRight
  <2>3. LookupRight(s)
    BY <1>1, <1>2, AskFacts DEF AskRight, LookupRight
  <2>4. AskRight(s)
    BY <1>1, <1>2, <2>1, <2>2, <2>3, GoOnRight DEF Resting
  <2> QED
    BY <1>1, <1>2, <2>4, RequestStep
<1>3. CASE To(r, [a EXCEPT !.todo = @ \ {p}, !.missed = TRUE])
  <2> DEFINE s == [a EXCEPT !.todo = @ \ {p}, !.missed = TRUE]
  <2>1. /\ s \in AskState /\ s.url = a.url /\ s.known = a.known /\ s.age = a.age
        /\ s.answer = a.answer /\ s.pc = a.pc /\ s.snap = a.snap /\ s.todo = a.todo \ {p}
        /\ s.missed /\ s.unspent = a.unspent
    BY AskFacts DEF AskState
  <2> HIDE DEF s
  <2>2. To(r, s)
    BY <1>3 DEF s
  <2> QED
    BY <1>1, <1>2, <2>1, <2>2
<1>4. CASE To(r, [a EXCEPT !.todo = @ \ {p},
                    !.unspent = IF Input[p] \in Gone THEN @ ELSE @ \cup {p}])
  <2> DEFINE s == [a EXCEPT !.todo = @ \ {p},
                     !.unspent = IF Input[p] \in Gone THEN @ ELSE @ \cup {p}]
  <2>1. /\ s \in AskState /\ s.url = a.url /\ s.known = a.known /\ s.age = a.age
        /\ s.answer = a.answer /\ s.pc = a.pc /\ s.snap = a.snap /\ s.todo = a.todo \ {p}
        /\ s.missed = a.missed
        /\ s.unspent = IF Input[p] \in Gone THEN a.unspent ELSE a.unspent \cup {p}
    BY AskFacts DEF AskState
  <2> HIDE DEF s
  <2>2. To(r, s)
    BY <1>4 DEF s
  <2> QED
    BY <1>1, <1>2, <2>1, <2>2
<1>5. CASE Input[p] \in Missing /\ Hung(r)
  <2>1. p \in a.snap
    BY <1>1, AskFacts DEF AskRight, SnapRight
  <2> QED
    BY <1>1, <1>5, <2>1, HungInv
<1> QED
  BY <1>3, <1>4, <1>5 DEF Lookup

LEMMA HangInv ==
  ASSUME Inv, NEW r \in Request, Hang(r)
  PROVE  Inv'
<1> DEFINE a == ask[r]
<1>1. a.pc = "lookup" /\ a.todo = {} /\ Hung(r) /\ UNCHANGED cache
  BY DEF Hang
<1>2. CASE Clash(a.unspent)
  <2>1. Clash(a.snap) /\ a.snap # {}
    BY <1>2, AskFacts DEF AskRight, SnapRight, Clash
  <2> QED
    BY <1>1, <2>1, HungInv
<1>3. CASE a.unspent = {} /\ a.url.kind # "positionInQueue"
  <2>1. a.snap # {} /\ (a.missed \/ \A p \in a.snap : Input[p] \in Gone)
    BY <1>1, <1>3, AskFacts DEF AskRight, LookupRight
  <2> QED
    BY <1>1, <2>1, HungInv
<1> QED
  BY <1>2, <1>3 DEF Hang, Unfit

LEMMA ReplyInv ==
  ASSUME Inv, NEW r \in Request, Reply(r)
  PROVE  Inv'
<1> DEFINE a == ask[r]
           u == a.url
           answer(k) == [Zero EXCEPT !.position = k]
<1>1. PICK k \in Positions(a) :
        Rest(r, "answered", answer(k), a.age) /\ cache' = [cache EXCEPT ![u] = Stored(r, answer(k))]
  BY DEF Reply, CacheKey
<1>2. /\ a.pc = "lookup" /\ u.kind \in CachedKind /\ u \in CachedUrl
      /\ a.age \in Nat /\ a.age <= MaxRun
  BY AskFacts DEF Reply, AskRight, SnapRight, AgeRight, Resting
<1>3. Lifetime[u.kind] \in Nat /\ MaxRun \in Nat
  BY <1>2, ConstantsAssumption
<1>4. k \in Count /\ (k > 0 => u.id \in revoked)
  <2>1. CASE u.kind = "positionInQueue" /\ u.id \in a.unspent
    <3>1. a.unspent \subseteq Psbt /\ u.id \in a.snap
      BY <2>1, AskFacts DEF AskState, AskRight, SnapRight
    <3>2. Cardinality(a.unspent) \in Count /\ Cardinality(Psbt) \in Nat
      BY <3>1, AnswerTypes
    <3> QED
      BY <1>2, <2>1, <3>1, <3>2, AskFacts DEF Positions, Count, AskRight, PositionRight
  <2>2. CASE ~(u.kind = "positionInQueue" /\ u.id \in a.unspent)
    BY <2>2, AnswerTypes DEF Positions, Count
  <2> QED
    BY <2>1, <2>2
<1>5. answer(k) \in Answer /\ answer(k).position = k /\ answer(k).tx = NoTx
  BY <1>4, AnswerTypes DEF Answer
<1> HIDE DEF answer
<1>6. Stored(r, answer(k)) \in Entry /\ EntryRight(u, Stored(r, answer(k)))
  BY <1>2, <1>3, <1>4, <1>5 DEF Stored, Entry, EntryRight
<1>7. \E v \in CachedUrl, e \in Entry : EntryRight(v, e) /\ cache' = [cache EXCEPT ![v] = e]
  BY <1>1, <1>2, <1>6
<1>8. a.age <= Lifetime[u.kind] + MaxRun
  BY <1>2, <1>3
<1>9. Rest(r, "answered", answer(k), a.age)
  BY <1>1
<1> QED
  BY <1>2, <1>4, <1>5, <1>7, <1>8, <1>9, RestInv

LEMMA ReadRecordInv ==
  ASSUME Inv, NEW r \in Request, ReadRecord(r)
  PROVE  Inv'
<1> DEFINE a == ask[r]
           h == record[a.url.id]
<1>1. a.pc = "record" /\ UNCHANGED cache
  BY DEF ReadRecord
<1>2. CASE a.url.kind = "batch" /\
           To(r, [a EXCEPT !.pc = IF h.txId = NoTx THEN "waiting" ELSE "members",
                           !.answer.tx = h.txId])
  <2> DEFINE s == [a EXCEPT !.pc = IF h.txId = NoTx THEN "waiting" ELSE "members",
                            !.answer.tx = h.txId]
  <2>1. h.txId \in Ledger!Tx \cup {NoTx} /\ (h.txId # NoTx => Complete(h.txId, a.url.id))
    BY <1>2, AskFacts, LedgerFacts DEF Inv, Ledger!TypeOK, Ledger!Record
  <2>2. /\ s \in AskState /\ s.url = a.url /\ s.known = a.known /\ s.age = a.age
        /\ s.answer.position = a.answer.position /\ s.answer.tx = h.txId
        /\ s.snap = a.snap /\ s.todo = a.todo /\ s.unspent = a.unspent
        /\ s.pc = IF h.txId = NoTx THEN "waiting" ELSE "members"
    <3> DEFINE answer == [a.answer EXCEPT !.tx = h.txId]
    <3>1. a.answer \in Answer
      BY AskFacts DEF AskState
    <3>2. answer \in Answer /\ answer.position = a.answer.position /\ answer.tx = h.txId
      BY <2>1, <3>1 DEF Answer
    <3>3. s = [a EXCEPT !.pc = IF h.txId = NoTx THEN "waiting" ELSE "members", !.answer = answer]
      BY AskFacts DEF AskState
    <3> HIDE DEF answer, s
    <3> QED
      BY <3>2, <3>3, AskFacts DEF AskState
  <2>3. SnapRight(s)
    BY <1>2, <2>2, AskFacts DEF AskRight, SnapRight
  <2>4. AgeRight(s)
    BY <1>1, <2>2, AskFacts DEF AskRight, AgeRight, Resting
  <2>5. PositionRight(s)
    BY <1>2, <2>2, AskFacts DEF AskRight, PositionRight
  <2>6. LookupRight(s)
    BY <2>2 DEF LookupRight
  <2>7. ToldRight(s)
    BY <2>1, <2>2 DEF ToldRight
  <2> HIDE DEF s
  <2>8. AskRight(s)
    BY <2>2, <2>3, <2>4, <2>5, <2>6, <2>7 DEF AskRight
  <2>9. To(r, s)
    BY <1>2 DEF s
  <2> QED
    BY <1>1, <2>8, <2>9, RequestStep
<1>3. CASE a.url.kind = "info" /\
           Rest(r, IF h.token = NoToken \/ a.url.id \in Hidden THEN "notFound" ELSE "answered",
                Zero, 0)
  <2>1. PICK pc \in {"answered", "notFound", "error"} :
          pc = IF h.token = NoToken \/ a.url.id \in Hidden THEN "notFound" ELSE "answered"
    OBVIOUS
  <2>2. pc = "notFound" /\ a.known => a.url.id \in revoked \cup Hidden
    BY <1>1, <2>1, AskFacts DEF AskRight, SnapRight, Inv, HashesLast
  <2>3. Zero \in Answer /\ Zero.position = 0 /\ Zero.tx = NoTx /\ a.url.kind \notin CachedKind
    BY <1>3, AnswerTypes DEF CachedKind
  <2> QED
    BY <1>1, <1>3, <2>1, <2>2, <2>3, RestInv
<1> QED
  BY <1>2, <1>3 DEF ReadRecord

LEMMA CountMembersInv ==
  ASSUME Inv, NEW r \in Request, CountMembers(r)
  PROVE  Inv'
<1> DEFINE a == ask[r]
           t == a.answer.tx
           answer == [Zero EXCEPT !.participants = Cardinality(Ledger!Batched(t)), !.tx = t]
<1>1. a.pc = "members" /\ Rest(r, "answered", answer, 0) /\ UNCHANGED cache
  BY DEF CountMembers
<1>2. a.url.kind = "batch" /\ t # NoTx /\ Complete(t, a.url.id)
  BY <1>1, AskFacts DEF AskRight, SnapRight, ToldRight
<1>3. t \in Ledger!Tx /\ t.ins \subseteq Psbt /\ Ledger!Batched(t) = t.ins
  BY <1>2, LedgerFacts DEF Inv, Complete, Ledger!TypeOK, Ledger!Tx
<1>4. answer \in Answer /\ answer.position = 0 /\ answer.tx = t
      /\ answer.participants = Cardinality(t.ins)
  BY <1>3, AnswerTypes DEF Answer, Zero
<1>5. a.url.kind \notin CachedKind
  BY <1>2 DEF CachedKind
<1> HIDE DEF answer
<1> QED
  BY <1>1, <1>2, <1>4, <1>5, RestInv

LEMMA CountQueueInv ==
  ASSUME Inv, NEW r \in Request, CountQueue(r)
  PROVE  Inv'
<1>1. ask[r].url.kind \notin CachedKind
  BY AskFacts DEF CountQueue, AskRight, SnapRight, CachedKind
<1>2. Zero \in Answer /\ Zero.position = 0 /\ Zero.tx = NoTx
  BY AnswerTypes
<1> QED
  BY <1>1, <1>2, RestInv DEF CountQueue

LEMMA ServeInv ==
  ASSUME Inv, Serving
  PROVE  Inv'
<1>1. ask' = ask /\ cache' = cache
  BY DEF Serving, Remember
<1>2. Grown /\ HashesLast' /\ accepted' \subseteq Psbt /\ revoked' \subseteq Psbt
  BY ServeGrows
<1>3. (\A r \in Request : AskRight(ask[r]))'
  BY <1>1, <1>2, RequestsRight DEF Inv
<1>4. (\A u \in CachedUrl : EntryRight(u, cache[u]))'
  BY <1>1, <1>2, EntriesRight DEF Inv
<1> QED
  BY <1>1, <1>2, <1>3, <1>4, ServeLedger DEF Inv

LEMMA TickInv ==
  ASSUME Inv, Tick
  PROVE  Inv'
<1>1. ASSUME NEW r \in Request PROVE AskRight(ask'[r])
  <2> DEFINE a == ask[r]
             s == [a EXCEPT !.age = @ + 1]
  <2>1. CASE a.pc \in Resting
    BY <2>1, AskFacts DEF Tick, Older
  <2>2. CASE a.pc \notin Resting
    <3>1. ask'[r] = s /\ a.age < MaxRun
      BY <2>2 DEF Tick, Older
    <3>2. /\ s \in AskState /\ s.url = a.url /\ s.known = a.known /\ s.age = a.age + 1
          /\ s.answer = a.answer /\ s.pc = a.pc /\ s.snap = a.snap /\ s.missed = a.missed
          /\ s.todo = a.todo /\ s.unspent = a.unspent /\ s.found = a.found
      BY AskFacts DEF AskState
    <3>3. AgeRight(s)
      BY <3>1, <3>2, AskFacts, ConstantsAssumption DEF AgeRight
    <3>4. SnapRight(s) /\ PositionRight(s) /\ LookupRight(s) /\ ToldRight(s)
      BY <3>2, AskFacts DEF AskRight, SnapRight, PositionRight, LookupRight, ToldRight
    <3> HIDE DEF s
    <3> QED
      BY <3>1, <3>2, <3>3, <3>4 DEF AskRight
  <2> QED
    BY <2>1, <2>2
<1>2. ASSUME NEW u \in CachedUrl
      PROVE  cache'[u] \in Entry \cup {Nothing} /\ EntryRight(u, cache'[u])
  <2> DEFINE e == cache[u]
             f == [e EXCEPT !.left = @ - 1, !.age = @ + 1]
  <2>1. cache'[u] = Later(e) /\ e \in Entry \cup {Nothing} /\ EntryRight(u, e)
    BY DEF Tick, Inv
  <2>2. CASE e = Nothing \/ e.left = 0
    BY <2>1, <2>2 DEF Later, EntryRight
  <2>3. CASE e # Nothing /\ e.left # 0
    <3>1. cache'[u] = f
      BY <2>1, <2>3 DEF Later
    <3>2. e \in Entry /\ e.left \in Nat /\ e.age \in Nat
      BY <2>1, <2>3 DEF Entry
    <3>3. f \in Entry /\ f.left = e.left - 1 /\ f.age = e.age + 1 /\ f.answer = e.answer
      <4>1. e.left - 1 \in Nat /\ e.age + 1 \in Nat
        BY <2>3, <3>2
      <4> HIDE DEF e
      <4> QED
        BY <3>2, <4>1 DEF Entry
    <3>4. Lifetime[u.kind] + MaxRun \in Nat
      BY ConstantsAssumption DEF CachedUrl
    <3> HIDE DEF f
    <3> QED
      BY <2>1, <2>3, <3>1, <3>2, <3>3, <3>4 DEF EntryRight
  <2> QED
    BY <2>2, <2>3
<1>3. UNCHANGED <<ledger, past>>
  BY DEF Tick
<1>4. ask' \in [Request -> AskState] /\ cache' \in [CachedUrl -> Entry \cup {Nothing}]
  BY <1>1, <1>2 DEF Tick, AskRight
<1>5. LedgerProofs!Inv' /\ HashesLast' /\ accepted' \subseteq Psbt /\ revoked' \subseteq Psbt
  BY <1>3, SameLedgerInv, NothingGrows DEF Inv, past
<1> QED
  BY <1>1, <1>2, <1>3, <1>4, <1>5, NothingGrows, RequestsRight, EntriesRight DEF Inv

LEMMA StutterInv ==
  ASSUME Inv, UNCHANGED vars
  PROVE  Inv'
<1>1. UNCHANGED <<ledger, past>> /\ ask' = ask /\ cache' = cache
  BY DEF vars
<1>2. LedgerProofs!Inv' /\ HashesLast' /\ accepted' \subseteq Psbt /\ revoked' \subseteq Psbt
  BY <1>1, SameLedgerInv, NothingGrows DEF Inv, past
<1> QED
  BY <1>1, <1>2, NothingGrows, RequestsRight, EntriesRight DEF Inv

LEMMA InvInit ==
  ASSUME Init
  PROVE  Inv
<1> DEFINE u == [kind |-> "feeRateInfo", id |-> Nothing]
<1>1. LedgerProofs!Inv
  BY SameLedger, ConstantsAssumption, LedgerProofs!InvInit
     DEF Init, LedgerProofs!Tx, Ledger!Tx
<1>2. u \in Url
  BY DEF Url
<1>3. AskRight(Unasked)
  <2>1. /\ Unasked \in AskState /\ Unasked.url = u /\ Unasked.pc = "idle" /\ ~Unasked.known
        /\ Unasked.age = 0 /\ Unasked.snap = {} /\ Unasked.todo = {} /\ Unasked.unspent = {}
        /\ Unasked.answer = Zero
    BY <1>2, AnswerTypes DEF Unasked, New, AskState, Resting
  <2>2. AgeRight(Unasked)
    BY <2>1, ConstantsAssumption DEF AgeRight, Resting
  <2>3. SnapRight(Unasked) /\ PositionRight(Unasked) /\ LookupRight(Unasked) /\ ToldRight(Unasked)
    BY <2>1, AnswerTypes DEF SnapRight, PositionRight, LookupRight, ToldRight
  <2> QED
    BY <2>1, <2>2, <2>3 DEF AskRight
<1>4. HashesLast
  BY DEF Init, HashesLast, Ledger!Init
<1>5. ask \in [Request -> AskState] /\ \A r \in Request : AskRight(ask[r])
  BY <1>3 DEF Init, AskRight
<1> QED
  BY <1>1, <1>4, <1>5 DEF Init, Inv, EntryRight

LEMMA ReadInv ==
  ASSUME Inv, Read
  PROVE  Inv'
BY TickInv, StartInv, HitInv, MissInv, NoRateInv, ReadQueueInv, ReadExistsInv, ReadTxIdInv,
   LookupInv, HangInv, ReplyInv, ReadRecordInv, CountMembersInv, CountQueueInv DEF Read

\* The invariant behind the theorems, of every behaviour.
THEOREM InvHolds == Spec => []Inv
<1>1. Init => Inv
  BY InvInit
<1>2. Inv /\ [Next]_vars => Inv'
  BY ServeIsServing, ServeInv, ReadInv, StutterInv DEF Next
<1> QED
  BY <1>1, <1>2, PTL DEF Spec

\* Every variable keeps its type.
THEOREM TypeCorrect == Spec => []TypeOK
<1>1. Inv => TypeOK
  BY LedgerFacts DEF Inv, TypeOK
<1> QED
  BY <1>1, InvHolds, PTL

\* Only a revoked PSBT is ever given a place in the queue (getPositionInQueue, cache).
THEOREM PlaceOfRevoked == Spec => []PositionOnlyOfRevoked
<1>1. Inv => PositionOnlyOfRevoked
  BY DEF Inv, AskRight, PositionRight, PositionOnlyOfRevoked
<1> QED
  BY <1>1, InvHolds, PTL

\* A request left without an answer had a lookup go unanswered, or had read a queue
\* that no transaction can be made of (getFeeRateInfo, getParticipationRate,
\* getPositionInQueue).
THEOREM HangsOfBadQueue == Spec => []HangsOnlyOnBadQueue
<1>1. Inv => HangsOnlyOnBadQueue
  BY DEF Inv, AskRight, LookupRight, HangsOnlyOnBadQueue, Ledger!InputsOf
<1> QED
  BY <1>1, InvHolds, PTL

\* Whatever the requests overlap with, an answer is no older than its lifetime in
\* the cache and one run of a request (cache).
THEOREM FreshAnswers == Spec => []AnswerFresh
<1>1. Inv => AnswerFresh
  BY DEF Inv, AskRight, AgeRight, AnswerFresh
<1> QED
  BY <1>1, InvHolds, PTL

\* What is told of a batch and of a PSBT is true (getBatchStatusController,
\* getPSBTInfoController).
THEOREM TruthTold == Spec => []ToldTruth
<1>1. Inv => ToldTruth
  BY DEF Inv, AskRight, ToldRight, Complete, ToldTruth
<1> QED
  BY <1>1, InvHolds, PTL

-----------------------------------------------------------------------------
(* The requests over any system that implements the ledger, such as GroupHug, *)
(* where cron runs overlap: neither side knows of the other's steps.          *)

Readers ==
  /\ accepted = {} /\ revoked = {}
  /\ ask = [r \in Request |-> Unasked]
  /\ cache = [u \in CachedUrl |-> Nothing]
  /\ [][Read \/ Remember]_vars

\* A step that leaves the ledger alone gives nothing to remember.
LEMMA RememberNothing ==
  ASSUME Inv, Remember, UNCHANGED ledger
  PROVE  UNCHANGED vars
<1>1. queue' = queue /\ record' = record
  BY DEF ledger
<1>2. accepted' = accepted
  BY <1>1 DEF Remember, Inv, HashesLast
<1>3. revoked' = revoked
  BY <1>1 DEF Remember
<1> QED
  BY <1>2, <1>3 DEF vars, past, Remember

LEMMA ReadersStep == Inv /\ [Ledger!Next]_(Ledger!vars) /\ [Read \/ Remember]_vars => Inv'
<1> SUFFICES ASSUME Inv, [Ledger!Next]_(Ledger!vars), [Read \/ Remember]_vars PROVE Inv'
  OBVIOUS
<1>1. CASE Read
  BY <1>1, ReadInv
<1>2. CASE Remember /\ Ledger!Next
  BY <1>2, ServeInv DEF Serving
<1>3. CASE Remember /\ UNCHANGED Ledger!vars
  <2>1. UNCHANGED ledger
    BY <1>3 DEF ledger, Ledger!vars
  <2> QED
    BY <1>3, <2>1, RememberNothing, StutterInv
<1>4. CASE UNCHANGED vars
  BY <1>4, StutterInv
<1> QED
  BY <1>1, <1>2, <1>3, <1>4

\* What users are told is true, no older than promised, and given a reason when it does
\* not come, over whatever implements the ledger. By the refinement of GroupHug's proofs
\* that is the server, with its open transactions, overlapping cron runs and crashes.
THEOREM ReadersOverServer ==
  Ledger!Spec /\ Readers =>
    [](TypeOK /\ PositionOnlyOfRevoked /\ HangsOnlyOnBadQueue /\ AnswerFresh /\ ToldTruth)
<1>1. ASSUME Ledger!Init, accepted = {}, revoked = {},
             ask = [r \in Request |-> Unasked], cache = [u \in CachedUrl |-> Nothing]
      PROVE  Inv
  BY <1>1, InvInit DEF Init
<1>2. Inv => TypeOK /\ PositionOnlyOfRevoked /\ HangsOnlyOnBadQueue /\ AnswerFresh /\ ToldTruth
  <2> SUFFICES ASSUME Inv
               PROVE  TypeOK /\ PositionOnlyOfRevoked /\ HangsOnlyOnBadQueue /\ AnswerFresh
                        /\ ToldTruth
    OBVIOUS
  <2>1. TypeOK
    BY LedgerFacts DEF Inv, TypeOK
  <2>2. PositionOnlyOfRevoked /\ AnswerFresh
    BY DEF Inv, AskRight, PositionRight, PositionOnlyOfRevoked, AgeRight, AnswerFresh
  <2>3. HangsOnlyOnBadQueue
    BY DEF Inv, AskRight, LookupRight, HangsOnlyOnBadQueue, Ledger!InputsOf
  <2>4. ToldTruth
    BY DEF Inv, AskRight, ToldRight, Complete, ToldTruth
  <2> QED
    BY <2>1, <2>2, <2>3, <2>4
<1> QED
  BY <1>1, <1>2, ReadersStep, PTL DEF Ledger!Spec, Readers

=============================================================================
