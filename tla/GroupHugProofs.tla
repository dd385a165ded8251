--------------------------- MODULE GroupHugProofs ---------------------------
(* Proofs about GroupHug: its type invariant, and that every interleaving of *)
(* requests, cron runs, faults and crashes implements the atomic operations  *)
(* of PsbtLedger.                                                            *)
EXTENDS GroupHug, FiniteSetTheorems, TLAPS

-----------------------------------------------------------------------------
(* Type correctness                                                         *)

LEMMA TypeInit == Init => TypeOK
<1> SUFFICES ASSUME Init PROVE TypeOK
  OBVIOUS
<1> USE ConstantsAssumption DEF Init, Ledger!Init
<1>1. Ledger!TypeOK
  BY DEF Ledger!TypeOK, Ledger!Record, Ledger!Absent
<1>2. add \in [AddRequest -> AddState] /\ rev \in [RevokeRequest -> RevState]
  BY DEF AddState, RevState
<1>3. run \in [CronRun -> RunState] /\ \A r \in CronRun : TxAtHand(run[r])
  BY DEF RunState, Idle, TxAtHand
<1>4. /\ isolated \in [holder : Client \cup {Nobody}, dirty : BOOLEAN]
      /\ timers \in {"fresh", "ready", "expired"}
      /\ faults \in 0 .. MaxFaults
  BY DEF Free
<1> QED
  BY <1>1, <1>2, <1>3, <1>4 DEF TypeOK

\* The steps of db.transaction keep the connection's type, and faults its bound.
LEMMA ConnectionTypes ==
  ASSUME TypeOK
  PROVE  /\ \A c \in Client : Acquire(c) =>
              isolated' \in [holder : Client \cup {Nobody}, dirty : BOOLEAN]
         /\ Release => isolated' \in [holder : Client \cup {Nobody}, dirty : BOOLEAN]
         /\ Fault => faults' \in 0 .. MaxFaults
<1>1. ASSUME NEW c \in Client, Acquire(c)
      PROVE  isolated' \in [holder : Client \cup {Nobody}, dirty : BOOLEAN]
  BY <1>1 DEF Acquire
<1>2. Release => isolated' \in [holder : Client \cup {Nobody}, dirty : BOOLEAN]
  BY DEF Release, Free
<1>3. Fault => faults' \in 0 .. MaxFaults
  BY ConstantsAssumption DEF Fault, TypeOK
<1> QED
  BY <1>1, <1>2, <1>3

LEMMA AddTypes ==
  ASSUME TypeOK, NEW a \in AddRequest, AddStep(a)
  PROVE  TypeOK'
<1> USE ConstantsAssumption, ConnectionTypes DEF TypeOK, Ledger!TypeOK
<1>1. \A pc \in {"new", "checked", "txn", "ok", "failed"} :
        AddTo(a, pc) => add' \in [AddRequest -> AddState]
  BY DEF AddTo, AddState
<1>2. ASSUME AddCheck(a) \/ AddReject(a) PROVE TypeOK'
  BY <1>1, <1>2 DEF AddCheck, AddReject, redis, network
<1>3. ASSUME AddBegin(a) PROVE TypeOK'
  BY <1>1, <1>3 DEF AddBegin, Client, redis, network
<1>4. ASSUME AddExec(a) PROVE TypeOK'
  <2>1. Register(a) =>
          queue' \subseteq Psbt /\ record' \in [Psbt -> Ledger!Record] /\ batch' = batch /\ feeIndex' = feeIndex
    BY DEF Register, AddState, Ledger!Record
  <2>2. Ledger!TypeOK' /\ add' \in [AddRequest -> AddState] /\ faults' \in 0 .. MaxFaults
    BY <1>1, <1>4, <2>1 DEF AddExec, Commits, AnswerLost, Aborts, redis, network
  <2> QED
    BY <1>4, <2>2 DEF AddExec
<1> QED
  BY <1>2, <1>3, <1>4 DEF AddStep

LEMMA RevokeTypes ==
  ASSUME TypeOK, NEW v \in RevokeRequest, RevokeStep(v)
  PROVE  TypeOK'
<1> USE ConstantsAssumption, ConnectionTypes DEF TypeOK, Ledger!TypeOK
<1>1. \A pc \in {"new", "validated", "txn", "ok", "failed"} :
        RevTo(v, pc) \/ Deleted(v, pc) => rev' \in [RevokeRequest -> RevState]
  BY DEF RevTo, Deleted, RevState
<1>2. ASSUME RevokeValidate(v) \/ RevokeReject(v) \/ RevokeNotFound(v) PROVE TypeOK'
  BY <1>1, <1>2 DEF RevokeValidate, RevokeReject, RevokeNotFound, redis, network
<1>3. ASSUME RevokeBegin(v) PROVE TypeOK'
  BY <1>1, <1>3 DEF RevokeBegin, Client, redis, network
<1>4. ASSUME RevokeExec(v) PROVE TypeOK'
  <2>1. Unregister(v) =>
          queue' \subseteq Psbt /\ record' \in [Psbt -> Ledger!Record] /\ batch' = batch /\ feeIndex' = feeIndex
    BY DEF Unregister, RevState, Ledger!Record, Ledger!Absent
  <2>2. Ledger!TypeOK' /\ rev' \in [RevokeRequest -> RevState] /\ faults' \in 0 .. MaxFaults
    BY <1>1, <1>4, <2>1 DEF RevokeExec, Commits, AnswerLost, Aborts, redis, network
  <2> QED
    BY <1>4, <2>2 DEF RevokeExec
<1> QED
  BY <1>2, <1>3, <1>4 DEF RevokeStep

\* The states a run may be in, and that a run takes one of them.
RunOK(state) == state \in RunState /\ TxAtHand(state)

LEMMA RunToType ==
  ASSUME TypeOK, NEW r \in CronRun, NEW state, RunOK(state), RunTo(r, state)
  PROVE  run' \in [CronRun -> RunState] /\ \A c \in CronRun : TxAtHand(run'[c])
BY DEF TypeOK, RunTo, RunOK

LEMMA RunTypes ==
  ASSUME TypeOK, NEW r \in CronRun, RunLocal(r) \/ RunBegin(r)
  PROVE  TypeOK'
<1> USE ConstantsAssumption DEF TypeOK, Ledger!TypeOK
<1> DEFINE RunTyped == run' \in [CronRun -> RunState] /\ \A c \in CronRun : TxAtHand(run'[c])
<1>1. RunOK(Idle)
  BY DEF RunOK, TxAtHand, Idle, RunState
<1>2. run[r] \in RunState /\ TxAtHand(run[r])
  OBVIOUS
<1>3. ASSUME RunStart(r) PROVE TypeOK'
  <2>1. RunOK([Idle EXCEPT !.pc = "snapped", !.todo = queue])
    BY DEF RunOK, TxAtHand, Idle, RunState
  <2> QED
    BY <1>3, <2>1, RunToType DEF RunStart, redis, network
<1>4. ASSUME RunReadTimers(r) PROVE TypeOK'
  <2>1. RunOK([Idle EXCEPT !.pc = "empty"]) /\ RunOK([run[r] EXCEPT !.pc = "lookup"])
    BY <1>2 DEF RunOK, TxAtHand, Idle, RunState
  <2>2. RunTyped
    BY <1>1, <1>4, <2>1, RunToType DEF RunReadTimers
  <2> QED
    BY <1>4, <2>2 DEF RunReadTimers, redis, network
<1>5. ASSUME RunThrows(r) PROVE TypeOK'
  BY <1>1, <1>5, RunToType, ConnectionTypes DEF RunThrows, redis, network
<1>6. ASSUME NEW p \in Psbt, RunLookup(r, p) PROVE TypeOK'
  <2> DEFINE looked == [run[r] EXCEPT !.todo = @ \ {p}]
  <2>1. RunOK(looked)
    BY <1>2 DEF RunOK, TxAtHand, RunState
  <2>2. /\ RunOK([looked EXCEPT !.gone = @ \cup {p}])
        /\ RunOK([looked EXCEPT !.unspent = @ \cup {p}])
    BY <2>1 DEF RunOK, TxAtHand, RunState
  <2>3. RunTyped /\ faults' \in 0 .. MaxFaults
    <3> HIDE DEF looked
    <3> QED
      BY <1>1, <1>6, <2>1, <2>2, RunToType, ConnectionTypes DEF RunLookup, Unanswered, looked
  <2> QED
    BY <1>6, <2>3 DEF RunLookup, redis, network
<1>7. ASSUME RunPrune(r) PROVE TypeOK'
  <2>1. RunOK(AfterPrune(r))
    BY <1>1, <1>2 DEF AfterPrune, RunState, RunOK, TxAtHand
  <2>2. isolated' \in [holder : Client \cup {Nobody}, dirty : BOOLEAN]
    BY <1>7 DEF RunPrune, Writing
  <2> QED
    BY <1>7, <2>1, <2>2, RunToType DEF RunPrune, Pruned, network
<1>8. ASSUME RunBuild(r) PROVE TypeOK'
  <2>1. PICK S \in (SUBSET run[r].unspent) \ {{}} :
          RunTo(r, [Idle EXCEPT !.pc = "post", !.tx = [ins |-> S, fee |-> feeIndex]])
    BY <1>8 DEF RunBuild
  <2>2. [ins |-> S, fee |-> feeIndex] \in Tx
    BY <1>2 DEF Tx, Ledger!Tx, RunState
  <2>3. RunOK([Idle EXCEPT !.pc = "post", !.tx = [ins |-> S, fee |-> feeIndex]])
    BY <2>2 DEF Idle, RunState, RunOK, TxAtHand
  <2> QED
    BY <1>8, <2>1, <2>3, RunToType DEF RunBuild, redis, network
<1>9. ASSUME RunGiveUp(r) \/ RunPostError(r) PROVE TypeOK'
  BY <1>1, <1>9, RunToType DEF RunGiveUp, RunPostError, redis, network
<1>10. ASSUME RunPost(r) PROVE TypeOK'
  <2>1. RunOK([run[r] EXCEPT !.pc = "posted"]) /\ run[r].tx \in Tx
    BY <1>2, <1>10 DEF RunPost, RunState, RunOK, TxAtHand
  <2>2. RunTyped /\ faults' \in 0 .. MaxFaults
    BY <1>1, <1>10, <2>1, RunToType, ConnectionTypes DEF RunPost
  <2> QED
    BY <1>10, <2>1, <2>2 DEF RunPost, redis, Tx
<1>11. ASSUME RunBegin(r) PROVE TypeOK'
  <2>1. RunOK([run[r] EXCEPT !.pc = IF @ = "posted" THEN "recording" ELSE "resetting"])
    BY <1>2, <1>11 DEF RunBegin, RunState, RunOK, TxAtHand
  <2> QED
    BY <1>11, <2>1, RunToType, ConnectionTypes DEF RunBegin, Client, redis, network
<1>12. ASSUME RunRecord(r) PROVE TypeOK'
  <2>1. run[r].tx \in Ledger!Tx
    BY <1>2, <1>12 DEF RunRecord, RunState, TxAtHand, Tx
  <2>2. RecordBatch(run[r].tx) =>
          /\ queue' \subseteq Psbt
          /\ feeIndex' \in Nat
          /\ batch' \subseteq Ledger!Tx \X Psbt
          /\ record' \in [Psbt -> Ledger!Record]
    BY <2>1 DEF RecordBatch, StillQueued, Ledger!NextFeeIndex, Ledger!Members,
                Ledger!Labelled, Ledger!Record, Ledger!Tx
  <2>3. Ledger!TypeOK' /\ timers' \in {"fresh", "ready", "expired"} /\ faults' \in 0 .. MaxFaults
    BY <1>12, <2>2, ConnectionTypes
       DEF RunRecord, Aborts, Commits, ResetExpiration, redis, network
  <2> QED
    BY <1>1, <1>12, <2>3, RunToType, ConnectionTypes DEF RunRecord
<1>13. ASSUME RunReset(r) PROVE TypeOK'
  <2>1. timers' \in {"fresh", "ready", "expired"} /\ faults' \in 0 .. MaxFaults
    BY <1>13, ConnectionTypes DEF RunReset, Aborts, Commits, ResetExpiration
  <2>2. Ledger!TypeOK'
    BY <1>13 DEF RunReset, Aborts, redis, network
  <2> QED
    BY <1>1, <1>13, <2>1, <2>2, RunToType, ConnectionTypes DEF RunReset
<1> QED
  BY <1>3, <1>4, <1>5, <1>6, <1>7, <1>8, <1>9, <1>10, <1>11, <1>12, <1>13 DEF RunLocal

\* TypeOK is inductive.
LEMMA TypeStep == TypeOK /\ [Next]_vars => TypeOK'
<1> SUFFICES ASSUME TypeOK, [Next]_vars PROVE TypeOK'
  OBVIOUS
<1>1. ASSUME NEW a \in AddRequest, AddStep(a) PROVE TypeOK'
  BY <1>1, AddTypes
<1>2. ASSUME NEW v \in RevokeRequest, RevokeStep(v) PROVE TypeOK'
  BY <1>2, RevokeTypes
<1>3. ASSUME NEW r \in CronRun, RunLocal(r) \/ RunBegin(r) PROVE TypeOK'
  BY <1>3, RunTypes
<1>4. CASE TimerExpires
  <2>1. isolated' \in [holder : Client \cup {Nobody}, dirty : BOOLEAN]
    BY <1>4 DEF TimerExpires, Writing, TypeOK
  <2> QED
    BY <1>4, <2>1 DEF TimerExpires, TypeOK, Ledger!TypeOK, redis, network
<1>5. ASSUME NEW o \in Outpoint, SpendElsewhere(o) PROVE TypeOK'
  BY <1>5 DEF SpendElsewhere, TypeOK, Ledger!TypeOK, redis
<1>6. CASE Crash
  <2>1. add' \in [AddRequest -> AddState] /\ rev' \in [RevokeRequest -> RevState]
    BY <1>6 DEF Crash, TypeOK, AddState, RevState
  <2>2. run' \in [CronRun -> RunState] /\ \A r \in CronRun : TxAtHand(run'[r])
    BY <1>6 DEF Crash, Idle, RunState, TxAtHand
  <2>3. Ledger!TypeOK'
    BY <1>6 DEF Crash, TypeOK, Ledger!TypeOK, redis, network
  <2> QED
    BY <1>6, <2>1, <2>2, <2>3, ConnectionTypes DEF Crash, TypeOK
<1>7. CASE UNCHANGED vars
  BY <1>7 DEF vars, redis, network, TypeOK, Ledger!TypeOK
<1> QED
  BY <1>1, <1>2, <1>3, <1>4, <1>5, <1>6, <1>7 DEF Next

\* Requests, runs, Redis and the network stay in the states the code has for
\* them, whatever fails and in whatever order they take their steps.
THEOREM TypeCorrect == Spec => []TypeOK
<1>1. Init => TypeOK
  BY TypeInit
<1>2. TypeOK /\ [Next]_vars => TypeOK'
  BY TypeStep
<1> QED
  BY <1>1, <1>2, PTL DEF Spec

-----------------------------------------------------------------------------
(* The inductive invariant                                                  *)

\* The isolated connection is held by whoever is in a transaction.
Holding ==
  /\ \A a \in AddRequest : add[a].pc = "txn" <=> isolated.holder = a
  /\ \A v \in RevokeRequest : rev[v].pc = "txn" <=> isolated.holder = v
  /\ \A r \in CronRun : run[r].pc \in {"recording", "resetting"} <=> isolated.holder = r

\* The hash a revocation has read is still there at its EXEC.
RevocationsRead ==
  \A v \in RevokeRequest : rev[v].pc = "txn" => record[rev[v].psbt].token # NoToken

Inv == TypeOK /\ Holding /\ RevocationsRead /\ RunsTellTheTruth /\ NoPsbtLost

LEMMA InvInit == Init => Inv
<1> SUFFICES ASSUME Init PROVE Inv
  OBVIOUS
<1>1. TypeOK
  BY TypeInit
<1>2. Holding
  BY ConstantsAssumption DEF Init, Holding, Free, Idle, Client
<1>3. RevocationsRead /\ NoPsbtLost
  BY DEF Init, RevocationsRead, NoPsbtLost
<1>4. RunsTellTheTruth
  BY DEF Init, RunsTellTheTruth, Idle, Ledger!InputsOf
<1> QED
  BY <1>1, <1>2, <1>3, <1>4 DEF Inv

\* Holding is inductive: a transaction starts only on a free connection.
LEMMA HoldingStep == TypeOK /\ Holding /\ [Next]_vars => Holding'
<1> SUFFICES ASSUME TypeOK, Holding, [Next]_vars PROVE Holding'
  OBVIOUS
<1> USE ConstantsAssumption DEF Client
<1>a. /\ \A a \in AddRequest : add[a] \in AddState
      /\ \A v \in RevokeRequest : rev[v] \in RevState
      /\ \A r \in CronRun : run[r] \in RunState
      /\ DOMAIN add = AddRequest /\ DOMAIN rev = RevokeRequest /\ DOMAIN run = CronRun
      /\ isolated \in [holder : Client \cup {Nobody}, dirty : BOOLEAN]
  BY DEF TypeOK
<1>1. ASSUME NEW a \in AddRequest, AddStep(a) PROVE Holding'
  <2>1. CASE AddCheck(a) \/ AddReject(a)
    BY <1>a, <2>1 DEF AddCheck, AddReject, AddTo, AddState, Holding
  <2>2. CASE AddBegin(a)
    BY <1>a, <2>2 DEF AddBegin, Acquire, AddTo, AddState, Holding
  <2>3. CASE AddExec(a)
    <3>1. \A b \in AddRequest : add'[b].pc # "txn"
      BY <1>a, <2>3 DEF AddExec, AddTo, AddState, Holding
    <3>2. isolated'.holder = Nobody /\ rev' = rev /\ run' = run
      BY <2>3 DEF AddExec, Release, Free
    <3> QED
      BY <1>a, <2>3, <3>1, <3>2 DEF Holding, AddExec
  <2> QED
    BY <1>1, <2>1, <2>2, <2>3 DEF AddStep
<1>2. ASSUME NEW v \in RevokeRequest, RevokeStep(v) PROVE Holding'
  <2>1. CASE RevokeValidate(v) \/ RevokeReject(v) \/ RevokeNotFound(v)
    BY <1>a, <2>1 DEF RevokeValidate, RevokeReject, RevokeNotFound, RevTo, RevState, Holding
  <2>2. CASE RevokeBegin(v)
    BY <1>a, <2>2 DEF RevokeBegin, Acquire, RevTo, RevState, Holding
  <2>3. CASE RevokeExec(v)
    <3>1. \A w \in RevokeRequest : rev'[w].pc # "txn"
      BY <1>a, <2>3 DEF RevokeExec, RevTo, Deleted, RevState, Holding
    <3>2. isolated'.holder = Nobody /\ add' = add /\ run' = run
      BY <2>3 DEF RevokeExec, Release, Free
    <3> QED
      BY <1>a, <2>3, <3>1, <3>2 DEF Holding, RevokeExec
  <2> QED
    BY <1>2, <2>1, <2>2, <2>3 DEF RevokeStep
<1>3. ASSUME NEW r \in CronRun, NEW state, RunTo(r, state),
             state.pc \notin {"recording", "resetting"},
             run[r].pc \notin {"recording", "resetting"},
             isolated'.holder = isolated.holder, add' = add, rev' = rev
      PROVE  Holding'
  BY <1>a, <1>3 DEF RunTo, Holding
<1>4. ASSUME NEW r \in CronRun, RunTo(r, Idle), Release,
             run[r].pc \in {"recording", "resetting"}, add' = add, rev' = rev
      PROVE  Holding'
  BY <1>a, <1>4 DEF RunTo, Holding, Release, Free, Idle
<1>5. ASSUME NEW r \in CronRun, RunBegin(r) PROVE Holding'
  BY <1>a, <1>5 DEF RunBegin, Acquire, RunTo, RunState, Holding
<1>6. ASSUME NEW r \in CronRun, RunLocal(r) PROVE Holding'
  <2>1. CASE RunStart(r) \/ RunReadTimers(r) \/ RunThrows(r) \/ RunGiveUp(r) \/ RunPostError(r)
    BY <1>3, <1>a, <2>1 DEF RunStart, RunReadTimers, RunThrows, RunGiveUp, RunPostError, Idle, RunState
  <2>2. ASSUME NEW p \in Psbt, RunLookup(r, p) PROVE Holding'
    BY <1>3, <1>a, <2>2 DEF RunLookup, Unanswered, RunState, Idle
  <2>3. CASE RunPrune(r)
    BY <1>3, <1>a, <2>3 DEF RunPrune, Writing, AfterPrune, Idle, RunState
  <2>4. CASE RunBuild(r)
    BY <1>3, <1>a, <2>4 DEF RunBuild, Idle
  <2>5. CASE RunPost(r)
    BY <1>3, <1>a, <2>5 DEF RunPost, Idle, RunState
  <2>6. CASE RunRecord(r) \/ RunReset(r)
    BY <1>4, <2>6 DEF RunRecord, RunReset
  <2> QED
    BY <1>6, <2>1, <2>2, <2>3, <2>4, <2>5, <2>6 DEF RunLocal
<1>7. CASE TimerExpires
  BY <1>a, <1>7 DEF TimerExpires, Writing, Holding
<1>8. ASSUME NEW o \in Outpoint, SpendElsewhere(o) PROVE Holding'
  BY <1>8 DEF SpendElsewhere, Holding
<1>9. CASE Crash
  <2>1. /\ \A a \in AddRequest : add'[a].pc # "txn"
        /\ \A v \in RevokeRequest : rev'[v].pc # "txn"
        /\ \A r \in CronRun : run'[r].pc = "idle"
        /\ isolated'.holder = Nobody
    BY <1>a, <1>9 DEF Crash, Idle, Release, Free, AddState, RevState
  <2> QED
    BY <2>1 DEF Holding
<1>10. CASE UNCHANGED vars
  BY <1>10 DEF vars, Holding
<1> QED
  BY <1>1, <1>2, <1>5, <1>6, <1>7, <1>8, <1>9, <1>10 DEF Next

-----------------------------------------------------------------------------
(* What a step does to the ledger                                           *)

\* A step of a request is one operation of the ledger, or none.
LEMMA AddImplements ==
  ASSUME Inv, NEW a \in AddRequest, AddStep(a)
  PROVE  [Ledger!Next]_(Ledger!vars)
<1>1. CASE AddCheck(a) \/ AddReject(a) \/ AddBegin(a)
  BY <1>1 DEF AddCheck, AddReject, AddBegin, redis, network, Ledger!vars
<1>2. CASE AddExec(a)
  <2>1. add[a].psbt \in Psbt
    BY DEF Inv, TypeOK, AddState
  <2>2. Register(a) /\ UNCHANGED network => Ledger!Register(add[a].psbt, a)
    BY DEF Register, Ledger!Register, network
  <2>3. Register(a) /\ UNCHANGED network => Ledger!Next
    BY <2>1, <2>2 DEF Ledger!Next
  <2> QED
    BY <1>2, <2>3 DEF AddExec, Aborts, redis, network, Ledger!vars
<1> QED
  BY <1>1, <1>2 DEF AddStep

LEMMA RevokeImplements ==
  ASSUME Inv, NEW v \in RevokeRequest, RevokeStep(v)
  PROVE  [Ledger!Next]_(Ledger!vars)
<1>1. CASE RevokeValidate(v) \/ RevokeReject(v) \/ RevokeBegin(v) \/ RevokeNotFound(v)
  BY <1>1 DEF RevokeValidate, RevokeReject, RevokeBegin, RevokeNotFound, redis, network, Ledger!vars
<1>2. CASE RevokeExec(v)
  <2>1. rev[v].psbt \in Psbt /\ record[rev[v].psbt].token # NoToken
    BY <1>2 DEF Inv, TypeOK, RevState, RevocationsRead, RevokeExec
  <2>2. Unregister(v) /\ UNCHANGED network => Ledger!Revoke(rev[v].psbt)
    BY <2>1 DEF Unregister, Ledger!Revoke, Ledger!Without, network
  <2>3. Unregister(v) /\ UNCHANGED network => Ledger!Next
    BY <2>1, <2>2 DEF Ledger!Next
  <2> QED
    BY <1>2, <2>3 DEF RevokeExec, Aborts, redis, network, Ledger!vars
<1> QED
  BY <1>1, <1>2 DEF RevokeStep

LEMMA RunImplements ==
  ASSUME Inv, NEW r \in CronRun, RunLocal(r) \/ RunBegin(r)
  PROVE  [Ledger!Next]_(Ledger!vars)
<1>a. run[r] \in RunState /\ TxAtHand(run[r])
  BY DEF Inv, TypeOK
<1>1. CASE RunStart(r) \/ RunReadTimers(r) \/ RunThrows(r) \/ RunGiveUp(r) \/ RunPostError(r) \/ RunBegin(r)
  BY <1>1 DEF RunStart, RunReadTimers, RunThrows, RunGiveUp, RunPostError, RunBegin,
              redis, network, Ledger!vars
<1>2. ASSUME NEW p \in Psbt, RunLookup(r, p) PROVE [Ledger!Next]_(Ledger!vars)
  BY <1>2 DEF RunLookup, redis, network, Ledger!vars
<1>3. CASE RunPrune(r)
  <2>1. run[r].gone \in SUBSET Psbt
    BY <1>a DEF RunState
  <2>2. Ledger!DropSpent(run[r].gone)
    BY <1>3 DEF Inv, RunsTellTheTruth, RunPrune, Pruned, Ledger!DropSpent, network, Spent
  <2> QED
    BY <2>1, <2>2 DEF Ledger!Next
<1>4. CASE RunBuild(r)
  BY <1>4 DEF RunBuild, redis, network, Ledger!vars
<1>5. CASE RunPost(r)
  <2> DEFINE t == run[r].tx
  <2>1. t \in Tx /\ t.fee <= feeIndex
    BY <1>a, <1>5 DEF RunPost, RunState, TxAtHand, Inv, RunsTellTheTruth
  <2>2. CASE t \in broadcast
    BY <1>5, <2>2 DEF RunPost, redis, Ledger!vars
  <2>3. CASE Ledger!InputsOf(t.ins) \cap (Spent \cup Missing) = {}
    <3>1. Ledger!Broadcast(t)
      BY <1>5, <2>1, <2>3 DEF RunPost, Ledger!Broadcast, redis, Spent
    <3>2. /\ t.ins \in (SUBSET Psbt) \ {{}} /\ t.fee \in 0 .. feeIndex
          /\ t = [ins |-> t.ins, fee |-> t.fee]
      BY <2>1 DEF Tx, Ledger!Tx, Inv, TypeOK, Ledger!TypeOK
    <3> QED
      BY <3>1, <3>2 DEF Ledger!Next
  <2> QED
    BY <1>5, <2>2, <2>3 DEF RunPost, Acceptable
<1>6. CASE RunRecord(r)
  <2> DEFINE t == run[r].tx
  <2>1. t \in broadcast
    BY <1>6 DEF RunRecord, Inv, RunsTellTheTruth
  <2>2. RecordBatch(t) /\ UNCHANGED network => Ledger!RecordBatch(t)
    BY <2>1 DEF RecordBatch, StillQueued, Ledger!RecordBatch, network
  <2>3. RecordBatch(t) /\ UNCHANGED network => Ledger!Next
    BY <2>1, <2>2 DEF Ledger!Next
  <2> QED
    BY <1>6, <2>3 DEF RunRecord, Aborts, redis, network, Ledger!vars
<1>7. CASE RunReset(r)
  BY <1>7 DEF RunReset, Aborts, redis, network, Ledger!vars
<1> QED
  BY <1>1, <1>2, <1>3, <1>4, <1>5, <1>6, <1>7 DEF RunLocal

\* Every step of the server implements a step of the ledger or a stutter.
LEMMA StepImplements == Inv /\ [Next]_vars => [Ledger!Next]_(Ledger!vars)
<1> SUFFICES ASSUME Inv, [Next]_vars PROVE [Ledger!Next]_(Ledger!vars)
  OBVIOUS
<1>1. CASE TimerExpires \/ Crash
  BY <1>1 DEF TimerExpires, Crash, redis, network, Ledger!vars
<1>2. ASSUME NEW o \in Outpoint, SpendElsewhere(o) PROVE [Ledger!Next]_(Ledger!vars)
  <2>1. Ledger!SpendElsewhere(o)
    BY <1>2 DEF SpendElsewhere, Ledger!SpendElsewhere, redis, Spent
  <2> QED
    BY <2>1 DEF Ledger!Next
<1>3. CASE UNCHANGED vars
  BY <1>3 DEF vars, redis, network, Ledger!vars
<1> QED
  BY <1>1, <1>2, <1>3, AddImplements, RevokeImplements, RunImplements DEF Next

-----------------------------------------------------------------------------
(* The inductive step of the remaining conjuncts                            *)

\* The network forgets no transaction and no spent output, and the fee index
\* never goes back.
LEMMA Monotone ==
  ASSUME Inv, [Next]_vars
  PROVE  broadcast \subseteq broadcast' /\ Spent \subseteq Spent' /\ feeIndex <= feeIndex'
<1>1. [Ledger!Next]_(Ledger!vars)
  BY StepImplements
<1>2. feeIndex \in Nat
  BY DEF Inv, TypeOK, Ledger!TypeOK
<1>3. broadcast \subseteq broadcast' /\ external \subseteq external' /\ feeIndex <= feeIndex'
  BY <1>1, <1>2
     DEF Ledger!Next, Ledger!vars, Ledger!Register, Ledger!Revoke, Ledger!DropSpent,
         Ledger!Broadcast, Ledger!RecordBatch, Ledger!SpendElsewhere, Ledger!NextFeeIndex
<1>4. Spent \subseteq Spent'
  BY <1>3 DEF Spent, Ledger!Spent
<1> QED
  BY <1>3, <1>4

\* A run that keeps its transaction and what it found gone stays truthful.
LEMMA RunsStep == Inv /\ [Next]_vars => RunsTellTheTruth'
<1> SUFFICES ASSUME Inv, [Next]_vars, NEW r \in CronRun
             PROVE  /\ Ledger!InputsOf(run'[r].gone) \subseteq Spent'
                    /\ run'[r].pc \in {"posted", "recording"} => run'[r].tx \in broadcast'
                    /\ run'[r].tx # NoTx => run'[r].tx.fee <= feeIndex'
  BY DEF RunsTellTheTruth
<1> DEFINE Truthful(state) ==
      /\ Ledger!InputsOf(state.gone) \subseteq Spent'
      /\ state.pc \in {"posted", "recording"} => state.tx \in broadcast'
      /\ state.tx # NoTx => state.tx.fee <= feeIndex'
<1>a. /\ run[r] \in RunState /\ TxAtHand(run[r]) /\ DOMAIN run = CronRun
      /\ feeIndex \in Nat /\ feeIndex' \in Nat
  BY TypeStep DEF Inv, TypeOK, Ledger!TypeOK
<1>b. Truthful(run[r])
  BY <1>a, Monotone DEF Inv, RunsTellTheTruth, RunState, Tx, Ledger!Tx
<1>c. Truthful(Idle)
  BY DEF Idle, Ledger!InputsOf
<1>1. CASE run'[r] = run[r]
  BY <1>1, <1>b
<1>2. CASE run'[r] = Idle
  BY <1>2, <1>c
<1>3. CASE RunLocal(r) \/ RunBegin(r)
  <2>1. CASE RunStart(r) \/ RunReadTimers(r)
    <3>1. /\ run'[r].pc \notin {"posted", "recording"}
          /\ (run'[r].gone = {} /\ run'[r].tx = NoTx)
               \/ (run'[r].gone = run[r].gone /\ run'[r].tx = run[r].tx)
      <4>1. \/ run'[r] = [Idle EXCEPT !.pc = "snapped", !.todo = queue]
            \/ run'[r] = [Idle EXCEPT !.pc = "empty"]
            \/ run'[r] = Idle
            \/ run'[r] = [run[r] EXCEPT !.pc = "lookup"]
        BY <1>a, <2>1 DEF RunStart, RunReadTimers, RunTo
      <4>2. CASE run'[r] = [run[r] EXCEPT !.pc = "lookup"]
        BY <1>a, <4>2 DEF RunState
      <4>3. CASE run'[r] = [Idle EXCEPT !.pc = "snapped", !.todo = queue]
        BY <4>3 DEF Idle
      <4>4. CASE run'[r] = [Idle EXCEPT !.pc = "empty"] \/ run'[r] = Idle
        BY <4>4 DEF Idle
      <4> QED
        BY <4>1, <4>2, <4>3, <4>4
    <3>2. Ledger!InputsOf({}) = {}
      BY DEF Ledger!InputsOf
    <3> QED
      BY <1>b, <3>1, <3>2
  <2>2. ASSUME NEW p \in Psbt, RunLookup(r, p) PROVE Truthful(run'[r])
    <3>1. CASE RunTo(r, Idle)
      BY <1>a, <1>c, <3>1 DEF RunTo
    <3>2. CASE ~RunTo(r, Idle)
      <4>1. /\ run'[r].pc = "lookup" /\ run'[r].tx = run[r].tx
            /\ \/ run'[r].gone = run[r].gone
               \/ run'[r].gone = run[r].gone \cup {p} /\ Input[p] \in Spent
        <5> DEFINE looked == [run[r] EXCEPT !.todo = @ \ {p}]
        <5>1. \/ RunTo(r, [looked EXCEPT !.gone = @ \cup {p}]) /\ Input[p] \in Spent
              \/ RunTo(r, [looked EXCEPT !.unspent = @ \cup {p}])
              \/ RunTo(r, looked)
          BY <2>2, <3>2 DEF RunLookup, Unanswered
        <5>2. run[r].pc = "lookup"
          BY <2>2 DEF RunLookup
        <5> QED
          BY <1>a, <5>1, <5>2 DEF RunTo, RunState
      <4>2. Ledger!InputsOf(run'[r].gone) \subseteq Spent'
        BY <1>b, <4>1, Monotone DEF Ledger!InputsOf
      <4> QED
        BY <1>b, <4>1, <4>2
    <3> QED
      BY <3>1, <3>2
  <2>3. CASE RunPrune(r)
    BY <1>a, <1>b, <1>c, <2>3 DEF RunPrune, AfterPrune, RunTo, RunState, Ledger!InputsOf
  <2>4. CASE RunBuild(r)
    BY <1>a, <2>4 DEF RunBuild, RunTo, Idle, Ledger!InputsOf, redis
  <2>5. CASE RunPost(r)
    BY <1>a, <1>b, <1>c, <2>5 DEF RunPost, RunTo, RunState
  <2>6. CASE RunBegin(r)
    BY <1>a, <1>b, <2>6 DEF RunBegin, RunTo, RunState
  <2>7. CASE RunThrows(r) \/ RunGiveUp(r) \/ RunPostError(r) \/ RunRecord(r) \/ RunReset(r)
    BY <1>a, <1>c, <2>7 DEF RunThrows, RunGiveUp, RunPostError, RunRecord, RunReset, RunTo
  <2> QED
    BY <1>3, <2>1, <2>2, <2>3, <2>4, <2>5, <2>6, <2>7 DEF RunLocal
<1>4. run'[r] = run[r] \/ run'[r] = Idle \/ RunLocal(r) \/ RunBegin(r)
  <2>1. ASSUME NEW a \in AddRequest, AddStep(a) PROVE run' = run
    BY <2>1 DEF AddStep, AddCheck, AddReject, AddBegin, AddExec
  <2>2. ASSUME NEW v \in RevokeRequest, RevokeStep(v) PROVE run' = run
    BY <2>2 DEF RevokeStep, RevokeValidate, RevokeReject, RevokeBegin, RevokeNotFound, RevokeExec
  <2>3. ASSUME NEW c \in CronRun, RunLocal(c) \/ RunBegin(c), c # r PROVE run'[r] = run[r]
    BY <1>a, <2>3
       DEF RunLocal, RunBegin, RunStart, RunReadTimers, RunThrows, RunLookup, RunPrune, RunBuild,
           RunGiveUp, RunPost, RunPostError, RunRecord, RunReset, RunTo
  <2>4. ASSUME TimerExpires \/ (\E o \in Outpoint : SpendElsewhere(o)) \/ UNCHANGED vars
        PROVE  run' = run
    BY <2>4 DEF TimerExpires, SpendElsewhere, vars
  <2>5. CASE Crash
    BY <2>5 DEF Crash
  <2> QED
    BY <2>1, <2>2, <2>3, <2>4, <2>5 DEF Next
<1> QED
  BY <1>1, <1>2, <1>3, <1>4

\* What no step of the cron job or the environment does: open a transaction of
\* a revocation, write a token, or change an answer that was given.
LEMMA OthersKeepTokens ==
  ASSUME Inv, [Next]_vars,
         ~ \E a \in AddRequest : AddStep(a), ~ \E v \in RevokeRequest : RevokeStep(v)
  PROVE  /\ \A p \in Psbt : record'[p].token = record[p].token
         /\ \A a \in AddRequest :
              /\ add'[a].psbt = add[a].psbt
              /\ add'[a].pc # add[a].pc => add'[a].pc = "failed" /\ add[a].pc # "ok"
         /\ \A v \in RevokeRequest :
              /\ rev'[v].psbt = rev[v].psbt /\ rev'[v].deleted = rev[v].deleted
              /\ rev'[v].pc # rev[v].pc => rev'[v].pc = "failed"
<1>a. /\ DOMAIN add = AddRequest /\ DOMAIN rev = RevokeRequest
      /\ \A a \in AddRequest : add[a] \in AddState
      /\ \A v \in RevokeRequest : rev[v] \in RevState
      /\ \A p \in Psbt : record[p] \in Ledger!Record
      /\ DOMAIN record = Psbt
  BY DEF Inv, TypeOK, Ledger!TypeOK
<1>1. ASSUME NEW r \in CronRun, RunLocal(r) \/ RunBegin(r)
      PROVE  /\ add' = add /\ rev' = rev
             /\ \A p \in Psbt : record'[p].token = record[p].token
  <2>1. CASE RunRecord(r)
    BY <1>a, <2>1 DEF RunRecord, RecordBatch, Aborts, Ledger!Labelled, Ledger!Record, redis
  <2> QED
    BY <1>1, <2>1
       DEF RunLocal, RunBegin, RunStart, RunReadTimers, RunThrows, RunLookup, RunPrune, RunBuild,
           RunGiveUp, RunPost, RunPostError, RunReset, Aborts, redis
<1>2. ASSUME TimerExpires \/ (\E o \in Outpoint : SpendElsewhere(o)) \/ UNCHANGED vars
      PROVE  add' = add /\ rev' = rev /\ record' = record
  BY <1>2 DEF TimerExpires, SpendElsewhere, vars, redis
<1>3. CASE Crash
  BY <1>a, <1>3 DEF Crash, redis, AddState, RevState
<1> QED
  BY <1>1, <1>2, <1>3 DEF Next

\* The token a revocation has read stays until its EXEC, because no other
\* revocation can be in a transaction meanwhile.
LEMMA RevocationsStep == Inv /\ [Next]_vars => RevocationsRead'
<1> SUFFICES ASSUME Inv, [Next]_vars PROVE RevocationsRead'
  OBVIOUS
<1> USE DEF Inv
<1>a. /\ DOMAIN rev = RevokeRequest /\ \A v \in RevokeRequest : rev[v] \in RevState
      /\ record \in [Psbt -> Ledger!Record]
      /\ \A a \in AddRequest : add[a].psbt \in Psbt
  BY DEF TypeOK, Ledger!TypeOK, AddState
<1>1. ASSUME NEW a \in AddRequest, AddStep(a) PROVE RevocationsRead'
  <2>1. rev' = rev
    BY <1>1 DEF AddStep, AddCheck, AddReject, AddBegin, AddExec
  <2>2. \A p \in Psbt : record[p].token # NoToken => record'[p].token # NoToken
    BY <1>a, <1>1, ConstantsAssumption
       DEF AddStep, AddCheck, AddReject, AddBegin, AddExec, Register, Aborts, redis, Ledger!Record
  <2> QED
    BY <1>a, <2>1, <2>2 DEF RevocationsRead, RevState
<1>2. ASSUME NEW v \in RevokeRequest, RevokeStep(v) PROVE RevocationsRead'
  <2>1. CASE RevokeExec(v)
    <3>1. \A w \in RevokeRequest : rev'[w].pc # "txn"
      BY <1>a, <2>1, ConstantsAssumption DEF RevokeExec, RevTo, Deleted, Holding, RevState
    <3> QED
      BY <3>1 DEF RevocationsRead
  <2>2. CASE RevokeValidate(v) \/ RevokeReject(v) \/ RevokeBegin(v) \/ RevokeNotFound(v)
    BY <1>a, <2>2 DEF RevokeValidate, RevokeReject, RevokeBegin, RevokeNotFound, RevTo,
                      RevState, RevocationsRead, redis
  <2> QED
    BY <1>2, <2>1, <2>2 DEF RevokeStep
<1>3. CASE ~(\E a \in AddRequest : AddStep(a)) /\ ~(\E v \in RevokeRequest : RevokeStep(v))
  BY <1>3, <1>a, OthersKeepTokens DEF RevocationsRead, RevState
<1> QED
  BY <1>1, <1>2, <1>3

\* The cron job takes only spent PSBTs out of the queue; the environment none.
LEMMA OthersKeepUnspent ==
  ASSUME Inv, [Next]_vars,
         ~ \E a \in AddRequest : AddStep(a), ~ \E v \in RevokeRequest : RevokeStep(v),
         NEW p \in queue, p \notin queue'
  PROVE  Input[p] \in Spent
<1> USE DEF Inv
<1>1. PICK r \in CronRun : RunPrune(r) \/ RunRecord(r)
  BY DEF Next, RunLocal, RunBegin, RunStart, RunReadTimers, RunThrows, RunLookup, RunBuild,
         RunGiveUp, RunPost, RunPostError, RunReset, Aborts, TimerExpires, SpendElsewhere,
         Crash, vars, redis
<1>2. CASE RunPrune(r)
  <2>1. p \in run[r].gone
    BY <1>2 DEF RunPrune, Pruned
  <2> QED
    BY <2>1 DEF RunsTellTheTruth, Ledger!InputsOf
<1>3. CASE RunRecord(r)
  <2>1. p \in run[r].tx.ins /\ run[r].tx \in broadcast
    BY <1>3 DEF RunRecord, RecordBatch, StillQueued, Aborts, redis, RunsTellTheTruth
  <2> QED
    BY <2>1 DEF Spent, Ledger!Spent, Ledger!InputsOf
<1> QED
  BY <1>1, <1>2, <1>3

\* NoPsbtLost is inductive, given what the other conjuncts say of runs.
LEMMA NoPsbtLostStep == Inv /\ [Next]_vars => NoPsbtLost'
<1> SUFFICES ASSUME Inv, [Next]_vars, NEW a \in AddRequest, add'[a].pc = "ok"
             PROVE  \/ add'[a].psbt \in queue'
                    \/ Input[add'[a].psbt] \in Spent'
                    \/ \E v \in RevokeRequest :
                         rev'[v].psbt = add'[a].psbt /\ rev'[v].deleted
  BY DEF NoPsbtLost
<1> USE DEF Inv
<1>a. /\ add \in [AddRequest -> AddState] /\ rev \in [RevokeRequest -> RevState]
      /\ Spent \subseteq Spent'
  BY Monotone DEF TypeOK
<1>b. add[a].pc = "ok" =>
        \/ add[a].psbt \in queue
        \/ Input[add[a].psbt] \in Spent
        \/ \E v \in RevokeRequest :
             rev[v].psbt = add[a].psbt /\ rev[v].deleted
  BY DEF NoPsbtLost
<1> DEFINE Kept ==
      \/ add'[a].psbt \in queue'
      \/ Input[add'[a].psbt] \in Spent'
      \/ \E v \in RevokeRequest :
           rev'[v].psbt = add'[a].psbt /\ rev'[v].deleted
<1>1. ASSUME NEW b \in AddRequest, AddStep(b) PROVE Kept
  <2>1. /\ rev' = rev /\ queue \subseteq queue'
        /\ add'[a].psbt = add[a].psbt
        /\ add[a].pc = "ok" \/ add[a].psbt \in queue'
    BY <1>a, <1>1 DEF AddStep, AddCheck, AddReject, AddBegin, AddExec, AddTo, Register, Aborts,
                      AddState, redis
  <2> QED
    BY <1>a, <1>b, <2>1
<1>2. ASSUME NEW v \in RevokeRequest, RevokeStep(v) PROVE Kept
  <2>1. add' = add
    BY <1>2 DEF RevokeStep, RevokeValidate, RevokeReject, RevokeBegin, RevokeNotFound, RevokeExec
  <2>2. /\ rev'[v].psbt = rev[v].psbt
        /\ rev[v].deleted => rev'[v].deleted
        /\ \A w \in RevokeRequest \ {v} : rev'[w] = rev[w]
        /\ queue' = queue \/ (queue' = queue \ {rev[v].psbt} /\ rev'[v].deleted)
    BY <1>a, <1>2 DEF RevokeStep, RevokeValidate, RevokeReject, RevokeBegin, RevokeNotFound,
                      RevokeExec, RevTo, Deleted, Unregister, Aborts, RevState, redis
  <2> QED
    BY <1>a, <1>b, <2>1, <2>2
<1>3. CASE ~(\E b \in AddRequest : AddStep(b)) /\ ~(\E v \in RevokeRequest : RevokeStep(v))
  <2>1. add[a].pc = "ok" /\ add'[a].psbt = add[a].psbt
    BY <1>3, OthersKeepTokens
  <2>2. add[a].psbt \in queue => add[a].psbt \in queue' \/ Input[add[a].psbt] \in Spent
    BY <1>3, OthersKeepUnspent
  <2>3. \A v \in RevokeRequest :
          rev'[v].deleted = rev[v].deleted /\ rev'[v].psbt = rev[v].psbt
    BY <1>3, OthersKeepTokens
  <2> QED
    BY <1>a, <1>b, <2>1, <2>2, <2>3
<1> QED
  BY <1>1, <1>2, <1>3

\* Inv is inductive.
LEMMA InvStep == Inv /\ [Next]_vars => Inv'
BY TypeStep, HoldingStep, RevocationsStep, RunsStep, NoPsbtLostStep DEF Inv

\* The state invariant of the server.
THEOREM ServerInvariant == Spec => []Inv
<1>1. Init => Inv
  BY InvInit
<1>2. Inv /\ [Next]_vars => Inv'
  BY InvStep
<1> QED
  BY <1>1, <1>2, PTL DEF Spec

-----------------------------------------------------------------------------

\* The pool of one isolated connection serialises the transactions.
THEOREM TransactionsExclusive == Spec => []ConnectionExclusive
<1>1. Inv => ConnectionExclusive
  <2> SUFFICES ASSUME Inv PROVE InTransaction = {isolated.holder} \ {Nobody}
    BY DEF ConnectionExclusive
  <2>1. isolated.holder \in Client \cup {Nobody}
    BY DEF Inv, TypeOK
  <2> QED
    BY <2>1, ConstantsAssumption DEF Inv, Holding, InTransaction, Client
<1> QED
  BY <1>1, ServerInvariant, PTL

\* A PSBT whose add was acknowledged leaves the queue only when its input is
\* spent or a revocation took it.
THEOREM AcknowledgedIsKept == Spec => []NoPsbtLost
<1>1. Inv => NoPsbtLost
  BY DEF Inv
<1> QED
  BY <1>1, ServerInvariant, PTL

\* What runs remove is spent, what they record is broadcast.
THEOREM RunsAreTruthful == Spec => []RunsTellTheTruth
<1>1. Inv => RunsTellTheTruth
  BY DEF Inv
<1> QED
  BY <1>1, ServerInvariant, PTL

\* The server implements the ledger: whatever requests, cron runs, timers and
\* crashes do in between, Redis and the network change by its operations only.
THEOREM Refinement == Spec => ImplementsLedger
<1>1. Init => Ledger!Init
  BY DEF Init
<1>2. Inv /\ [Next]_vars => [Ledger!Next]_(Ledger!vars)
  BY StepImplements
<1> QED
  BY <1>1, <1>2, ServerInvariant, PTL DEF Spec, ImplementsLedger, Ledger!Spec

-----------------------------------------------------------------------------
(* What the ledger promises, the server keeps.                             *)

LedgerProofs == INSTANCE PsbtLedgerProofs WITH Token <- AddRequest

\* The ledger that GroupHug implements is the one PsbtLedgerProofs is about.
LEMMA SameLedger ==
  /\ Ledger!Init => LedgerProofs!Init
  /\ [Ledger!Next]_(Ledger!vars) => [LedgerProofs!Next]_(LedgerProofs!vars)
<1>1. Ledger!Init => LedgerProofs!Init
  BY DEF LedgerProofs!Init, Ledger!Init, LedgerProofs!Absent, Ledger!Absent
<1>2. ASSUME NEW p \in Psbt
      PROVE  /\ \A k \in AddRequest : Ledger!Register(p, k) => LedgerProofs!Register(p, k)
             /\ Ledger!Revoke(p) => LedgerProofs!Revoke(p)
  BY DEF LedgerProofs!Register, Ledger!Register, LedgerProofs!Revoke, Ledger!Revoke,
         LedgerProofs!Absent, Ledger!Absent, LedgerProofs!Without, Ledger!Without
<1>3. ASSUME NEW S \in SUBSET Psbt, Ledger!DropSpent(S) PROVE LedgerProofs!DropSpent(S)
  BY <1>3 DEF LedgerProofs!DropSpent, Ledger!DropSpent, LedgerProofs!Spent, Ledger!Spent,
              LedgerProofs!InputsOf, Ledger!InputsOf
<1>4. ASSUME NEW t, Ledger!Broadcast(t) PROVE LedgerProofs!Broadcast(t)
  BY <1>4 DEF LedgerProofs!Broadcast, Ledger!Broadcast, LedgerProofs!Spent, Ledger!Spent,
              LedgerProofs!InputsOf, Ledger!InputsOf
<1>5. ASSUME NEW t \in broadcast, Ledger!RecordBatch(t) PROVE LedgerProofs!RecordBatch(t)
  BY <1>5 DEF LedgerProofs!RecordBatch, Ledger!RecordBatch, LedgerProofs!NextFeeIndex,
              Ledger!NextFeeIndex, LedgerProofs!Members, Ledger!Members,
              LedgerProofs!Labelled, Ledger!Labelled
<1>6. ASSUME NEW o \in Outpoint, Ledger!SpendElsewhere(o) PROVE LedgerProofs!SpendElsewhere(o)
  BY <1>6 DEF LedgerProofs!SpendElsewhere, Ledger!SpendElsewhere, LedgerProofs!Spent,
              Ledger!Spent, LedgerProofs!InputsOf, Ledger!InputsOf
<1>7. Ledger!Next => LedgerProofs!Next
  BY <1>2, <1>3, <1>4, <1>5, <1>6 DEF LedgerProofs!Next, Ledger!Next
<1> QED
  BY <1>1, <1>7 DEF LedgerProofs!vars, Ledger!vars

LEMMA LedgerAssumption ==
  /\ Input \in [Psbt -> Outpoint]
  /\ NoToken \notin AddRequest
  /\ NoTx \notin LedgerProofs!Tx
BY ConstantsAssumption DEF Tx, Ledger!Tx, LedgerProofs!Tx

LEMMA ServerIsLedger == Spec => LedgerProofs!Spec
BY Refinement, SameLedger, PTL DEF ImplementsLedger, Ledger!Spec, LedgerProofs!Spec

LEMMA SamePromises ==
  LedgerProofs!Inv /\ LedgerProofs!StatusTellsTruth =>
    /\ Ledger!QueuedIsRevocable /\ Ledger!StatusTellsTruth
    /\ Ledger!RecordedFeeRetired /\ Ledger!BatchedOnce
<1>1. LedgerProofs!QueuedIsRevocable => Ledger!QueuedIsRevocable
  BY DEF LedgerProofs!QueuedIsRevocable, Ledger!QueuedIsRevocable
<1>2. LedgerProofs!RecordedFeeRetired => Ledger!RecordedFeeRetired
  BY DEF LedgerProofs!RecordedFeeRetired, Ledger!RecordedFeeRetired,
         LedgerProofs!Batched, Ledger!Batched
<1>3. LedgerProofs!BatchedOnce => Ledger!BatchedOnce
  BY DEF LedgerProofs!BatchedOnce, Ledger!BatchedOnce
<1>4. LedgerProofs!StatusTellsTruth => Ledger!StatusTellsTruth
  BY DEF LedgerProofs!StatusTellsTruth, Ledger!StatusTellsTruth,
         LedgerProofs!Batched, Ledger!Batched
<1> QED
  BY <1>1, <1>2, <1>3, <1>4 DEF LedgerProofs!Inv

\* With all the interleavings, aborted transactions and crashes of the server: a queued
\* PSBT can be revoked, a reported status is true, the fee address of a recorded batch
\* is not used again, and no two transactions of the network share a PSBT.
THEOREM ServerKeepsPromises ==
  Spec => [](/\ Ledger!QueuedIsRevocable /\ Ledger!StatusTellsTruth
             /\ Ledger!RecordedFeeRetired /\ Ledger!BatchedOnce)
<1>1. LedgerProofs!Spec => []LedgerProofs!Inv
  BY LedgerAssumption, LedgerProofs!LedgerInvariant
<1>2. LedgerProofs!Spec => []LedgerProofs!StatusTellsTruth
  BY LedgerAssumption, LedgerProofs!StatusIsTrue
<1> QED
  BY <1>1, <1>2, ServerIsLedger, SamePromises, PTL

\* Whatever runs overlap, a PSBT the server has reported as batched is never reported in
\* another transaction.
THEOREM ServerStatusStable == Spec => Ledger!StatusStable
<1>1. LedgerProofs!Spec => LedgerProofs!StatusStable
  BY LedgerAssumption, LedgerProofs!StatusNeverChanges
<1>2. LedgerProofs!StatusStable => Ledger!StatusStable
  <2>1. [\A p \in Psbt : record[p].txId # NoTx =>
           record'[p].txId \in {record[p].txId, NoTx}]_(LedgerProofs!vars)
        => [\A p \in Psbt : record[p].txId # NoTx =>
              record'[p].txId \in {record[p].txId, NoTx}]_(Ledger!vars)
    BY DEF LedgerProofs!vars, Ledger!vars
  <2> QED
    BY <2>1, PTL DEF Ledger!StatusStable, LedgerProofs!StatusStable
<1> QED
  BY <1>1, <1>2, ServerIsLedger, PTL

-----------------------------------------------------------------------------
(* A run has no more steps of its own than its snapshot of the queue allows. *)

RunLeft(state) ==
  CASE state.pc = "idle"                       -> 0
    [] state.pc = "snapped"                    -> Cardinality(state.todo) + 6
    [] state.pc = "lookup"                     -> Cardinality(state.todo) + 5
    [] state.pc = "build"                      -> 4
    [] state.pc = "post"                       -> 3
    [] state.pc \in {"posted", "empty"}        -> 2
    [] state.pc \in {"recording", "resetting"} -> 1

\* Whatever happens, a run that has begun waits or gets nearer to its end
\* (batchTransactions, batchBucket).
RunsGetOn ==
  [][\A r \in CronRun :
       run[r].pc # "idle" /\ run'[r] # run[r] => RunLeft(run'[r]) < RunLeft(run[r])]_vars

\* Users come one by one, so there is always a last PSBT to look up.
QueueFinite == IsFiniteSet(queue) /\ \A r \in CronRun : IsFiniteSet(run[r].todo)

LEMMA LeftOf ==
  ASSUME NEW state \in RunState, IsFiniteSet(state.todo)
  PROVE  /\ Cardinality(state.todo) \in Nat
         /\ RunLeft(state) \in Nat /\ (state.pc # "idle" => RunLeft(state) > 0)
         /\ RunLeft(Idle) = 0
<1>1. Cardinality(state.todo) \in Nat
  BY FS_CardinalityType
<1> QED
  BY <1>1 DEF RunState, RunLeft, Idle

\* A run's step: what becomes of its snapshot, and how much is left of it.
LEMMA OwnStep ==
  ASSUME TypeOK, QueueFinite, NEW r \in CronRun, RunLocal(r) \/ RunBegin(r)
  PROVE  /\ run' = [run EXCEPT ![r] = run'[r]]
         /\ IsFiniteSet(run'[r].todo) /\ queue' \subseteq queue
         /\ run[r].pc # "idle" => RunLeft(run'[r]) < RunLeft(run[r])
<1> DEFINE Goal(s) == /\ run' = [run EXCEPT ![r] = s] /\ run'[r] = s
                      /\ IsFiniteSet(s.todo) /\ queue' \subseteq queue
                      /\ run[r].pc # "idle" => RunLeft(s) < RunLeft(run[r])
<1>1. /\ run \in [CronRun -> RunState] /\ run[r] \in RunState /\ IsFiniteSet(run[r].todo)
      /\ IsFiniteSet(queue) /\ Cardinality(run[r].todo) \in Nat
      /\ run[r].pc # "idle" => RunLeft(run[r]) > 0
  BY LeftOf DEF TypeOK, QueueFinite
<1>2. \A s : RunTo(r, s) => run' = [run EXCEPT ![r] = s] /\ run'[r] = s
  BY <1>1 DEF RunTo
<1>3. IsFiniteSet({}) /\ RunLeft(Idle) = 0 /\ Idle.todo = {}
  BY <1>1, LeftOf, FS_EmptySet DEF Idle
<1>4. ASSUME RunTo(r, Idle), queue' \subseteq queue PROVE Goal(Idle)
  BY <1>1, <1>2, <1>3, <1>4
<1>5. CASE RunStart(r)
  <2>1. Goal([Idle EXCEPT !.pc = "snapped", !.todo = queue])
    BY <1>1, <1>2, <1>5 DEF RunStart, redis, Idle
  <2> QED
    BY <2>1
<1>6. CASE RunReadTimers(r)
  <2>1. run[r].pc = "snapped" /\ queue' = queue
    BY <1>6 DEF RunReadTimers, redis
  <2>2. CASE RunTo(r, [Idle EXCEPT !.pc = "empty"])
    <3>1. Goal([Idle EXCEPT !.pc = "empty"])
      <4>1. [Idle EXCEPT !.pc = "empty"].todo = {} /\ RunLeft([Idle EXCEPT !.pc = "empty"]) = 2
        BY DEF RunLeft, Idle
      <4>2. RunLeft(run[r]) = Cardinality(run[r].todo) + 6
        BY <2>1 DEF RunLeft
      <4> QED
        BY <1>1, <1>2, <1>3, <2>1, <2>2, <4>1, <4>2
    <3> QED
      BY <3>1
  <2>3. CASE RunTo(r, [run[r] EXCEPT !.pc = "lookup"])
    <3>1. Goal([run[r] EXCEPT !.pc = "lookup"])
      BY <1>1, <1>2, <2>1, <2>3 DEF RunLeft, RunState
    <3> QED
      BY <3>1
  <2>4. CASE RunTo(r, Idle)
    BY <1>4, <2>1, <2>4
  <2> QED
    BY <1>6, <2>2, <2>3, <2>4 DEF RunReadTimers
<1>7. CASE RunThrows(r) \/ RunGiveUp(r) \/ RunPostError(r)
  <2>1. RunTo(r, Idle) /\ queue' = queue
    BY <1>7 DEF RunThrows, RunGiveUp, RunPostError, redis
  <2> QED
    BY <1>4, <2>1
<1>8. ASSUME NEW p \in Psbt, RunLookup(r, p)
      PROVE  \E s : Goal(s)
  <2>1. run[r].pc = "lookup" /\ p \in run[r].todo /\ queue' = queue
    BY <1>8 DEF RunLookup, redis
  <2>a. CASE RunTo(r, Idle)
    BY <1>4, <2>1, <2>a
  <2>b. SUFFICES ASSUME ~RunTo(r, Idle) PROVE \E s : Goal(s)
    BY <2>a
  <2>2. PICK s \in RunState : RunTo(r, s) /\ s.pc = "lookup" /\ s.todo = run[r].todo \ {p}
    <3> DEFINE looked == [run[r] EXCEPT !.todo = @ \ {p}]
    <3>1. looked \in RunState /\ looked.pc = "lookup" /\ looked.todo = run[r].todo \ {p}
      BY <1>1, <2>1 DEF RunState
    <3>2. /\ [looked EXCEPT !.gone = @ \cup {p}] \in RunState
          /\ [looked EXCEPT !.unspent = @ \cup {p}] \in RunState
      BY <3>1 DEF RunState
    <3>3. \/ RunTo(r, [looked EXCEPT !.gone = @ \cup {p}])
          \/ RunTo(r, [looked EXCEPT !.unspent = @ \cup {p}])
          \/ RunTo(r, looked)
      BY <1>8, <2>b DEF RunLookup, Unanswered
    <3> HIDE DEF looked
    <3> QED
      BY <3>1, <3>2, <3>3 DEF RunState
  <2>3. IsFiniteSet(s.todo) /\ Cardinality(s.todo) = Cardinality(run[r].todo) - 1
    BY <1>1, <2>1, <2>2, FS_RemoveElement
  <2>4. RunLeft(s) < RunLeft(run[r])
    BY <1>1, <2>1, <2>2, <2>3 DEF RunLeft
  <2> QED
    BY <1>2, <2>1, <2>2, <2>3, <2>4
<1>9. CASE RunPrune(r)
  <2>1. run[r].pc = "lookup" /\ queue' \subseteq queue
    BY <1>9 DEF RunPrune, Pruned
  <2>2. CASE RunTo(r, Idle)
    BY <1>4, <2>1, <2>2
  <2>3. CASE RunTo(r, [run[r] EXCEPT !.pc = "build", !.gone = {}])
    <3>1. Goal([run[r] EXCEPT !.pc = "build", !.gone = {}])
      BY <1>1, <1>2, <2>1, <2>3 DEF RunLeft, RunState
    <3> QED
      BY <3>1
  <2> QED
    BY <1>9, <2>2, <2>3 DEF RunPrune, AfterPrune
<1>10. CASE RunBuild(r)
  <2>1. run[r].pc = "build" /\ queue' = queue
    BY <1>10 DEF RunBuild, redis
  <2>2. PICK S : RunTo(r, [Idle EXCEPT !.pc = "post", !.tx = [ins |-> S, fee |-> feeIndex]])
    BY <1>10 DEF RunBuild
  <2>3. Goal([Idle EXCEPT !.pc = "post", !.tx = [ins |-> S, fee |-> feeIndex]])
    BY <1>2, <1>3, <2>1, <2>2 DEF RunLeft, Idle
  <2> QED
    BY <2>3
<1>11. CASE RunPost(r)
  <2>1. run[r].pc = "post" /\ queue' = queue
    BY <1>11 DEF RunPost, redis
  <2>2. CASE RunTo(r, Idle)
    BY <1>4, <2>1, <2>2
  <2>3. CASE RunTo(r, [run[r] EXCEPT !.pc = "posted"])
    <3>1. Goal([run[r] EXCEPT !.pc = "posted"])
      BY <1>1, <1>2, <2>1, <2>3 DEF RunLeft, RunState
    <3> QED
      BY <3>1
  <2> QED
    BY <1>11, <2>2, <2>3 DEF RunPost
<1>12. CASE RunBegin(r)
  <2>1. Goal([run[r] EXCEPT !.pc = IF @ = "posted" THEN "recording" ELSE "resetting"])
    BY <1>1, <1>2, <1>12 DEF RunBegin, RunLeft, RunState, redis
  <2> QED
    BY <2>1
<1>13. CASE RunRecord(r) \/ RunReset(r)
  <2>1. RunTo(r, Idle) /\ queue' \subseteq queue
    BY <1>13 DEF RunRecord, RunReset, RecordBatch, StillQueued, Aborts, redis
  <2> QED
    BY <1>4, <2>1
<1> QED
  BY <1>5, <1>6, <1>7, <1>8, <1>9, <1>10, <1>11, <1>12, <1>13 DEF RunLocal

\* What the others do to the queue and to the runs.
LEMMA OtherSteps ==
  ASSUME TypeOK, QueueFinite, [Next]_vars
  PROVE  \/ \E r \in CronRun : RunLocal(r) \/ RunBegin(r)
         \/ IsFiniteSet(queue') /\ (run' = run \/ run' = [r \in CronRun |-> Idle])
<1>1. ASSUME NEW a \in AddRequest, AddStep(a) PROVE IsFiniteSet(queue') /\ run' = run
  <2>1. run' = run /\ (queue' = queue \/ queue' = queue \cup {add[a].psbt})
    BY <1>1 DEF AddStep, AddCheck, AddReject, AddBegin, AddExec, Register, Aborts, redis
  <2> QED
    BY <2>1, FS_AddElement DEF QueueFinite
<1>2. ASSUME NEW v \in RevokeRequest, RevokeStep(v) PROVE IsFiniteSet(queue') /\ run' = run
  <2>1. run' = run /\ queue' \subseteq queue
    BY <1>2 DEF RevokeStep, RevokeValidate, RevokeReject, RevokeBegin, RevokeNotFound,
                RevokeExec, Unregister, Aborts, redis
  <2> QED
    BY <2>1, FS_Subset DEF QueueFinite
<1>3. CASE TimerExpires \/ (\E o \in Outpoint : SpendElsewhere(o)) \/ UNCHANGED vars
  BY <1>3 DEF TimerExpires, SpendElsewhere, vars, redis, QueueFinite
<1>4. CASE Crash
  BY <1>4 DEF Crash, redis, QueueFinite
<1> QED
  BY <1>1, <1>2, <1>3, <1>4 DEF Next

LEMMA FiniteStep ==
  ASSUME TypeOK, QueueFinite, [Next]_vars
  PROVE  /\ QueueFinite'
         /\ \A r \in CronRun :
              run[r].pc # "idle" /\ run'[r] # run[r] => RunLeft(run'[r]) < RunLeft(run[r])
<1>1. ASSUME NEW q \in CronRun, RunLocal(q) \/ RunBegin(q)
      PROVE  /\ QueueFinite'
             /\ \A r \in CronRun :
                  run[r].pc # "idle" /\ run'[r] # run[r] => RunLeft(run'[r]) < RunLeft(run[r])
  <2>1. /\ run' = [run EXCEPT ![q] = run'[q]]
        /\ IsFiniteSet(run'[q].todo) /\ queue' \subseteq queue
        /\ run[q].pc # "idle" => RunLeft(run'[q]) < RunLeft(run[q])
    BY <1>1, OwnStep
  <2>2. \A r \in CronRun : r # q => run'[r] = run[r]
    BY <2>1 DEF TypeOK
  <2>3. IsFiniteSet(queue')
    BY <2>1, FS_Subset DEF QueueFinite
  <2> QED
    BY <2>1, <2>2, <2>3 DEF QueueFinite
<1>2. CASE IsFiniteSet(queue') /\ run' = run
  BY <1>2 DEF QueueFinite
<1>3. CASE IsFiniteSet(queue') /\ run' = [r \in CronRun |-> Idle]
  <2>1. \A r \in CronRun : run'[r] = Idle /\ IsFiniteSet(Idle.todo)
    BY <1>3, FS_EmptySet DEF Idle
  <2>2. \A r \in CronRun : run[r].pc # "idle" => RunLeft(run[r]) > 0 /\ RunLeft(Idle) = 0
    BY LeftOf DEF TypeOK, QueueFinite
  <2>3. \A r \in CronRun : run[r].pc # "idle" => RunLeft(Idle) < RunLeft(run[r])
    BY <2>2, LeftOf DEF TypeOK, QueueFinite
  <2> QED
    BY <1>3, <2>1, <2>3 DEF QueueFinite
<1> QED
  BY <1>1, <1>2, <1>3, OtherSteps

\* A cron run that found n PSBTs queued is over after at most n + 6 more steps of its own,
\* whatever else is added, revoked, spent, recorded or lost meanwhile.
THEOREM RunsAreBounded == Spec => RunsGetOn
<1>1. Init => QueueFinite
  <2> SUFFICES ASSUME Init PROVE QueueFinite
    OBVIOUS
  <2>1. queue = {} /\ \A r \in CronRun : run[r].todo = {}
    BY DEF Init, Ledger!Init, Idle
  <2> QED
    BY <2>1, FS_EmptySet DEF QueueFinite
<1>2. TypeOK /\ QueueFinite /\ [Next]_vars => QueueFinite'
  BY FiniteStep
<1>3. TypeOK /\ QueueFinite /\ [Next]_vars =>
        [\A r \in CronRun : run[r].pc # "idle" /\ run'[r] # run[r] =>
           RunLeft(run'[r]) < RunLeft(run[r])]_vars
  BY FiniteStep
<1> QED
  BY <1>1, <1>2, <1>3, TypeCorrect, PTL DEF Spec, RunsGetOn
=============================================================================
