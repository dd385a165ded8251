------------------------------ MODULE GroupHug ------------------------------
(***************************************************************************)
(* The groupHug server around its Redis database: the HTTP requests that   *)
(* add and revoke PSBTs, and the cron job that batches the queue into one  *)
(* transaction, interleaved at the awaits of the code.  A cron run may     *)
(* start while an earlier one is still waiting for the block explorer.     *)
(*                                                                         *)
(* db.transaction runs on a pool of one isolated connection, so at most    *)
(* one transaction is open; EXEC aborts when a WATCHed key was written     *)
(* meanwhile, which only the cron job's plain SREM and the expiry of the   *)
(* bucket keys can do.                                                     *)
(***************************************************************************)
EXTENDS Naturals, FiniteSets

CONSTANTS
  Psbt, Outpoint,
  Input,          \* the outpoint each PSBT spends
  CoSigned,       \* PSBTs every request for which carries an index: the hot
                  \* wallet signs too
  Siblings,       \* outpoints whose address holds another, unspent, output
                  \* of the same funding transaction
  Missing,        \* outpoints whose funding transaction has no such output
  AddRequest, RevokeRequest,    \* one element per HTTP request
  CronRun,        \* the cron runs that may be active at the same time
  NoToken, NoTx, Nobody,
  MaxFaults       \* bound on crashes, failed lookups and lost answers

VARIABLES
  queue, record, batch, feeIndex,     \* Redis, as in PsbtLedger
  broadcast, external,                \* the Bitcoin network
  timers,     \* which of the keys TIME_THRESHOLD and EXPIRATION still exist
  isolated,   \* the isolated connection: who uses it, did a WATCHed key change
  add,        \* state of each add request
  rev,        \* state of each revoke request
  run,        \* state of each cron run
  faults      \* faults so far

redis   == <<queue, record, batch, feeIndex>>
network == <<broadcast, external>>
vars    == <<redis, network, timers, isolated, add, rev, run, faults>>

\* The token of a PSBT is named after the request that drew it (randomUUID).
Ledger == INSTANCE PsbtLedger WITH Token <- AddRequest

Tx    == Ledger!Tx
Spent == Ledger!Spent

-----------------------------------------------------------------------------

Client == AddRequest \cup RevokeRequest \cup CronRun

AddState == [pc : {"new", "checked", "txn", "ok", "failed"}, psbt : Psbt]

\* "deleted" is kept for the properties only: EXEC took effect, whatever the
\* client was told.
RevState ==
  [pc : {"new", "validated", "txn", "ok", "failed"}, psbt : Psbt, deleted : BOOLEAN]

RunState ==
  [pc : {"idle", "snapped", "lookup", "build", "post",
         "posted", "recording", "empty", "resetting"},
   todo : SUBSET Psbt,       \* snapshot of the queue, not looked up yet
   unspent : SUBSET Psbt,
   gone : SUBSET Psbt,       \* input found spent
   tx : Tx \cup {NoTx}]      \* the final transaction

Idle == [pc |-> "idle", todo |-> {}, unspent |-> {}, gone |-> {}, tx |-> NoTx]

Free == [holder |-> Nobody, dirty |-> FALSE]

ASSUME ConstantsAssumption ==
  /\ Psbt # {}
  /\ Input \in [Psbt -> Outpoint]
  /\ CoSigned \subseteq Psbt
  /\ Siblings \subseteq Outpoint
  /\ Missing \subseteq Outpoint
  /\ NoToken \notin AddRequest
  /\ NoTx \notin Tx
  /\ Nobody \notin Client
  /\ AddRequest \cap RevokeRequest = {}
  /\ AddRequest \cap CronRun = {}
  /\ RevokeRequest \cap CronRun = {}
  /\ MaxFaults \in Nat

Init ==
  /\ Ledger!Init
  /\ timers = "expired"             \* a fresh database has no bucket keys
  /\ isolated = Free
  /\ add \in [AddRequest -> [pc : {"new"}, psbt : Psbt]]
  /\ rev \in [RevokeRequest -> [pc : {"new"}, psbt : Psbt, deleted : {FALSE}]]
  /\ run = [r \in CronRun |-> Idle]
  /\ faults = 0

-----------------------------------------------------------------------------
(* db.transaction: take the isolated connection, WATCH, EXEC, give it back. *)

\* Mutant: a pool of several connections.
AcquireUnguarded(c) == isolated' = [holder |-> c, dirty |-> FALSE]

Acquire(c) ==
  /\ isolated.holder = Nobody
  /\ isolated' = [holder |-> c, dirty |-> FALSE]

\* Mutant: not given back when a WATCHed key changed.
ReleaseUnlessDirty == isolated' = IF isolated.dirty THEN isolated ELSE Free
Release == isolated' = Free

Fault == faults < MaxFaults /\ faults' = faults + 1

\* EXEC takes effect unless a WATCHed key changed; the connection may also be
\* lost before it, and after it, when the answer is ok: false ("transaction
\* aborted") although the effect is there.
Commits    == ~isolated.dirty /\ UNCHANGED faults
AnswerLost == ~isolated.dirty /\ Fault
Aborts     == UNCHANGED redis /\ ((isolated.dirty /\ UNCHANGED faults) \/ Fault)

\* Every transaction but the one of an empty queue WATCHes the queue, and
\* those of the cron job WATCH the bucket keys.
Writing(c, written) ==
  isolated' = [isolated EXCEPT !.dirty = @ \/ (isolated.holder \in c /\ written)]

QueueWatchers  == AddRequest \cup RevokeRequest \cup {r \in CronRun : run[r].pc = "recording"}
TimersWatchers == CronRun

-----------------------------------------------------------------------------
(* POST /v1/addPSBT: addPSBTController, addPSBTToQueue, registerPSBTWithClient *)

AddTo(a, pc) == add' = [add EXCEPT ![a].pc = pc]

\* The funding transaction is confirmed, and neither the PSBT nor another one
\* with its input is in the queue just read.
AddCheck(a) ==
  /\ add[a].pc = "new"
  /\ Input[add[a].psbt] \notin Ledger!InputsOf(queue)
  /\ AddTo(a, "checked")
  /\ UNCHANGED <<redis, network, timers, isolated, rev, run, faults>>

\* The same conditions fail, or the explorer has no confirmed funding
\* transaction: BAD_REQUEST.
AddReject(a) ==
  /\ add[a].pc = "new"
  /\ AddTo(a, "failed")
  /\ UNCHANGED <<redis, network, timers, isolated, rev, run, faults>>

AddBegin(a) ==
  /\ add[a].pc = "checked"
  /\ Acquire(a)
  /\ AddTo(a, "txn")
  /\ UNCHANGED <<redis, network, timers, rev, run, faults>>

Register(a) == LET p == add[a].psbt IN
  /\ queue' = queue \cup {p}
  /\ record' = [record EXCEPT ![p].token = a]
  /\ UNCHANGED <<batch, feeIndex>>

AddExec(a) ==
  /\ add[a].pc = "txn"
  /\ \/ Register(a) /\ Commits /\ AddTo(a, "ok")
     \/ Register(a) /\ AnswerLost /\ AddTo(a, "failed")
     \/ Aborts /\ AddTo(a, "failed")
  /\ Release
  /\ UNCHANGED <<network, timers, rev, run>>

-----------------------------------------------------------------------------
(* POST /v1/revokePSBT: validateRevokePSBT, revokePSBTController           *)

RevTo(v, pc) == rev' = [rev EXCEPT ![v].pc = pc]

\* The request carries the token the hash holds now.
RevokeValidate(v) ==
  /\ rev[v].pc = "new"
  /\ record[rev[v].psbt].token # NoToken
  /\ RevTo(v, "validated")
  /\ UNCHANGED <<redis, network, timers, isolated, add, run, faults>>

\* It carries another one, or there is no hash: BAD_REQUEST.
RevokeReject(v) ==
  /\ rev[v].pc = "new"
  /\ RevTo(v, "failed")
  /\ UNCHANGED <<redis, network, timers, isolated, add, run, faults>>

RevokeBegin(v) ==
  /\ rev[v].pc = "validated"
  /\ record[rev[v].psbt].token # NoToken
  /\ Acquire(v)
  /\ RevTo(v, "txn")
  /\ UNCHANGED <<redis, network, timers, add, run, faults>>

\* HGET finds no psbt: the transaction function throws NOT_FOUND.
RevokeNotFound(v) ==
  /\ rev[v].pc = "validated"
  /\ record[rev[v].psbt].token = NoToken
  /\ isolated.holder = Nobody
  /\ RevTo(v, "failed")
  /\ UNCHANGED <<redis, network, timers, isolated, add, run, faults>>

Deleted(v, pc) == rev' = [rev EXCEPT ![v].pc = pc, ![v].deleted = TRUE]

Unregister(v) == LET p == rev[v].psbt IN
  /\ queue' = queue \ {p}
  /\ record' = [record EXCEPT ![p] = Ledger!Absent]
  /\ UNCHANGED <<batch, feeIndex>>

RevokeExec(v) ==
  /\ rev[v].pc = "txn"
  /\ \/ Unregister(v) /\ Commits /\ Deleted(v, "ok")
     \/ Unregister(v) /\ AnswerLost /\ Deleted(v, "failed")
     \/ Aborts /\ RevTo(v, "failed")
  /\ Release
  /\ UNCHANGED <<network, timers, add, run>>

-----------------------------------------------------------------------------
(* The cron job: batchTransactions and batchBucket                          *)

RunTo(r, state) == run' = [run EXCEPT ![r] = state]

\* A fee rate is known (without one the run ends at once); SMEMBERS of the queue.
RunStart(r) ==
  /\ run[r].pc = "idle"
  /\ RunTo(r, [Idle EXCEPT !.pc = "snapped", !.todo = queue])
  /\ UNCHANGED <<redis, network, timers, isolated, add, rev, faults>>

\* EXISTS of the two bucket keys, back to back: the later one to expire is read
\* first, so both answers fit the state at one of the two reads. An empty snapshot only resets them; while
\* both exist the bucket is not ready.
RunReadTimers(r) ==
  /\ run[r].pc = "snapped"
  /\ \/ run[r].todo = {} /\ RunTo(r, [Idle EXCEPT !.pc = "empty"])
     \/ run[r].todo # {} /\ timers = "fresh" /\ RunTo(r, Idle)
     \/ run[r].todo # {} /\ timers # "fresh" /\ RunTo(r, [run[r] EXCEPT !.pc = "lookup"])
  /\ UNCHANGED <<redis, network, timers, isolated, add, rev, faults>>

\* A Redis call of the job is rejected: logJobExecution catches it.
RunThrows(r) ==
  /\ run[r].pc \in {"snapped", "lookup"}
  /\ RunTo(r, Idle)
  /\ Fault
  /\ UNCHANGED <<redis, network, timers, isolated, add, rev>>

\* Neither deleted nor batched: inputIsUnspent is undefined. Mutant: it is falsy.
UnansweredIsSpent(state, p) == [state EXCEPT !.gone = @ \cup {p}]
Unanswered(state, p) == state

\* getUTXOForInput and inputIsUnspent for one PSBT of the snapshot. An output that
\* does not exist throws, which ends the run for every PSBT. Only txids are compared,
\* so an unspent sibling output hides a spent input; without an answer from the
\* explorer the PSBT is left alone.
RunLookup(r, p) ==
  /\ run[r].pc = "lookup" /\ p \in run[r].todo
  /\ LET looked == [run[r] EXCEPT !.todo = @ \ {p}]
         spent  == Input[p] \in Spent \ Siblings
         missing == Input[p] \in Missing
     IN \/ missing /\ RunTo(r, Idle) /\ UNCHANGED faults
        \/ spent /\ RunTo(r, [looked EXCEPT !.gone = @ \cup {p}]) /\ UNCHANGED faults
        \/ ~spent /\ ~missing /\ RunTo(r, [looked EXCEPT !.unspent = @ \cup {p}]) /\ UNCHANGED faults
        \/ RunTo(r, Unanswered(looked, p)) /\ Fault
  /\ UNCHANGED <<redis, network, timers, isolated, add, rev>>

\* Mutant: spent PSBTs are only left out of the bucket.
NotPruned(r) == queue
Pruned(r) == queue \ run[r].gone

\* "No psbts left to spend" ends the run. Mutant: it does not.
AfterPruneStuck(r) ==
  IF run[r].unspent = {} THEN run[r] ELSE [run[r] EXCEPT !.pc = "build", !.gone = {}]
AfterPrune(r) ==
  IF run[r].unspent = {} THEN Idle ELSE [run[r] EXCEPT !.pc = "build", !.gone = {}]

\* SREM of the spent PSBTs by the plain client, outside any transaction.
RunPrune(r) ==
  /\ run[r].pc = "lookup" /\ run[r].todo = {}
  /\ queue' = Pruned(r)
  /\ Writing(QueueWatchers, queue' # queue)
  /\ RunTo(r, AfterPrune(r))
  /\ UNCHANGED <<record, batch, feeIndex, network, timers, add, rev, faults>>

Signed(S) == \A p \in S \cap CoSigned : record[p].token # NoToken

\* fillUpBucket tries the bucket of all unspent PSBTs first, and a transaction
\* with the same input twice throws.
Mergeable(S) == \A p, q \in S : p # q => Input[p] # Input[q]

\* The final finalizeBatch, of whatever bucket fillUpBucket chose: the fee address
\* at the current index, and the hot wallet's signature where the hash still holds
\* an index. What was computed before from the PSBTs alone reads nothing shared.
RunBuild(r) ==
  /\ run[r].pc = "build"
  /\ Mergeable(run[r].unspent)
  /\ \E S \in (SUBSET run[r].unspent) \ {{}} :
       /\ Signed(S)
       /\ RunTo(r, [Idle EXCEPT !.pc = "post", !.tx = [ins |-> S, fee |-> feeIndex]])
  /\ UNCHANGED <<redis, network, timers, isolated, add, rev, faults>>

\* No bucket, service fees too low, sanity check failed, an exception, or a
\* signature missing, when the network refuses the transaction.
RunGiveUp(r) ==
  /\ run[r].pc = "build"
  /\ RunTo(r, Idle)
  /\ UNCHANGED <<redis, network, timers, isolated, add, rev, faults>>

\* The network takes a transaction whose inputs exist and are unspent, and answers
\* again for one it already has.
Acceptable(t) == t \in broadcast \/ Ledger!InputsOf(t.ins) \cap (Spent \cup Missing) = {}

RunPost(r) ==
  /\ run[r].pc = "post"
  /\ Acceptable(run[r].tx)
  /\ broadcast' = broadcast \cup {run[r].tx}
  /\ \/ RunTo(r, [run[r] EXCEPT !.pc = "posted"]) /\ UNCHANGED faults
     \/ RunTo(r, Idle) /\ Fault
  /\ UNCHANGED <<redis, external, timers, isolated, add, rev>>

\* Mutant: the result of postTx is not looked at.
RunPostErrorIgnored(r) ==
  /\ run[r].pc = "post"
  /\ RunTo(r, [run[r] EXCEPT !.pc = "posted"])
  /\ UNCHANGED <<redis, network, timers, isolated, add, rev, faults>>

\* postTx resolves to an error: refused, or never delivered.
RunPostError(r) ==
  /\ run[r].pc = "post"
  /\ RunTo(r, Idle)
  /\ UNCHANGED <<redis, network, timers, isolated, add, rev, faults>>

RunBegin(r) ==
  /\ run[r].pc \in {"posted", "empty"}
  /\ Acquire(r)
  /\ RunTo(r, [run[r] EXCEPT !.pc = IF @ = "posted" THEN "recording" ELSE "resetting"])
  /\ UNCHANGED <<redis, network, timers, add, rev, faults>>

\* resetExpiration
ResetExpiration == timers' = "fresh"

\* SREM of the bucket. Mutant: DEL of the queue.
NothingQueued(t) == {}
StillQueued(t) == queue \ t.ins

RecordBatch(t) ==
  /\ feeIndex' = Ledger!NextFeeIndex
  /\ batch' = batch \cup Ledger!Members(t)
  /\ record' = Ledger!Labelled(t)
  /\ queue' = StillQueued(t)

\* Either way the run is over: its result only goes to the job history.
RunRecord(r) ==
  /\ run[r].pc = "recording"
  /\ \/ RecordBatch(run[r].tx) /\ ResetExpiration /\ Commits
     \/ Aborts /\ UNCHANGED timers
  /\ RunTo(r, Idle)
  /\ Release
  /\ UNCHANGED <<network, add, rev>>

RunReset(r) ==
  /\ run[r].pc = "resetting"
  /\ \/ ResetExpiration /\ Commits /\ UNCHANGED redis
     \/ Aborts /\ UNCHANGED timers
  /\ RunTo(r, Idle)
  /\ Release
  /\ UNCHANGED <<network, add, rev>>

-----------------------------------------------------------------------------
(* The environment                                                          *)

\* TIME_THRESHOLD expires after a day, EXPIRATION after a week.
TimerExpires ==
  /\ timers # "expired"
  /\ timers' = IF timers = "fresh" THEN "ready" ELSE "expired"
  /\ Writing(TimersWatchers, TRUE)
  /\ UNCHANGED <<redis, network, add, rev, run, faults>>

\* A user spends an input with another transaction.
SpendElsewhere(o) ==
  /\ o \notin Spent \cup Missing
  /\ external' = external \cup {o}
  /\ UNCHANGED <<redis, broadcast, timers, isolated, add, rev, run, faults>>

\* The process dies and is restarted: what it had in memory and its WATCHes
\* are gone, Redis keeps its data, open requests get no answer.
Crash ==
  /\ Fault
  /\ run' = [r \in CronRun |-> Idle]
  /\ add' = [a \in AddRequest |->
               IF add[a].pc \in {"checked", "txn"} THEN [add[a] EXCEPT !.pc = "failed"]
               ELSE add[a]]
  /\ rev' = [v \in RevokeRequest |->
               IF rev[v].pc \in {"validated", "txn"} THEN [rev[v] EXCEPT !.pc = "failed"]
               ELSE rev[v]]
  /\ Release
  /\ UNCHANGED <<redis, network, timers>>

-----------------------------------------------------------------------------

AddStep(a) == AddCheck(a) \/ AddReject(a) \/ AddBegin(a) \/ AddExec(a)

RevokeStep(v) ==
  RevokeValidate(v) \/ RevokeReject(v) \/ RevokeBegin(v) \/ RevokeNotFound(v) \/ RevokeExec(v)

\* What a run does on its own; RunBegin waits for the isolated connection.
RunLocal(r) ==
  \/ RunStart(r) \/ RunReadTimers(r) \/ RunThrows(r) \/ (\E p \in Psbt : RunLookup(r, p)) \/ RunPrune(r)
  \/ RunBuild(r) \/ RunGiveUp(r) \/ RunPost(r) \/ RunPostError(r)
  \/ RunRecord(r) \/ RunReset(r)

Next ==
  \/ \E a \in AddRequest : AddStep(a)
  \/ \E v \in RevokeRequest : RevokeStep(v)
  \/ \E r \in CronRun : RunLocal(r) \/ RunBegin(r)
  \/ TimerExpires
  \/ \E o \in Outpoint : SpendElsewhere(o)
  \/ Crash

Spec == Init /\ [][Next]_vars

\* Node's event loop runs every callback, the explorer and Redis answer, node-
\* cron starts runs, keys expire. Waiters for the isolated connection are served
\* in turn (generic-pool's queue), hence strong fairness where one is taken.
Fairness ==
  /\ \A a \in AddRequest : SF_vars(AddBegin(a)) /\ WF_vars(AddExec(a))
  /\ \A v \in RevokeRequest :
       /\ SF_vars(RevokeBegin(v) \/ RevokeNotFound(v))
       /\ WF_vars(RevokeExec(v))
  /\ \A r \in CronRun : WF_vars(RunLocal(r)) /\ SF_vars(RunBegin(r))
  /\ WF_vars(TimerExpires)

FairSpec == Spec /\ Fairness

-----------------------------------------------------------------------------

\* A run has a transaction at hand from its build to its recording.
TxAtHand(state) == state.pc \in {"post", "posted", "recording"} => state.tx # NoTx

TypeOK ==
  /\ Ledger!TypeOK
  /\ timers \in {"fresh", "ready", "expired"}
  /\ isolated \in [holder : Client \cup {Nobody}, dirty : BOOLEAN]
  /\ add \in [AddRequest -> AddState]
  /\ rev \in [RevokeRequest -> RevState]
  /\ run \in [CronRun -> RunState]
  /\ \A r \in CronRun : TxAtHand(run[r])
  /\ faults \in 0 .. MaxFaults

\* The isolated connection serves one transaction at a time: the request or
\* run whose transaction is open, and no other, holds it (DatabaseClient's pool).
InTransaction ==
  {a \in AddRequest : add[a].pc = "txn"}
    \cup {v \in RevokeRequest : rev[v].pc = "txn"}
    \cup {r \in CronRun : run[r].pc \in {"recording", "resetting"}}

ConnectionExclusive == InTransaction = {isolated.holder} \ {Nobody}

\* An acknowledged PSBT is never lost: it stays in the queue until its input is
\* spent, by a batch or elsewhere, or a revocation takes it (addPSBTController's
\* answer against every SREM of the code).
NoPsbtLost ==
  \A a \in AddRequest : add[a].pc = "ok" =>
    \/ add[a].psbt \in queue
    \/ Input[add[a].psbt] \in Spent
    \/ \E v \in RevokeRequest :
         rev[v].psbt = add[a].psbt /\ rev[v].deleted

\* What a run removes as spent is spent, and what it records the network has
\* accepted (batchBucket, batchTransactions).
RunsTellTheTruth ==
  \A r \in CronRun :
    /\ Ledger!InputsOf(run[r].gone) \subseteq Spent
    /\ run[r].pc \in {"posted", "recording"} => run[r].tx \in broadcast
    /\ run[r].tx # NoTx => run[r].tx.fee <= feeIndex

\* Every step is one of the ledger's atomic operations or leaves it alone.
ImplementsLedger == Ledger!Spec

\* A queued PSBT whose input is spent leaves the queue, whatever runs failed on the
\* way (the SREM of batchBucket), unless another output of its funding transaction
\* hides it, or a queued PSBT spends an output that does not exist and ends every run.
LookedUpAlone  == \A p \in queue : Input[p] \notin Missing
Leaves(p)      == (p \in queue /\ Input[p] \in Spent) ~> (p \notin queue)
SpentLeavesQueue ==
  <>[]LookedUpAlone => \A p \in Psbt : Input[p] \notin Siblings => Leaves(p)

\* A request that reached its transaction is answered, and a run ends
\* (Redis and the explorer answering).
RequestsAnswered ==
  /\ \A a \in AddRequest : add[a].pc = "checked" ~> add[a].pc \in {"ok", "failed"}
  /\ \A v \in RevokeRequest :
       rev[v].pc = "validated" ~> rev[v].pc \in {"ok", "failed"}

RunsEnd == \A r \in CronRun : run[r].pc # "idle" ~> run[r].pc = "idle"

-----------------------------------------------------------------------------
(* What the code is said to do, and does not.                               *)

\* addPSBTController: no two queued PSBTs spend the same output.
OneQueuedPerInput == \A p, q \in queue : p # q => Input[p] # Input[q]

\* Every batch the network accepted is recorded, so that its participants see
\* their status as completed.
BroadcastIsRecorded ==
  \A S \in (SUBSET Psbt) \ {{}} : \A i \in 0 .. Cardinality(Psbt) :
    LET t == [ins |-> S, fee |-> i] IN t \in broadcast ~> Ledger!Batched(t) = S

=============================================================================
