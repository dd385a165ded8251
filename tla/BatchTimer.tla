----------------------------- MODULE BatchTimer -----------------------------
(***************************************************************************)
(* When batchTransactions batches: the two keys that expire, the cron      *)
(* runs that read and reset them one command at a time, the fee rate they  *)
(* need, and the waiting times that getBatchStatusOverviewController       *)
(* reports.  Time is counted in intervals of the cron job (ten minutes).   *)
(* Which PSBTs a bucket takes, and how its transaction comes to be         *)
(* recorded, is the subject of BucketFill and GroupHug.                    *)
(***************************************************************************)
EXTENDS Integers

CONSTANTS
  Psbt,
  Fitting,   \* those that every bucket takes and the network accepts
  Run,       \* cron runs that may overlap
  Day,       \* BATCH_TIME_THRESHOLD
  Week,      \* BATCH_EXPIRATION_TIME
  MaxRun,    \* intervals a run, or a request, takes at most
  MaxFaults  \* bound on faults

VARIABLES
  rateKnown,  \* KEYS.FEE.RECOMMENDED_HOUR exists
  queue,      \* set at KEYS.PSBT.QUEUE
  spent,      \* PSBTs whose input the network has seen spent
  ttl,        \* intervals left of KEYS.BUCKET.TIME_THRESHOLD and EXPIRATION
  run,        \* progress of each run
  overview,   \* progress of a request for the overview
  sinceBatch, \* intervals since a batch was recorded, at most Day
  waited,     \* intervals each PSBT that fits has been queued since the last fault
  faults

vars == <<rateKnown, queue, spent, ttl, run, overview, sinceBatch, waited, faults>>

ASSUME ConstantsAssumption ==
  /\ Fitting \subseteq Psbt
  /\ Day \in Nat /\ Week \in Nat /\ MaxRun \in Nat /\ MaxFaults \in Nat
  /\ Day + MaxRun < Week

-----------------------------------------------------------------------------

Absent == -1

\* A run's "fresh": no batch was recorded since it read the first of the keys;
\* "late": the overview was not asked for since then.
RunState ==
  [pc : {"idle", "snapshot", "expiration", "threshold", "reset", "build", "post", "record"},
   age : 0 .. MaxRun, snap : SUBSET Psbt, expired : BOOLEAN, bucket : SUBSET Psbt,
   fresh : BOOLEAN, late : BOOLEAN]

Idle == [pc |-> "idle", age |-> 0, snap |-> {}, expired |-> FALSE, bucket |-> {},
         fresh |-> FALSE, late |-> FALSE]

\* min is as Redis reports it, -2 for a key that is not there; "left" is what then
\* remains of it, and "ordered" says of an answer that min <= max.
OverviewState ==
  [pc : {"idle", "max"}, age : 0 .. MaxRun, min : {-2} \cup 0 .. Week,
   left : 0 .. Week, ordered : BOOLEAN]

Unasked == [pc |-> "idle", age |-> 0, min |-> -2, left |-> 0, ordered |-> TRUE]

Reported(left) == IF left = Absent THEN -2 ELSE left

\* resetExpiration. Mutants: the two times swapped; only the threshold set.
SwappedReset == [day |-> Week, week |-> Day]
HalfReset == [ttl EXCEPT !.day = Day]
Reset == [day |-> Day, week |-> Week]

\* A fresh database.
Init ==
  /\ rateKnown = FALSE
  /\ queue = {} /\ spent = {}
  /\ ttl = [day |-> Absent, week |-> Absent]
  /\ run = [r \in Run |-> Idle]
  /\ overview = Unasked
  /\ sinceBatch = Day
  /\ waited = [p \in Fitting |-> 0]
  /\ faults = 0

\* The wait is measured from the last time that something went wrong.
WaitAnew == waited' = [p \in Fitting |-> 0]
Fault == faults < MaxFaults /\ faults' = faults + 1 /\ WaitAnew

-----------------------------------------------------------------------------
(* Users, the fee rate job and time. *)

Add(p) ==
  /\ p \notin queue
  /\ queue' = queue \cup {p}
  /\ waited' = [q \in Fitting |-> IF q = p THEN 0 ELSE waited[q]]
  /\ UNCHANGED <<rateKnown, spent, ttl, run, overview, sinceBatch, faults>>

Revoke(p) ==
  /\ p \in queue
  /\ queue' = queue \ {p}
  /\ UNCHANGED <<rateKnown, spent, ttl, run, overview, sinceBatch, waited, faults>>

\* getRecommendedFeeRatesCronjob; the key never expires, and a fetch that fails
\* leaves it.
StoreRate ==
  /\ ~rateKnown
  /\ rateKnown' = TRUE
  /\ UNCHANGED <<queue, spent, ttl, run, overview, sinceBatch, waited, faults>>

\* A key set in the middle of an interval expires in the middle of one.
Expire ==
  /\ \/ ttl.day = 0 /\ ttl' = [ttl EXCEPT !.day = Absent]
     \/ ttl.week = 0 /\ ttl' = [ttl EXCEPT !.week = Absent]
  /\ UNCHANGED <<rateKnown, queue, spent, run, overview, sinceBatch, waited, faults>>

OneLess(left) == IF left > 0 THEN left - 1 ELSE Absent
Older(s) == IF s.pc = "idle" THEN s ELSE [s EXCEPT !.age = @ + 1]

\* node-cron starts the next run, whether or not earlier ones are over.
Tick ==
  /\ \A r \in Run : run[r].pc # "idle" => run[r].age < MaxRun
  /\ overview.pc = "max" => overview.age < MaxRun
  /\ \E r \in Run :
       /\ run[r] = Idle
       /\ run' = [q \in Run |-> IF q = r THEN [Idle EXCEPT !.pc = "snapshot"] ELSE Older(run[q])]
  /\ ttl' = [day |-> OneLess(ttl.day), week |-> OneLess(ttl.week)]
  /\ overview' = [Older(overview) EXCEPT !.left = IF @ > 0 THEN @ - 1 ELSE 0]
  /\ sinceBatch' = IF sinceBatch < Day THEN sinceBatch + 1 ELSE Day
  /\ waited' = [p \in Fitting |-> IF p \in queue THEN waited[p] + 1 ELSE 0]
  /\ UNCHANGED <<rateKnown, queue, spent, faults>>

-----------------------------------------------------------------------------
(* batchTransactions, one action per await. *)

NoRate(r) ==
  /\ run[r].pc = "snapshot" /\ ~rateKnown
  /\ run' = [run EXCEPT ![r] = Idle]
  /\ WaitAnew
  /\ UNCHANGED <<rateKnown, queue, spent, ttl, overview, sinceBatch, faults>>

TakeSnapshot(r) ==
  /\ run[r].pc = "snapshot" /\ rateKnown
  /\ run' = [run EXCEPT ![r].pc = "expiration", ![r].snap = queue]
  /\ UNCHANGED <<rateKnown, queue, spent, ttl, overview, sinceBatch, waited, faults>>

ReadExpiration(r) ==
  /\ run[r].pc = "expiration"
  /\ run' = [run EXCEPT ![r].pc = "threshold", ![r].expired = (ttl.week = Absent),
                        ![r].fresh = TRUE, ![r].late = TRUE]
  /\ UNCHANGED <<rateKnown, queue, spent, ttl, overview, sinceBatch, waited, faults>>

\* What follows the second EXISTS. Mutant: the length compared the wrong way round.
AfterTimersUnlessEmpty(r) == IF run[r].snap = {} THEN "reset" ELSE "idle"
AfterTimers(r) ==
  IF run[r].snap = {} THEN "reset"
  ELSE IF ttl.day # Absent /\ ~run[r].expired THEN "idle"
  ELSE "build"

ReadThreshold(r) ==
  /\ run[r].pc = "threshold"
  /\ LET pc == AfterTimers(r) IN
       run' = [run EXCEPT ![r] = IF pc = "idle" THEN Idle ELSE [@ EXCEPT !.pc = pc]]
  /\ UNCHANGED <<rateKnown, queue, spent, ttl, overview, sinceBatch, waited, faults>>

\* An empty snapshot: the transaction at the end of batchTransactions.
ResetEmpty(r) ==
  /\ run[r].pc = "reset"
  /\ ttl' = Reset
  /\ run' = [run EXCEPT ![r] = Idle]
  /\ UNCHANGED <<rateKnown, queue, spent, overview, sinceBatch, waited, faults>>

\* batchBucket removes what is spent and chooses a bucket of the rest.
Build(r) ==
  /\ run[r].pc = "build"
  /\ queue' = queue \ (run[r].snap \cap spent)
  /\ \E bucket \in SUBSET (run[r].snap \ spent) :
       /\ Fitting \cap (run[r].snap \ spent) \subseteq bucket
       /\ bucket # {}
       /\ run' = [run EXCEPT ![r].pc = "post", ![r].bucket = bucket]
  /\ UNCHANGED <<rateKnown, spent, ttl, overview, sinceBatch, waited, faults>>

\* Nothing is unspent, nothing fits, or the service fees are below their minimum
\* and the week is not over.
GiveUp(r) ==
  /\ run[r].pc = "build"
  /\ ~run[r].expired \/ Fitting \cap run[r].snap \subseteq spent
  /\ queue' = queue \ (run[r].snap \cap spent)
  /\ run' = [run EXCEPT ![r] = Idle]
  /\ UNCHANGED <<rateKnown, spent, ttl, overview, sinceBatch, waited, faults>>

Post(r) ==
  /\ run[r].pc = "post"
  /\ run[r].bucket \cap spent = {}
  /\ spent' = spent \cup run[r].bucket
  /\ run' = [run EXCEPT ![r].pc = "record"]
  /\ UNCHANGED <<rateKnown, queue, ttl, overview, sinceBatch, waited, faults>>

\* Another run's batch has one of the inputs.
Refused(r) ==
  /\ run[r].pc = "post"
  /\ run[r].bucket \cap spent # {}
  /\ run' = [run EXCEPT ![r] = Idle]
  /\ UNCHANGED <<rateKnown, queue, spent, ttl, overview, sinceBatch, waited, faults>>

\* Mutant: the transaction leaves the keys as they are.
RecordKeepingTimers(r) ==
  /\ run[r].pc = "record"
  /\ queue' = queue \ run[r].bucket
  /\ sinceBatch' = 0
  /\ run' = [q \in Run |-> IF q = r THEN Idle ELSE [run[q] EXCEPT !.fresh = FALSE]]
  /\ UNCHANGED <<rateKnown, spent, ttl, overview, waited, faults>>
Record(r) ==
  /\ run[r].pc = "record"
  /\ ttl' = Reset
  /\ queue' = queue \ run[r].bucket
  /\ sinceBatch' = 0
  /\ run' = [q \in Run |-> IF q = r THEN Idle ELSE [run[q] EXCEPT !.fresh = FALSE]]
  /\ UNCHANGED <<rateKnown, spent, overview, waited, faults>>

\* A throw, a refusal by the network or an aborted transaction ends the run.
RunFails(r) ==
  /\ run[r].pc # "idle"
  /\ Fault
  /\ run' = [run EXCEPT ![r] = Idle]
  /\ UNCHANGED <<rateKnown, queue, spent, ttl, overview, sinceBatch>>

Crash ==
  /\ Fault
  /\ run' = [r \in Run |-> Idle]
  /\ overview' = Unasked
  /\ UNCHANGED <<rateKnown, queue, spent, ttl, sinceBatch>>

-----------------------------------------------------------------------------
(* getBatchStatusOverviewController; the size of the queue is left out. *)

\* Mutant: the keys the wrong way round.
MinimumTtlSwapped == ttl.week
MinimumTtl == ttl.day

AskMinimum ==
  /\ overview.pc = "idle"
  /\ LET min == Reported(MinimumTtl) IN
       overview' = [Unasked EXCEPT !.pc = "max", !.min = min, !.left = IF min > 0 THEN min ELSE 0]
  /\ run' = [r \in Run |-> [run[r] EXCEPT !.late = FALSE]]
  /\ UNCHANGED <<rateKnown, queue, spent, ttl, sinceBatch, waited, faults>>

AskMaximum ==
  /\ overview.pc = "max"
  /\ overview' = [Unasked EXCEPT !.left = overview.left,
                                 !.ordered = (overview.min <= Reported(ttl.week))]
  /\ UNCHANGED <<rateKnown, queue, spent, ttl, run, sinceBatch, waited, faults>>

Next ==
  \/ \E p \in Psbt : Add(p) \/ Revoke(p)
  \/ StoreRate
  \/ Expire
  \/ Tick
  \/ \E r \in Run :
       \/ NoRate(r) \/ TakeSnapshot(r) \/ ReadExpiration(r) \/ ReadThreshold(r)
       \/ ResetEmpty(r) \/ Build(r) \/ GiveUp(r) \/ Post(r) \/ Refused(r) \/ Record(r)
       \/ RunFails(r)
  \/ Crash
  \/ AskMinimum \/ AskMaximum

Spec == Init /\ [][Next]_vars

-----------------------------------------------------------------------------

TypeOK ==
  /\ rateKnown \in BOOLEAN
  /\ queue \subseteq Psbt /\ spent \subseteq Psbt
  /\ ttl \in [day : {Absent} \cup 0 .. Day, week : {Absent} \cup 0 .. Week]
  /\ run \in [Run -> RunState]
  /\ overview \in OverviewState
  /\ sinceBatch \in 0 .. Day
  /\ waited \in [Fitting -> Nat]
  /\ faults \in Nat

\* The two keys were set by one EXEC and go in the order of their times: a run
\* never finds the bucket expired but its threshold not reached, whatever fails
\* (batchTransactions; GroupHug and BucketFill rely on it).
KeysExpireInOrder ==
  /\ ttl.day # Absent => ttl.week = ttl.day + (Week - Day)
  /\ ttl.week = Absent => ttl.day = Absent

\* "attemps a batch after at least 24 hours" (README.md): a run that began to
\* read the keys after the last batch was recorded sets out to post one only a
\* day later, although the two keys are read one after the other.
DayBetweenBatches ==
  \A r \in Run :
    run[r].pc \in {"build", "post", "record"} /\ run[r].fresh => sinceBatch >= Day

\* "but at most after 1 week" (README.md): without faults a PSBT that fits is
\* queued at most for a week, one interval, and three times what a run may take: one
\* that has not seen it may still reset the keys, one finds them expired, and an
\* overlapping one may beat that to the post and record the batch later.
WaitBounded ==
  \A p \in queue \cap Fitting : waited[p] <= Week + 1 + 3 * MaxRun

\* minimumWaitTime keeps: no run that starts reading the keys after the answer
\* batches earlier. And it is no more than maximumWaitTime, although the two are
\* read one after the other (getBatchStatusOverviewController).
OverviewKept ==
  /\ \A r \in Run :
       run[r].pc \in {"build", "post", "record"} /\ run[r].late => overview.left = 0
  /\ overview.ordered

=============================================================================
