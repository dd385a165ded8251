-------------------------- MODULE BatchTimerProofs --------------------------
(* Proofs about BatchTimer: the keys expire in order, a day lies between      *)
(* batches, and the overview keeps what it says, for any PSBTs and runs, any  *)
(* faults, and any day and week that differ by more than a request takes.     *)
EXTENDS BatchTimer, TLAPS

\* While a batch is younger than a day, the threshold key is there for the rest.
SinceCovered == sinceBatch < Day => ttl.day >= Day - sinceBatch

\* The same for what an answer has promised.
PromiseCovered == overview.left > 0 => ttl.day >= overview.left

\* A run that will batch whatever the second key says, or has decided to.
Batches(r) ==
  \/ run[r].pc \in {"build", "post", "record"}
  \/ run[r].pc = "threshold" /\ run[r].expired

RunsRight ==
  \A r \in Run : Batches(r) =>
    /\ run[r].fresh => sinceBatch = Day
    /\ run[r].late => overview.left = 0

\* Between its two commands, a request will find the second key further from
\* its end than it found the first.
SecondIsLater ==
  overview.pc = "max" /\ overview.min # -2 =>
    /\ overview.min \in 0 .. Day
    /\ ttl.week >= overview.min + (Week - Day) - overview.age

Inv ==
  /\ TypeOK
  /\ KeysExpireInOrder
  /\ overview.left <= Day
  /\ SinceCovered
  /\ PromiseCovered
  /\ RunsRight
  /\ SecondIsLater
  /\ overview.ordered

-----------------------------------------------------------------------------

\* The states in which runs and requests begin have their types.
LEMMA IdleRun == Idle \in RunState /\ Idle.pc = "idle"
BY ConstantsAssumption DEF Idle, RunState

LEMMA UnaskedRequest ==
  /\ Unasked \in OverviewState
  /\ Unasked.pc = "idle" /\ Unasked.age = 0 /\ Unasked.left = 0 /\ Unasked.min = -2
  /\ Unasked.ordered
<1>1. Week \in Nat /\ MaxRun \in Nat
  BY ConstantsAssumption
<1> QED
  BY <1>1 DEF Unasked, OverviewState

\* The invariant holds initially.
LEMMA InvInit == Init => Inv
<1> SUFFICES ASSUME Init PROVE Inv
  OBVIOUS
<1> USE ConstantsAssumption DEF Init, Absent
<1>1. TypeOK
  <2>1. run \in [Run -> RunState] /\ overview \in OverviewState
    BY IdleRun, UnaskedRequest
  <2>2. ttl \in [day : {Absent} \cup 0 .. Day, week : {Absent} \cup 0 .. Week]
    OBVIOUS
  <2>3. waited \in [Fitting -> Nat] /\ faults \in Nat /\ sinceBatch \in 0 .. Day
    OBVIOUS
  <2>4. queue \subseteq Psbt /\ spent \subseteq Psbt /\ rateKnown \in BOOLEAN
    OBVIOUS
  <2> HIDE DEF Init, Absent
  <2> QED
    BY <2>1, <2>2, <2>3, <2>4 DEF TypeOK
<1>2. KeysExpireInOrder /\ SinceCovered /\ PromiseCovered /\ overview.left <= Day
  BY UnaskedRequest DEF KeysExpireInOrder, SinceCovered, PromiseCovered
<1>3. RunsRight /\ SecondIsLater /\ overview.ordered
  BY IdleRun, UnaskedRequest DEF RunsRight, Batches, SecondIsLater
<1> QED
  BY <1>1, <1>2, <1>3 DEF Inv

\* A step that leaves the keys, the answer and the last batch alone, and in which
\* no run comes to batch.
LEMMA QuietStep ==
  ASSUME Inv, TypeOK', UNCHANGED <<ttl, overview, sinceBatch>>,
         \A r \in Run : Batches(r)' =>
           Batches(r) /\ run'[r].fresh = run[r].fresh /\ run'[r].late = run[r].late
  PROVE  Inv'
<1>1. RunsRight'
  BY DEF Inv, RunsRight
<1> QED
  BY <1>1 DEF Inv, KeysExpireInOrder, SinceCovered, PromiseCovered, SecondIsLater

\* The same when the one run that moved goes idle.
LEMMA IdleStep ==
  ASSUME Inv, TypeOK', UNCHANGED <<ttl, overview, sinceBatch>>, NEW r \in Run,
         run' = [run EXCEPT ![r] = Idle]
  PROVE  Inv'
<1>1. ASSUME NEW q \in Run, Batches(q)'
      PROVE  Batches(q) /\ run'[q].fresh = run[q].fresh /\ run'[q].late = run[q].late
  <2>1. q # r
    BY <1>1 DEF Inv, TypeOK, Batches, Idle
  <2>2. run'[q] = run[q]
    BY <2>1 DEF Inv, TypeOK
  <2> QED
    BY <1>1, <2>2 DEF Batches
<1> QED
  BY <1>1, QuietStep

\* The same when no run moved.
LEMMA StillStep ==
  ASSUME Inv, TypeOK', UNCHANGED <<ttl, overview, sinceBatch, run>>
  PROVE  Inv'
<1>1. \A q \in Run : Batches(q)' => Batches(q)
  BY DEF Batches
<1> QED
  BY <1>1, QuietStep

\* An idle run has its type.
LEMMA IdleType ==
  ASSUME TypeOK, NEW r \in Run
  PROVE  [run EXCEPT ![r] = Idle] \in [Run -> RunState]
<1>1. Idle \in RunState
  BY ConstantsAssumption DEF Idle, RunState
<1> QED
  BY <1>1 DEF TypeOK

\* resetExpiration sets both keys to their full times.
LEMMA ResetType == Reset \in [day : {Absent} \cup 0 .. Day, week : {Absent} \cup 0 .. Week]
BY ConstantsAssumption DEF Reset, Absent

-----------------------------------------------------------------------------
(* One lemma per action that moves the keys or brings a run to batching. *)

\* Users and the fee rate job.
LEMMA UserStep ==
  ASSUME Inv, (\E p \in Psbt : Add(p) \/ Revoke(p)) \/ StoreRate
  PROVE  Inv'
<1>1. ASSUME NEW p \in Psbt, Add(p) PROVE Inv'
  <2>1. waited' \in [Fitting -> Nat]
    BY <1>1 DEF Add, Inv, TypeOK
  <2>2. TypeOK'
    BY <1>1, <2>1 DEF Add, Inv, TypeOK
  <2> QED
    BY <1>1, <2>2, StillStep DEF Add
<1>2. ASSUME NEW p \in Psbt, Revoke(p) PROVE Inv'
  <2>1. TypeOK'
    BY <1>2 DEF Revoke, Inv, TypeOK
  <2> QED
    BY <1>2, <2>1, StillStep DEF Revoke
<1>3. ASSUME StoreRate PROVE Inv'
  <2>1. TypeOK'
    BY <1>3 DEF StoreRate, Inv, TypeOK
  <2> QED
    BY <1>3, <2>1, StillStep DEF StoreRate
<1> QED
  BY <1>1, <1>2, <1>3

\* A key goes only when nothing is promised of it.
LEMMA ExpireStep ==
  ASSUME Inv, Expire
  PROVE  Inv'
<1> USE ConstantsAssumption DEF Inv, Expire, Absent
<1>1. TypeOK'
  BY DEF TypeOK
<1>2. KeysExpireInOrder'
  BY DEF TypeOK, KeysExpireInOrder
<1>3. SinceCovered' /\ PromiseCovered'
  BY DEF TypeOK, OverviewState, SinceCovered, PromiseCovered
<1>4. RunsRight'
  BY DEF RunsRight, Batches
<1>5. SecondIsLater'
  BY DEF TypeOK, OverviewState, SecondIsLater
<1> QED
  BY <1>1, <1>2, <1>3, <1>4, <1>5

\* Everything moves by one interval.
LEMMA TickStep ==
  ASSUME Inv, Tick
  PROVE  Inv'
<1> USE ConstantsAssumption DEF Absent
<1>1. PICK r \in Run :
        /\ run[r] = Idle
        /\ run' = [q \in Run |-> IF q = r THEN [Idle EXCEPT !.pc = "snapshot"] ELSE Older(run[q])]
  BY DEF Tick
<1>2. run' \in [Run -> RunState]
  <2>1. [Idle EXCEPT !.pc = "snapshot"] \in RunState
    BY IdleRun DEF RunState
  <2>2. ASSUME NEW q \in Run PROVE Older(run[q]) \in RunState
    BY DEF Inv, TypeOK, Tick, Older, RunState
  <2> QED
    BY <1>1, <2>1, <2>2
<1>3. /\ overview'.pc = overview.pc /\ overview'.min = overview.min
      /\ overview'.ordered = overview.ordered
      /\ overview'.left = IF overview.left > 0 THEN overview.left - 1 ELSE 0
      /\ overview'.age = IF overview.pc = "max" THEN overview.age + 1 ELSE overview.age
      /\ overview' \in OverviewState
  <2>1. overview \in OverviewState /\ MaxRun \in Nat /\ Week \in Nat
    BY DEF Inv, TypeOK
  <2>2. CASE overview.pc = "max"
    <3>1. overview.age < MaxRun
      BY <2>2 DEF Tick
    <3>2. overview' = [overview EXCEPT !.age = overview.age + 1,
                         !.left = IF overview.left > 0 THEN overview.left - 1 ELSE 0]
      BY <2>1, <2>2 DEF Tick, Older, OverviewState
    <3>3. overview.age + 1 \in 0 .. MaxRun
      BY <2>1, <3>1 DEF OverviewState
    <3>4. (IF overview.left > 0 THEN overview.left - 1 ELSE 0) \in 0 .. Week
      BY <2>1 DEF OverviewState
    <3> QED
      BY <2>1, <2>2, <3>2, <3>3, <3>4 DEF OverviewState
  <2>3. CASE overview.pc # "max"
    <3>1. overview' = [overview EXCEPT !.left = IF overview.left > 0 THEN overview.left - 1 ELSE 0]
      BY <2>1, <2>3 DEF Tick, Older, OverviewState
    <3>2. (IF overview.left > 0 THEN overview.left - 1 ELSE 0) \in 0 .. Week
      BY <2>1 DEF OverviewState
    <3> QED
      BY <2>1, <2>3, <3>1, <3>2 DEF OverviewState
  <2> QED
    BY <2>2, <2>3
<1>4. /\ ttl' = [day |-> OneLess(ttl.day), week |-> OneLess(ttl.week)]
      /\ ttl.day \in {Absent} \cup 0 .. Day /\ ttl.week \in {Absent} \cup 0 .. Week
  BY DEF Inv, TypeOK, Tick
<1>5. ttl' \in [day : {Absent} \cup 0 .. Day, week : {Absent} \cup 0 .. Week]
  BY <1>4 DEF OneLess
<1>6. waited' \in [Fitting -> Nat]
  BY DEF Inv, TypeOK, Tick
<1>7. sinceBatch' \in 0 .. Day /\ sinceBatch' = IF sinceBatch < Day THEN sinceBatch + 1 ELSE Day
  BY DEF Inv, TypeOK, Tick
<1>8. TypeOK'
  BY <1>2, <1>3, <1>5, <1>6, <1>7 DEF Inv, TypeOK, Tick
<1>9. KeysExpireInOrder'
  BY <1>4 DEF Inv, KeysExpireInOrder, OneLess
<1>10. SinceCovered'
  BY <1>4, <1>7 DEF Inv, TypeOK, SinceCovered, OneLess
<1>11. PromiseCovered' /\ overview'.left <= Day
  BY <1>3, <1>4 DEF Inv, TypeOK, OverviewState, PromiseCovered, OneLess
<1>12. RunsRight'
  <2>1. SUFFICES ASSUME NEW q \in Run, Batches(q)'
                 PROVE  /\ run'[q].fresh => sinceBatch' = Day
                        /\ run'[q].late => overview'.left = 0
    BY DEF RunsRight
  <2>2. q # r
    BY <1>1, <2>1 DEF Batches, Idle
  <2>3. /\ run'[q].pc = run[q].pc /\ run'[q].expired = run[q].expired
        /\ run'[q].fresh = run[q].fresh /\ run'[q].late = run[q].late
    BY <1>1, <2>2 DEF Inv, TypeOK, RunState, Older
  <2>4. Batches(q)
    BY <2>1, <2>3 DEF Batches
  <2> QED
    BY <1>3, <1>7, <2>3, <2>4 DEF Inv, RunsRight
<1>13. SecondIsLater'
  BY <1>3, <1>4 DEF Inv, TypeOK, OverviewState, SecondIsLater, OneLess, Tick
<1> QED
  BY <1>3, <1>8, <1>9, <1>10, <1>11, <1>12, <1>13 DEF Inv

\* The keys are set while run r, which goes idle, is the only one that changes
\* otherwise; a batch, if it was recorded, makes the other runs stale.
LEMMA ResetStep ==
  ASSUME Inv, TypeOK', ttl' = Reset, UNCHANGED overview, NEW r \in Run,
         \/ sinceBatch' = sinceBatch /\ run' = [run EXCEPT ![r] = Idle]
         \/ /\ sinceBatch' = 0
            /\ run' = [q \in Run |-> IF q = r THEN Idle ELSE [run[q] EXCEPT !.fresh = FALSE]]
  PROVE  Inv'
<1> USE ConstantsAssumption DEF Absent, Reset
<1>1. KeysExpireInOrder' /\ PromiseCovered'
  BY DEF Inv, KeysExpireInOrder, PromiseCovered
<1>2. SinceCovered'
  BY DEF Inv, TypeOK, SinceCovered
<1>3. SecondIsLater'
  BY DEF Inv, TypeOK, OverviewState, SecondIsLater
<1>4. RunsRight'
  <2>1. SUFFICES ASSUME NEW q \in Run, Batches(q)'
                 PROVE  /\ run'[q].fresh => sinceBatch' = Day
                        /\ run'[q].late => overview'.left = 0
    BY DEF RunsRight
  <2>2. q # r
    BY <2>1 DEF Inv, TypeOK, Batches, Idle
  <2>3. /\ run'[q].pc = run[q].pc /\ run'[q].expired = run[q].expired
        /\ run'[q].late = run[q].late
        /\ run'[q].fresh => run[q].fresh /\ sinceBatch' = sinceBatch
    BY <2>2 DEF Inv, TypeOK, RunState
  <2>4. Batches(q)
    BY <2>1, <2>3 DEF Batches
  <2> QED
    BY <2>3, <2>4 DEF Inv, RunsRight
<1> QED
  BY <1>1, <1>2, <1>3, <1>4 DEF Inv

\* An empty snapshot, or a recorded batch.
LEMMA ResetsStep ==
  ASSUME Inv, NEW r \in Run, ResetEmpty(r) \/ Record(r)
  PROVE  Inv'
<1>1. CASE ResetEmpty(r)
  <2>1. TypeOK'
    BY <1>1, ResetType, IdleType DEF ResetEmpty, Inv, TypeOK
  <2> QED
    BY <1>1, <2>1, ResetStep DEF ResetEmpty
<1>2. CASE Record(r)
  <2>1. Idle \in RunState
    BY ConstantsAssumption DEF Idle, RunState
  <2>2. ASSUME NEW q \in Run PROVE [run[q] EXCEPT !.fresh = FALSE] \in RunState
    BY DEF Inv, TypeOK, RunState
  <2>3. run' \in [Run -> RunState]
    BY <1>2, <2>1, <2>2 DEF Record
  <2>4. TypeOK'
    BY <1>2, <2>3, ResetType, ConstantsAssumption DEF Record, Inv, TypeOK
  <2> QED
    BY <1>2, <2>4, ResetStep DEF Record
<1> QED
  BY <1>1, <1>2

\* A run that finds the bucket expired finds it a day after the last batch.
LEMMA ReadExpirationStep ==
  ASSUME Inv, NEW r \in Run, ReadExpiration(r)
  PROVE  Inv'
<1> DEFINE expired == ttl.week = Absent
           next == [run[r] EXCEPT !.pc = "threshold", !.expired = expired,
                                  !.fresh = TRUE, !.late = TRUE]
<1>1. run' = [run EXCEPT ![r] = next] /\ expired \in BOOLEAN
  BY DEF ReadExpiration
<1>2. next \in RunState /\ next.pc = "threshold" /\ next.expired = expired
  BY <1>1 DEF Inv, TypeOK, RunState
<1> HIDE DEF next
<1>3. TypeOK'
  <2>1. run' \in [Run -> RunState]
    BY <1>1, <1>2 DEF Inv, TypeOK
  <2> QED
    BY <2>1 DEF ReadExpiration, Inv, TypeOK
<1>4. RunsRight'
  <2>1. SUFFICES ASSUME NEW q \in Run, Batches(q)'
                 PROVE  /\ run'[q].fresh => sinceBatch' = Day
                        /\ run'[q].late => overview'.left = 0
    BY DEF RunsRight
  <2>2. CASE q = r
    <3>1. ttl.week = Absent
      BY <1>1, <1>2, <2>1, <2>2 DEF Batches, Inv, TypeOK
    <3>2. ttl.day = Absent
      BY <3>1 DEF Inv, KeysExpireInOrder
    <3>3. ~(sinceBatch < Day) /\ ~(overview.left > 0)
      BY <3>2, ConstantsAssumption
      DEF Inv, TypeOK, OverviewState, SinceCovered, PromiseCovered, Absent
    <3> QED
      BY <3>3, ConstantsAssumption DEF ReadExpiration, Inv, TypeOK, OverviewState
  <2>3. CASE q # r
    <3>1. run'[q] = run[q]
      BY <1>1, <2>3 DEF Inv, TypeOK
    <3>2. Batches(q)
      BY <2>1, <3>1 DEF Batches
    <3> QED
      BY <3>1, <3>2 DEF Inv, RunsRight, ReadExpiration
  <2> QED
    BY <2>2, <2>3
<1> QED
  BY <1>3, <1>4
  DEF Inv, ReadExpiration, KeysExpireInOrder, SinceCovered, PromiseCovered, SecondIsLater

\* A run that goes on to batch found the bucket expired before or finds the
\* threshold gone now.
LEMMA ReadThresholdStep ==
  ASSUME Inv, NEW r \in Run, ReadThreshold(r)
  PROVE  Inv'
<1> DEFINE pc == AfterTimers(r)
           next == IF pc = "idle" THEN Idle ELSE [run[r] EXCEPT !.pc = pc]
<1>1. run' = [run EXCEPT ![r] = next] /\ pc \in {"idle", "reset", "build"}
  BY DEF ReadThreshold, AfterTimers
<1>2. next \in RunState /\ next.pc = pc
  BY <1>1, ConstantsAssumption DEF Inv, TypeOK, RunState, Idle
<1>3. pc = "build" => /\ next.fresh = run[r].fresh /\ next.late = run[r].late
                      /\ run[r].expired \/ ttl.day = Absent
  BY DEF AfterTimers, Inv, TypeOK, RunState
<1>4. run[r].pc = "threshold"
  BY DEF ReadThreshold
<1> HIDE DEF pc, next
<1>5. TypeOK'
  BY <1>1, <1>2 DEF ReadThreshold, Inv, TypeOK
<1>6. RunsRight'
  <2>1. SUFFICES ASSUME NEW q \in Run, Batches(q)'
                 PROVE  /\ run'[q].fresh => sinceBatch' = Day
                        /\ run'[q].late => overview'.left = 0
    BY DEF RunsRight
  <2>2. CASE q = r
    <3>1. run'[q] = next /\ pc = "build"
      BY <1>1, <1>2, <2>1, <2>2 DEF Batches, Inv, TypeOK
    <3>2. CASE run[r].expired
      BY <1>3, <1>4, <2>2, <3>1, <3>2 DEF Inv, RunsRight, Batches, ReadThreshold
    <3>3. CASE ttl.day = Absent
      <4>1. ~(sinceBatch < Day) /\ ~(overview.left > 0)
        BY <3>3, ConstantsAssumption
        DEF Inv, TypeOK, OverviewState, SinceCovered, PromiseCovered, Absent
      <4> QED
        BY <4>1, ConstantsAssumption DEF ReadThreshold, Inv, TypeOK, OverviewState
    <3> QED
      BY <1>3, <3>1, <3>2, <3>3
  <2>3. CASE q # r
    <3>1. run'[q] = run[q]
      BY <1>1, <2>3 DEF Inv, TypeOK
    <3>2. Batches(q)
      BY <2>1, <3>1 DEF Batches
    <3> QED
      BY <3>1, <3>2 DEF Inv, RunsRight, ReadThreshold
  <2> QED
    BY <2>2, <2>3
<1> QED
  BY <1>5, <1>6
  DEF Inv, ReadThreshold, KeysExpireInOrder, SinceCovered, PromiseCovered, SecondIsLater

\* The other steps of a run that goes on.
LEMMA OnwardStep ==
  ASSUME Inv, NEW r \in Run, TakeSnapshot(r) \/ Build(r) \/ Post(r)
  PROVE  Inv'
<1>1. PICK next \in RunState :
        /\ run' = [run EXCEPT ![r] = next]
        /\ next.fresh = run[r].fresh /\ next.late = run[r].late
        /\ next.pc \in {"post", "record"} => run[r].pc \in {"build", "post"}
        /\ next.pc \in {"expiration", "post", "record"}
  <2>1. CASE TakeSnapshot(r)
    <3>1. [run[r] EXCEPT !.pc = "expiration", !.snap = queue] \in RunState
      BY DEF Inv, TypeOK, RunState
    <3> QED
      BY <2>1, <3>1 DEF TakeSnapshot, Inv, TypeOK, RunState
  <2>2. CASE Build(r)
    <3>1. PICK bucket \in SUBSET (run[r].snap \ spent) :
            run' = [run EXCEPT ![r].pc = "post", ![r].bucket = bucket]
      BY <2>2 DEF Build
    <3>2. [run[r] EXCEPT !.pc = "post", !.bucket = bucket] \in RunState
      BY DEF Inv, TypeOK, RunState
    <3> QED
      BY <2>2, <3>1, <3>2 DEF Build, Inv, TypeOK, RunState
  <2>3. CASE Post(r)
    <3>1. [run[r] EXCEPT !.pc = "record"] \in RunState
      BY DEF Inv, TypeOK, RunState
    <3> QED
      BY <2>3, <3>1 DEF Post, Inv, TypeOK, RunState
  <2> QED
    BY <2>1, <2>2, <2>3
<1>2. TypeOK'
  <2>1. run[r].snap \subseteq Psbt /\ run[r].bucket \subseteq Psbt
    BY DEF Inv, TypeOK, RunState
  <2>2. run' \in [Run -> RunState]
    BY <1>1 DEF Inv, TypeOK
  <2> QED
    BY <2>1, <2>2 DEF Inv, TypeOK, TakeSnapshot, Build, Post
<1>3. ASSUME NEW q \in Run, Batches(q)'
      PROVE  Batches(q) /\ run'[q].fresh = run[q].fresh /\ run'[q].late = run[q].late
  BY <1>1, <1>3 DEF Inv, TypeOK, Batches
<1>4. UNCHANGED <<ttl, overview, sinceBatch>>
  BY DEF TakeSnapshot, Build, Post
<1> QED
  BY <1>2, <1>3, <1>4, QuietStep

\* The steps that end a run.
LEMMA EndStep ==
  ASSUME Inv, NEW r \in Run, NoRate(r) \/ GiveUp(r) \/ Refused(r) \/ RunFails(r)
  PROVE  Inv'
<1>1. run' = [run EXCEPT ![r] = Idle] /\ UNCHANGED <<ttl, overview, sinceBatch>>
  BY DEF NoRate, GiveUp, Refused, RunFails
<1>2. run' \in [Run -> RunState]
  BY <1>1, IdleType DEF Inv
<1>3. waited' \in [Fitting -> Nat] /\ faults' \in Nat
  BY DEF NoRate, GiveUp, Refused, RunFails, Fault, WaitAnew, Inv, TypeOK
<1>4. /\ queue' \subseteq Psbt /\ spent' \subseteq Psbt /\ rateKnown' \in BOOLEAN
  BY DEF NoRate, GiveUp, Refused, RunFails, Inv, TypeOK
<1>5. TypeOK'
  BY <1>1, <1>2, <1>3, <1>4 DEF Inv, TypeOK
<1> QED
  BY <1>1, <1>5, IdleStep

\* The process dies, and with it the request.
LEMMA CrashStep ==
  ASSUME Inv, Crash
  PROVE  Inv'
<1> USE DEF Crash, Fault, WaitAnew
<1>1. Idle \in RunState /\ Unasked \in OverviewState
  BY ConstantsAssumption DEF Idle, RunState, Unasked, OverviewState
<1>2. TypeOK'
  BY <1>1 DEF Inv, TypeOK
<1>3. RunsRight' /\ PromiseCovered' /\ SecondIsLater' /\ overview'.ordered
  BY DEF RunsRight, Batches, Idle, PromiseCovered, SecondIsLater, Unasked
<1>4. KeysExpireInOrder' /\ SinceCovered' /\ overview'.left <= Day
  BY ConstantsAssumption DEF Inv, KeysExpireInOrder, SinceCovered, Unasked
<1> QED
  BY <1>2, <1>3, <1>4 DEF Inv

\* The first command of a request for the overview.
LEMMA AskMinimumStep ==
  ASSUME Inv, AskMinimum
  PROVE  Inv'
<1> USE ConstantsAssumption DEF Absent
<1> DEFINE min == Reported(ttl.day)
<1>1. /\ ttl.day \in {Absent} \cup 0 .. Day /\ ttl.week \in {Absent} \cup 0 .. Week
      /\ min \in {-2} \cup 0 .. Day
      /\ min # -2 => min = ttl.day
      /\ min > 0 => ttl.day = min
  BY DEF Inv, TypeOK, Reported
<1>2. /\ overview' \in OverviewState
      /\ overview'.pc = "max" /\ overview'.min = min /\ overview'.age = 0
      /\ overview'.left = (IF min > 0 THEN min ELSE 0) /\ overview'.ordered
  <2>1. overview' = [Unasked EXCEPT !.pc = "max", !.min = min, !.left = IF min > 0 THEN min ELSE 0]
    BY DEF AskMinimum, MinimumTtl
  <2> HIDE DEF min
  <2>2. min \in {-2} \cup 0 .. Week /\ (IF min > 0 THEN min ELSE 0) \in 0 .. Week
    BY <1>1
  <2> QED
    BY <2>1, <2>2, UnaskedRequest DEF OverviewState
<1> HIDE DEF min
<1>3. ASSUME NEW r \in Run
      PROVE  /\ [run[r] EXCEPT !.late = FALSE] \in RunState
             /\ run'[r].pc = run[r].pc /\ run'[r].expired = run[r].expired
             /\ run'[r].fresh = run[r].fresh /\ ~run'[r].late
  BY DEF AskMinimum, Inv, TypeOK, RunState
<1>4. run' \in [Run -> RunState]
  BY <1>3 DEF AskMinimum
<1>5. TypeOK'
  BY <1>2, <1>4 DEF AskMinimum, Inv, TypeOK
<1>6. RunsRight'
  BY <1>3 DEF AskMinimum, Inv, RunsRight, Batches
<1>7. PromiseCovered' /\ overview'.left <= Day
  BY <1>1, <1>2 DEF AskMinimum, PromiseCovered
<1>8. SecondIsLater'
  BY <1>1, <1>2 DEF AskMinimum, Inv, KeysExpireInOrder, SecondIsLater
<1> QED
  BY <1>2, <1>5, <1>6, <1>7, <1>8 DEF AskMinimum, Inv, KeysExpireInOrder, SinceCovered

\* The second command: too little time has passed for the second key to be gone.
LEMMA AskMaximumStep ==
  ASSUME Inv, AskMaximum
  PROVE  Inv'
<1> USE ConstantsAssumption DEF Absent
<1>1. /\ ttl.week \in {Absent} \cup 0 .. Week
      /\ overview.min \in {-2} \cup 0 .. Week /\ overview.age \in 0 .. MaxRun
      /\ overview.left \in 0 .. Week /\ overview.left <= Day
  BY DEF Inv, TypeOK, OverviewState
<1>2. overview.min <= Reported(ttl.week)
  <2>1. CASE overview.min = -2
    BY <1>1, <2>1 DEF Reported
  <2>2. CASE overview.min # -2
    BY <1>1, <2>2 DEF AskMaximum, Inv, SecondIsLater, Reported
  <2> QED
    BY <2>1, <2>2
<1>3. /\ overview' \in OverviewState
      /\ overview'.pc = "idle" /\ overview'.left = overview.left /\ overview'.ordered
  <2>1. overview' = [Unasked EXCEPT !.left = overview.left, !.ordered = TRUE]
    BY <1>2 DEF AskMaximum
  <2> QED
    BY <1>1, <2>1, UnaskedRequest DEF OverviewState
<1>4. TypeOK'
  BY <1>3 DEF AskMaximum, Inv, TypeOK
<1>5. RunsRight'
  BY <1>3 DEF AskMaximum, Inv, RunsRight, Batches
<1>6. PromiseCovered' /\ SecondIsLater'
  BY <1>3 DEF AskMaximum, Inv, PromiseCovered, SecondIsLater
<1> QED
  BY <1>1, <1>3, <1>4, <1>5, <1>6 DEF AskMaximum, Inv, KeysExpireInOrder, SinceCovered

-----------------------------------------------------------------------------

\* The invariant is inductive.
LEMMA InvStep == Inv /\ [Next]_vars => Inv'
<1> SUFFICES ASSUME Inv, [Next]_vars PROVE Inv'
  OBVIOUS
<1>1. CASE (\E p \in Psbt : Add(p) \/ Revoke(p)) \/ StoreRate
  BY <1>1, UserStep
<1>2. CASE Expire \/ Tick \/ Crash \/ AskMinimum \/ AskMaximum
  BY <1>2, ExpireStep, TickStep, CrashStep, AskMinimumStep, AskMaximumStep
<1>3. ASSUME NEW r \in Run,
             \/ NoRate(r) \/ TakeSnapshot(r) \/ ReadExpiration(r) \/ ReadThreshold(r)
             \/ ResetEmpty(r) \/ Build(r) \/ GiveUp(r) \/ Post(r) \/ Refused(r)
             \/ Record(r) \/ RunFails(r)
      PROVE  Inv'
  BY <1>3, EndStep, OnwardStep, ReadExpirationStep, ReadThresholdStep, ResetsStep
<1>4. CASE UNCHANGED vars
  <2>1. TypeOK'
    BY <1>4 DEF vars, Inv, TypeOK
  <2> QED
    BY <1>4, <2>1, StillStep DEF vars
<1> QED
  BY <1>1, <1>2, <1>3, <1>4 DEF Next

\* The invariant holds of every reachable state.
THEOREM InvHolds == Spec => []Inv
BY InvInit, InvStep, PTL DEF Spec

\* Every reachable state of the keys, the runs and the request is well typed.
THEOREM TypeCorrect == Spec => []TypeOK
<1>1. Inv => TypeOK
  BY DEF Inv
<1> QED
  BY <1>1, InvHolds, PTL

\* The two keys go in the order of their times, whatever fails (resetExpiration).
THEOREM KeysInOrder == Spec => []KeysExpireInOrder
<1>1. Inv => KeysExpireInOrder
  BY DEF Inv
<1> QED
  BY <1>1, InvHolds, PTL

\* Runs that read the keys after the last batch was recorded batch a day later
\* (batchTransactions).
THEOREM DayLater == Spec => []DayBetweenBatches
<1>1. Inv => DayBetweenBatches
  BY ConstantsAssumption DEF Inv, TypeOK, RunsRight, Batches, DayBetweenBatches
<1> QED
  BY <1>1, InvHolds, PTL

\* What the overview answers keeps, for any MaxRun below the difference of the
\* two times (getBatchStatusOverviewController).
THEOREM OverviewHolds == Spec => []OverviewKept
<1>1. Inv => OverviewKept
  BY DEF Inv, RunsRight, Batches, OverviewKept
<1> QED
  BY <1>1, InvHolds, PTL

-----------------------------------------------------------------------------
(* How long a PSBT that fits waits.  "Newer" runs are those that began after  *)
(* the wait of a PSBT did: their age is less than it.                         *)

\* A newer run has the PSBT in its snapshot, and in the bucket it chose.
Seen(r, p) ==
  run[r].age < waited[p] =>
    /\ run[r].pc \notin {"idle", "snapshot"} => p \in run[r].snap
    /\ run[r].pc \in {"post", "record"} => p \in run[r].bucket

\* Only older runs set the keys again, and they are soon over.
KeyRunsOut(p) == ttl.week # Absent => ttl.week + waited[p] <= Week + MaxRun

Posted(r, p) == run[r].pc = "record" /\ p \in run[r].bucket

\* A run that began when all older ones were over can only be beaten to the post
\* by one that has the PSBT too.
Beaten(r, p) ==
  run[r].pc = "post" /\ run[r].age + MaxRun < waited[p] /\ run[r].bucket \cap spent # {} =>
    \E q \in Run : Posted(q, p)

\* The first run after the key is gone, and one that beat it to the post.
Carries(r, p) ==
  /\ \/ run[r].pc \in {"snapshot", "expiration", "post", "record"}
     \/ run[r].pc \in {"threshold", "build"} /\ run[r].expired
  /\ waited[p] = Week + MaxRun + 1 + run[r].age
Beats(r, p) == Posted(r, p) /\ waited[p] <= Week + MaxRun + 1 + MaxRun + run[r].age

Underway(p) == waited[p] > Week + MaxRun => \E r \in Run : Carries(r, p) \/ Beats(r, p)

WaitRight(p) ==
  /\ \A r \in Run : Seen(r, p) /\ Beaten(r, p)
  /\ KeyRunsOut(p)
  /\ Underway(p)

WaitInv ==
  /\ \A r \in Run : run[r].pc = "reset" => run[r].snap = {}
  /\ \A p \in queue \cap Fitting : WaitRight(p)

\* The numbers that a wait is compared with.
LEMMA Numbers ==
  TypeOK =>
    /\ Week \in Nat /\ MaxRun \in Nat
    /\ \A r \in Run : run[r].age \in Nat /\ run[r].age <= MaxRun
    /\ \A p \in Fitting : waited[p] \in Nat
    /\ ttl.week = Absent \/ (ttl.week \in Nat /\ ttl.week <= Week)
BY ConstantsAssumption DEF TypeOK, RunState

\* While a wait is short only what runs have seen matters.
LEMMA ShortWait ==
  TypeOK => \A p \in Fitting :
    waited[p] <= MaxRun /\ (\A q \in Run : Seen(q, p)) => WaitRight(p)
<1> SUFFICES ASSUME TypeOK, NEW p \in Fitting, waited[p] <= MaxRun, \A q \in Run : Seen(q, p)
             PROVE  WaitRight(p)
  OBVIOUS
<1>1. KeyRunsOut(p) /\ Underway(p)
  BY Numbers DEF KeyRunsOut, Underway
<1>2. ASSUME NEW r \in Run PROVE Beaten(r, p)
  BY Numbers DEF Beaten
<1> QED
  BY <1>1, <1>2 DEF WaitRight

\* The same after a step.
LEMMA ShortWaitNext ==
  TypeOK' => \A p \in Fitting :
    waited'[p] <= MaxRun /\ (\A q \in Run : Seen(q, p)') => WaitRight(p)'
<1>1. (TypeOK => \A p \in Fitting :
         waited[p] <= MaxRun /\ (\A q \in Run : Seen(q, p)) => WaitRight(p))'
  BY ShortWait, PTL
<1> QED
  BY <1>1

\* A wait that begins.
LEMMA NewWait == TypeOK => \A p \in Fitting : waited[p] = 0 => WaitRight(p)
<1> SUFFICES ASSUME TypeOK, NEW p \in Fitting, waited[p] = 0
             PROVE  WaitRight(p)
  OBVIOUS
<1>1. ASSUME NEW r \in Run PROVE Seen(r, p)
  BY Numbers DEF Seen
<1> QED
  BY <1>1, Numbers, ShortWait

\* Nothing that the wait depends on changes, except that a key may go.
LEMMA SameWait ==
  ASSUME Inv, NEW p \in Fitting, WaitRight(p), waited'[p] = waited[p], spent' = spent,
         ttl'.week \in {Absent, ttl.week},
         \A r \in Run : /\ run'[r].pc = run[r].pc /\ run'[r].age = run[r].age
                        /\ run'[r].snap = run[r].snap /\ run'[r].bucket = run[r].bucket
                        /\ run'[r].expired = run[r].expired
  PROVE  WaitRight(p)'
<1>1. ASSUME NEW r \in Run
      PROVE  /\ Seen(r, p)'
             /\ Posted(r, p) => Posted(r, p)'
             /\ Carries(r, p) => Carries(r, p)'
             /\ Beats(r, p) => Beats(r, p)'
  BY DEF WaitRight, Seen, Posted, Carries, Beats
<1>2. ASSUME NEW r \in Run PROVE Beaten(r, p)'
  BY <1>1 DEF WaitRight, Beaten
<1>3. KeyRunsOut(p)'
  BY DEF WaitRight, KeyRunsOut
<1>4. Underway(p)'
  BY <1>1 DEF WaitRight, Underway
<1> QED
  BY <1>1, <1>2, <1>3, <1>4 DEF WaitRight

\* A run that moved while nothing else did, and what is to be shown of it: that
\* what it has seen is right, that it is not beaten, and that what it carried it
\* still carries, or another run does.
LEMMA OneRunMoves ==
  ASSUME Inv, NEW p \in Fitting, WaitRight(p), UNCHANGED <<ttl, waited, spent>>,
         NEW r \in Run, \A q \in Run \ {r} : run'[q] = run[q],
         Seen(r, p)', ~Posted(r, p),
         Beaten(r, p)',
         Carries(r, p) => \E q \in Run : (Carries(q, p) \/ Beats(q, p))'
  PROVE  WaitRight(p)'
<1>1. ASSUME NEW q \in Run, q # r
      PROVE  /\ Seen(q, p)'
             /\ Posted(q, p) => Posted(q, p)'
             /\ Carries(q, p) => Carries(q, p)'
             /\ Beats(q, p) => Beats(q, p)'
  BY <1>1 DEF WaitRight, Seen, Posted, Carries, Beats
<1>2. ASSUME NEW q \in Run PROVE Seen(q, p)' /\ Beaten(q, p)'
  <2>1. CASE q = r
    BY <2>1
  <2>2. CASE q # r
    BY <1>1, <2>2 DEF WaitRight, Beaten
  <2> QED
    BY <2>1, <2>2
<1>3. KeyRunsOut(p)'
  BY DEF WaitRight, KeyRunsOut
<1>4. Underway(p)'
  <2>1. SUFFICES ASSUME waited[p] > Week + MaxRun
                 PROVE  \E q \in Run : (Carries(q, p) \/ Beats(q, p))'
    BY DEF Underway
  <2>2. PICK q \in Run : Carries(q, p) \/ Beats(q, p)
    BY <2>1 DEF WaitRight, Underway
  <2>3. CASE q = r
    BY <2>2, <2>3 DEF Beats
  <2>4. CASE q # r
    BY <1>1, <2>2, <2>4
  <2> QED
    BY <2>3, <2>4
<1> QED
  BY <1>2, <1>3, <1>4 DEF WaitRight

\* A wait, or all of them, begins anew; or only users, keys and requests moved.
LEMMA WaitOutside ==
  ASSUME Inv, Inv', WaitInv,
         \/ \E p \in Psbt : Add(p) \/ Revoke(p)
         \/ StoreRate \/ Expire \/ AskMinimum \/ AskMaximum
  PROVE  WaitInv'
<1>1. ASSUME NEW r \in Run
      PROVE  /\ run'[r].pc = run[r].pc /\ run'[r].age = run[r].age
             /\ run'[r].snap = run[r].snap /\ run'[r].bucket = run[r].bucket
             /\ run'[r].expired = run[r].expired
  <2>1. CASE AskMinimum
    BY <2>1 DEF AskMinimum, Inv, TypeOK, RunState
  <2>2. CASE run' = run
    BY <2>2
  <2> QED
    BY <2>1, <2>2 DEF Add, Revoke, StoreRate, Expire, AskMaximum
<1>2. ttl'.week \in {Absent, ttl.week} /\ spent' = spent
  <2>1. CASE Expire
    BY <2>1 DEF Expire, Inv, TypeOK
  <2>2. CASE ttl' = ttl /\ spent' = spent
    BY <2>2
  <2> QED
    BY <2>1, <2>2 DEF Add, Revoke, StoreRate, AskMinimum, AskMaximum
<1>3. (TypeOK => \A p \in Fitting : waited[p] = 0 => WaitRight(p))'
  BY NewWait, PTL
<1>4. ASSUME NEW p \in queue' \cap Fitting PROVE WaitRight(p)'
  <2>1. CASE waited'[p] = 0
    BY <1>3, <2>1 DEF Inv
  <2>2. CASE p \in queue /\ waited'[p] = waited[p]
    BY <1>1, <1>2, <2>2, SameWait DEF WaitInv
  <2>3. waited'[p] = 0 \/ (p \in queue /\ waited'[p] = waited[p])
    BY DEF Add, Revoke, StoreRate, Expire, AskMinimum, AskMaximum
  <2> QED
    BY <2>1, <2>2, <2>3
<1> QED
  BY <1>1, <1>4 DEF WaitInv

\* What goes wrong begins every wait anew.
LEMMA WaitAfterFault ==
  ASSUME Inv, Inv', WaitInv, Crash \/ \E r \in Run : NoRate(r) \/ RunFails(r)
  PROVE  WaitInv'
<1>1. ASSUME NEW p \in Fitting PROVE waited'[p] = 0
  BY DEF Crash, NoRate, RunFails, Fault, WaitAnew
<1>2. ASSUME NEW r \in Run, run'[r].pc = "reset" PROVE run'[r].snap = {}
  BY <1>2 DEF Crash, NoRate, RunFails, Inv, TypeOK, Idle, WaitInv
<1>3. (TypeOK => \A p \in Fitting : waited[p] = 0 => WaitRight(p))'
  BY NewWait, PTL
<1> QED
  BY <1>1, <1>2, <1>3 DEF Inv, WaitInv

\* Every wait and every run is an interval older, and the next run begins: the
\* carrier, if the key has just been gone for long enough.
LEMMA WaitOverTick ==
  ASSUME Inv, Inv', WaitInv, Tick
  PROVE  WaitInv'
<1>1. PICK r \in Run :
        /\ run[r] = Idle
        /\ run' = [q \in Run |-> IF q = r THEN [Idle EXCEPT !.pc = "snapshot"] ELSE Older(run[q])]
  BY DEF Tick
<1>2. run[r].pc = "idle" /\ run'[r].pc = "snapshot" /\ run'[r].age = 0
  BY <1>1 DEF Idle
<1>3. ASSUME NEW q \in Run, q # r
      PROVE  /\ run'[q].pc = run[q].pc /\ run'[q].snap = run[q].snap
             /\ run'[q].bucket = run[q].bucket /\ run'[q].expired = run[q].expired
             /\ run[q].pc # "idle" => run'[q].age = run[q].age + 1
  BY <1>1, <1>3 DEF Inv, TypeOK, RunState, Older
<1>4. ASSUME NEW q \in Run, run'[q].pc = "reset" PROVE run'[q].snap = {}
  BY <1>2, <1>3, <1>4 DEF WaitInv
<1>5. ASSUME NEW p \in queue' \cap Fitting PROVE WaitRight(p)'
  <2>1. /\ p \in queue \cap Fitting /\ WaitRight(p)
        /\ waited'[p] = waited[p] + 1 /\ waited[p] \in Nat
        /\ Week \in Nat /\ MaxRun \in Nat
        /\ \A q \in Run : run[q].age \in Nat
        /\ spent' = spent
    BY Numbers DEF Tick, Inv, WaitInv
  <2>2. ASSUME NEW q \in Run
        PROVE  /\ Seen(q, p)'
               /\ Posted(q, p) => Posted(q, p)'
               /\ Carries(q, p) => Carries(q, p)'
               /\ Beats(q, p) => Beats(q, p)'
    <3>1. CASE q = r
      BY <1>2, <3>1 DEF Seen, Posted, Carries, Beats
    <3>2. CASE q # r /\ run[q].pc = "idle"
      BY <1>3, <3>2 DEF Seen, Posted, Carries, Beats
    <3>3. CASE q # r /\ run[q].pc # "idle"
      <4>1. run'[q].age < waited'[p] <=> run[q].age < waited[p]
        BY <1>3, <2>1, <3>3
      <4>2. Seen(q, p)'
        BY <1>3, <2>1, <3>3, <4>1 DEF WaitRight, Seen
      <4>3. Posted(q, p) => Posted(q, p)'
        BY <1>3, <3>3 DEF Posted
      <4>4. Carries(q, p) => Carries(q, p)'
        BY <1>3, <2>1, <3>3 DEF Carries
      <4>5. Beats(q, p) => Beats(q, p)'
        BY <1>3, <2>1, <3>3, <4>3 DEF Beats
      <4> QED
        BY <4>2, <4>3, <4>4, <4>5
    <3> QED
      BY <3>1, <3>2, <3>3
  <2>3. ASSUME NEW q \in Run PROVE Beaten(q, p)'
    <3>1. SUFFICES ASSUME run'[q].pc = "post", run'[q].age + MaxRun < waited'[p],
                          run'[q].bucket \cap spent' # {}
                   PROVE  \E u \in Run : Posted(u, p)'
      BY DEF Beaten
    <3>2. q # r /\ run[q].pc = "post"
      BY <1>2, <1>3, <3>1
    <3>3. run[q].age + MaxRun < waited[p] /\ run[q].bucket \cap spent # {}
      BY <1>3, <2>1, <3>1, <3>2
    <3> QED
      BY <2>1, <2>2, <3>2, <3>3 DEF WaitRight, Beaten
  <2>4. KeyRunsOut(p)'
    BY <2>1, Numbers DEF Inv, WaitRight, KeyRunsOut, Tick, OneLess, Absent
  <2>5. Underway(p)'
    <3>1. CASE waited[p] > Week + MaxRun
      BY <2>1, <2>2, <3>1 DEF WaitRight, Underway
    <3>2. CASE waited[p] = Week + MaxRun
      BY <1>2, <2>1, <3>2 DEF Underway, Carries
    <3>3. CASE waited[p] < Week + MaxRun
      BY <2>1, <3>3 DEF Underway
    <3> QED
      BY <2>1, <3>1, <3>2, <3>3
  <2> QED
    BY <2>2, <2>3, <2>4, <2>5 DEF WaitRight
<1> QED
  BY <1>4, <1>5 DEF WaitInv

\* What the lemmas about one run's step need: the run, its new state, and the rest.
Moved(r) ==
  /\ \A q \in Run \ {r} : run'[q] = run[q]
  /\ UNCHANGED <<ttl, waited, spent>>
  /\ queue' \subseteq queue

\* The steps of a run up to its decision to batch.
LEMMA WaitOverReading ==
  ASSUME Inv, Inv', WaitInv, NEW r \in Run,
         TakeSnapshot(r) \/ ReadExpiration(r) \/ ReadThreshold(r)
  PROVE  WaitInv'
<1>1. Moved(r)
  BY DEF Moved, TakeSnapshot, ReadExpiration, ReadThreshold, Inv, TypeOK
<1>2. /\ run[r].pc \in {"snapshot", "expiration", "threshold"}
      /\ run'[r].pc \in {"idle", "expiration", "threshold", "reset", "build"}
      /\ run'[r].pc = "reset" => run'[r].snap = {}
      /\ run'[r].pc # "idle" => run'[r].age = run[r].age
  <2>1. CASE ReadThreshold(r)
    <3>1. CASE AfterTimers(r) = "idle"
      BY <2>1, <3>1 DEF ReadThreshold, Inv, TypeOK, RunState, Idle
    <3>2. CASE AfterTimers(r) # "idle"
      BY <2>1, <3>2 DEF ReadThreshold, AfterTimers, Inv, TypeOK, RunState
    <3> QED
      BY <3>1, <3>2
  <2>2. CASE TakeSnapshot(r) \/ ReadExpiration(r)
    BY <2>2 DEF TakeSnapshot, ReadExpiration, Inv, TypeOK, RunState
  <2> QED
    BY <2>1, <2>2
<1>3. ASSUME NEW p \in queue \cap Fitting PROVE WaitRight(p)'
  <2>1. /\ WaitRight(p) /\ waited'[p] = waited[p] /\ waited[p] \in Nat
        /\ run[r].age \in Nat /\ Week \in Nat /\ MaxRun \in Nat
    BY <1>1, Numbers DEF Inv, WaitInv, Moved
  <2>2. ~Posted(r, p) /\ Beaten(r, p)'
    BY <1>2 DEF Posted, Beaten
  <2>3. run[r].age < waited[p] /\ run'[r].pc \notin {"idle", "snapshot"} => p \in run'[r].snap
    <3>1. CASE TakeSnapshot(r)
      BY <3>1 DEF TakeSnapshot, Inv, TypeOK, RunState
    <3>2. CASE ReadExpiration(r)
      BY <2>1, <3>2 DEF ReadExpiration, Inv, TypeOK, RunState, WaitRight, Seen
    <3>3. CASE ReadThreshold(r)
      BY <2>1, <3>3 DEF ReadThreshold, Inv, TypeOK, RunState, WaitRight, Seen, Idle
    <3> QED
      BY <3>1, <3>2, <3>3
  <2>4. Seen(r, p)'
    BY <1>2, <2>1, <2>3 DEF Seen
  <2>5. Carries(r, p) => Carries(r, p)'
    <3>1. SUFFICES ASSUME Carries(r, p) PROVE Carries(r, p)'
      OBVIOUS
    <3>2. run[r].age < waited[p] /\ ttl.week = Absent
      BY <2>1, <3>1, Numbers DEF Carries, Inv, WaitRight, KeyRunsOut
    <3>3. CASE TakeSnapshot(r)
      BY <2>1, <3>1, <3>3 DEF TakeSnapshot, Carries, Inv, TypeOK, RunState
    <3>4. CASE ReadExpiration(r)
      BY <2>1, <3>1, <3>2, <3>4 DEF ReadExpiration, Carries, Inv, TypeOK, RunState
    <3>5. CASE ReadThreshold(r)
      <4>1. run[r].expired /\ run[r].snap # {}
        BY <2>1, <3>1, <3>2, <3>5 DEF ReadThreshold, Carries, WaitRight, Seen
      <4>2. AfterTimers(r) = "build"
        BY <4>1 DEF AfterTimers
      <4>3. run'[r].pc = "build" /\ run'[r].expired
        BY <3>5, <4>1, <4>2 DEF ReadThreshold, Inv, TypeOK, RunState
      <4> QED
        BY <1>2, <2>1, <3>1, <4>3 DEF Carries
    <3> QED
      BY <3>3, <3>4, <3>5
  <2> QED
    BY <1>1, <2>1, <2>2, <2>4, <2>5, OneRunMoves DEF Moved
<1> QED
  BY <1>1, <1>2, <1>3 DEF Moved, WaitInv

\* An older run, at most, resets the keys without the PSBT.
LEMMA WaitOverReset ==
  ASSUME Inv, Inv', WaitInv, NEW r \in Run, ResetEmpty(r) \/ Record(r)
  PROVE  WaitInv'
<1>1. /\ run[r].pc \in {"reset", "record"} /\ run'[r].pc = "idle"
      /\ waited' = waited /\ queue' \subseteq queue
  BY DEF ResetEmpty, Record, Inv, TypeOK, Idle
<1>2. ASSUME NEW q \in Run, q # r
      PROVE  /\ run'[q].pc = run[q].pc /\ run'[q].age = run[q].age
             /\ run'[q].snap = run[q].snap /\ run'[q].bucket = run[q].bucket
  BY <1>2 DEF ResetEmpty, Record, Inv, TypeOK, RunState
<1>3. ASSUME NEW p \in queue' \cap Fitting PROVE WaitRight(p)'
  <2>1. /\ p \in queue \cap Fitting /\ WaitRight(p) /\ waited'[p] = waited[p]
        /\ waited[p] \in Nat /\ MaxRun \in Nat
        /\ run[r].age \in Nat /\ run[r].age <= MaxRun
    BY <1>1, Numbers DEF Inv, WaitInv
  <2>2. waited[p] <= MaxRun
    <3>1. CASE ResetEmpty(r)
      BY <2>1, <3>1 DEF ResetEmpty, WaitInv, WaitRight, Seen
    <3>2. CASE Record(r)
      BY <2>1, <3>2 DEF Record, WaitRight, Seen
    <3> QED
      BY <3>1, <3>2
  <2>3. ASSUME NEW q \in Run PROVE Seen(q, p)'
    <3>1. CASE q = r
      BY <1>1, <3>1 DEF Seen
    <3>2. CASE q # r
      BY <1>2, <2>1, <3>2 DEF WaitRight, Seen
    <3> QED
      BY <3>1, <3>2
  <2> QED
    BY <2>1, <2>2, <2>3, ShortWaitNext DEF Inv
<1>4. ASSUME NEW q \in Run, run'[q].pc = "reset" PROVE run'[q].snap = {}
  BY <1>1, <1>2, <1>4 DEF WaitInv
<1> QED
  BY <1>3, <1>4 DEF WaitInv

\* A run that will batch puts the PSBT in its bucket, or finds it spent and takes
\* it off the queue.
LEMMA WaitOverBuild ==
  ASSUME Inv, Inv', WaitInv, NEW r \in Run, Build(r) \/ GiveUp(r)
  PROVE  WaitInv'
<1>1. Moved(r) /\ run[r].pc = "build" /\ queue' = queue \ (run[r].snap \cap spent)
  BY DEF Moved, Build, GiveUp, Inv, TypeOK
<1>2. CASE Build(r)
  <2>1. PICK bucket \in SUBSET (run[r].snap \ spent) :
          /\ Fitting \cap (run[r].snap \ spent) \subseteq bucket
          /\ run' = [run EXCEPT ![r].pc = "post", ![r].bucket = bucket]
    BY <1>2 DEF Build
  <2>2. /\ run'[r].pc = "post" /\ run'[r].bucket = bucket
        /\ run'[r].age = run[r].age /\ run'[r].snap = run[r].snap
    BY <2>1 DEF Inv, TypeOK, RunState
  <2>3. ASSUME NEW p \in queue' \cap Fitting PROVE WaitRight(p)'
    <3>1. p \in queue \cap Fitting /\ WaitRight(p) /\ waited'[p] = waited[p]
      BY <1>1 DEF WaitInv, Moved
    <3>2. Seen(r, p)'
      BY <1>1, <2>1, <2>2, <3>1 DEF WaitRight, Seen
    <3>3. ~Posted(r, p) /\ Beaten(r, p)'
      BY <1>1, <2>1, <2>2 DEF Posted, Beaten, Moved
    <3>4. Carries(r, p) => Carries(r, p)'
      BY <2>2, <3>1 DEF Carries
    <3> QED
      BY <1>1, <3>1, <3>2, <3>3, <3>4, OneRunMoves DEF Moved
  <2> QED
    BY <1>1, <2>2, <2>3 DEF Moved, WaitInv
<1>3. CASE GiveUp(r)
  <2>1. run'[r].pc = "idle"
    BY <1>3 DEF GiveUp, Inv, TypeOK, Idle
  <2>2. ASSUME NEW p \in queue' \cap Fitting PROVE WaitRight(p)'
    <3>1. /\ p \in queue \cap Fitting /\ WaitRight(p)
          /\ run[r].age \in Nat /\ Week \in Nat /\ MaxRun \in Nat
      BY <1>1, Numbers DEF Inv, WaitInv
    <3>2. Seen(r, p)' /\ ~Posted(r, p) /\ Beaten(r, p)'
      BY <1>1, <2>1 DEF Seen, Posted, Beaten
    <3>3. ~Carries(r, p)
      <4>1. SUFFICES ASSUME Carries(r, p) PROVE FALSE
        OBVIOUS
      <4>2. run[r].expired /\ run[r].age < waited[p]
        BY <1>1, <3>1, <4>1 DEF Carries
      <4>3. p \in run[r].snap /\ p \in spent
        BY <1>1, <1>3, <3>1, <4>2 DEF GiveUp, WaitRight, Seen
      <4> QED
        BY <1>1, <2>2, <4>3
    <3> QED
      BY <1>1, <3>1, <3>2, <3>3, OneRunMoves DEF Moved
  <2> QED
    BY <1>1, <2>1, <2>2 DEF Moved, WaitInv
<1> QED
  BY <1>2, <1>3

\* The network sees the bucket of a newer run, which has the PSBT, and may then
\* refuse those of others.
LEMMA WaitOverPost ==
  ASSUME Inv, Inv', WaitInv, NEW r \in Run, Post(r)
  PROVE  WaitInv'
<1>1. /\ \A q \in Run \ {r} : run'[q] = run[q]
      /\ UNCHANGED <<ttl, waited, queue>>
      /\ spent' = spent \cup run[r].bucket
      /\ run[r].pc = "post" /\ run'[r].pc = "record"
      /\ run'[r].age = run[r].age /\ run'[r].snap = run[r].snap
      /\ run'[r].bucket = run[r].bucket
  BY DEF Post, Inv, TypeOK, RunState
<1>2. ASSUME NEW p \in queue \cap Fitting PROVE WaitRight(p)'
  <2>1. /\ WaitRight(p) /\ waited'[p] = waited[p] /\ waited[p] \in Nat /\ MaxRun \in Nat
        /\ \A q \in Run : run[q].age \in Nat /\ run[q].age <= MaxRun
    BY <1>1, Numbers DEF Inv, WaitInv
  <2>2. ASSUME NEW q \in Run
        PROVE  /\ Seen(q, p)'
               /\ Posted(q, p) => Posted(q, p)'
               /\ Carries(q, p) => Carries(q, p)'
               /\ Beats(q, p) => Beats(q, p)'
    <3>1. CASE q = r
      BY <1>1, <2>1, <3>1 DEF WaitRight, Seen, Posted, Carries, Beats
    <3>2. CASE q # r
      BY <1>1, <2>1, <3>2 DEF WaitRight, Seen, Posted, Carries, Beats
    <3> QED
      BY <3>1, <3>2
  <2>3. ASSUME NEW q \in Run PROVE Beaten(q, p)'
    <3>1. SUFFICES ASSUME run'[q].pc = "post", run'[q].age + MaxRun < waited'[p]
                   PROVE  \E u \in Run : Posted(u, p)'
      BY DEF Beaten
    <3>2. run'[q].age = run[q].age
      BY <1>1
    <3>3. run[r].age < waited[p]
      BY <2>1, <3>1, <3>2
    <3>4. Posted(r, p)'
      BY <1>1, <2>1, <3>3 DEF WaitRight, Seen, Posted
    <3> QED
      BY <3>4
  <2>4. KeyRunsOut(p)' /\ Underway(p)'
    BY <1>1, <2>1, <2>2 DEF WaitRight, KeyRunsOut, Underway
  <2> QED
    BY <2>2, <2>3, <2>4 DEF WaitRight
<1> QED
  BY <1>1, <1>2 DEF WaitInv

\* A carrier that is refused was beaten by a run about to record the PSBT.
LEMMA WaitOverRefusal ==
  ASSUME Inv, Inv', WaitInv, NEW r \in Run, Refused(r)
  PROVE  WaitInv'
<1>1. /\ Moved(r) /\ queue' = queue
      /\ run[r].pc = "post" /\ run'[r].pc = "idle" /\ run[r].bucket \cap spent # {}
  BY DEF Moved, Refused, Inv, TypeOK, Idle
<1>2. ASSUME NEW p \in queue \cap Fitting PROVE WaitRight(p)'
  <2>1. /\ WaitRight(p) /\ waited'[p] = waited[p] /\ waited[p] \in Nat
        /\ Week \in Nat /\ MaxRun \in Nat
        /\ \A q \in Run : run[q].age \in Nat /\ run[q].age <= MaxRun
    BY <1>1, Numbers DEF Inv, WaitInv, Moved
  <2>2. Seen(r, p)' /\ ~Posted(r, p) /\ Beaten(r, p)'
    BY <1>1 DEF Seen, Posted, Beaten
  <2>3. ASSUME Carries(r, p) PROVE \E q \in Run : (Carries(q, p) \/ Beats(q, p))'
    <3>1. waited[p] = Week + MaxRun + 1 + run[r].age
      BY <2>3 DEF Carries
    <3>2. run[r].age + MaxRun < waited[p]
      BY <2>1, <3>1
    <3>3. PICK q \in Run : Posted(q, p)
      BY <1>1, <2>1, <3>2 DEF WaitRight, Beaten
    <3>4. run'[q] = run[q]
      BY <1>1, <3>3 DEF Moved, Posted
    <3>5. waited[p] <= Week + MaxRun + 1 + MaxRun + run[q].age
      BY <2>1, <3>1
    <3>6. Beats(q, p)'
      BY <2>1, <3>3, <3>4, <3>5 DEF Beats, Posted
    <3> QED
      BY <3>6
  <2> QED
    BY <1>1, <2>1, <2>2, <2>3, OneRunMoves DEF Moved
<1> QED
  BY <1>1, <1>2 DEF Moved, WaitInv

\* The two invariants are inductive together.
LEMMA WaitStep == Inv /\ WaitInv /\ [Next]_vars => WaitInv'
<1> SUFFICES ASSUME Inv, WaitInv, [Next]_vars PROVE WaitInv'
  OBVIOUS
<1>1. Inv'
  BY InvStep
<1>2. CASE \/ \E p \in Psbt : Add(p) \/ Revoke(p)
           \/ StoreRate \/ Expire \/ AskMinimum \/ AskMaximum
  BY <1>1, <1>2, WaitOutside
<1>3. CASE Crash \/ \E r \in Run : NoRate(r) \/ RunFails(r)
  BY <1>1, <1>3, WaitAfterFault
<1>4. CASE Tick
  BY <1>1, <1>4, WaitOverTick
<1>5. ASSUME NEW r \in Run,
             \/ TakeSnapshot(r) \/ ReadExpiration(r) \/ ReadThreshold(r)
             \/ ResetEmpty(r) \/ Record(r) \/ Build(r) \/ GiveUp(r) \/ Post(r) \/ Refused(r)
      PROVE  WaitInv'
  BY <1>1, <1>5, WaitOverReading, WaitOverReset, WaitOverBuild, WaitOverPost, WaitOverRefusal
<1>6. CASE UNCHANGED vars
  BY <1>6 DEF vars, WaitInv, WaitRight, Seen, Beaten, Posted, KeyRunsOut, Underway, Carries,
              Beats
<1> QED
  BY <1>2, <1>3, <1>4, <1>5, <1>6 DEF Next

\* Without faults a PSBT that fits waits for the week, until older runs are over, for
\* the next run, and if that is beaten to the post for the run that beat it
\* (batchTransactions), however many runs overlap.
THEOREM WaitIsBounded == Spec => []WaitBounded
<1>1. Init => WaitInv
  <2>1. \A r \in Run : Init => run[r].pc = "idle"
    BY DEF Init, Idle
  <2> QED
    BY <2>1 DEF Init, WaitInv
<1>2. Inv /\ WaitInv => WaitBounded
  <2> SUFFICES ASSUME Inv, WaitInv, NEW p \in queue \cap Fitting
               PROVE  waited[p] <= Week + 1 + 3 * MaxRun
    BY DEF WaitBounded
  <2>1. /\ WaitRight(p) /\ waited[p] \in Nat /\ Week \in Nat /\ MaxRun \in Nat
        /\ \A r \in Run : run[r].age \in Nat /\ run[r].age <= MaxRun
    BY Numbers DEF Inv, WaitInv
  <2>2. CASE waited[p] > Week + MaxRun
    <3>1. PICK r \in Run : Carries(r, p) \/ Beats(r, p)
      BY <2>1, <2>2 DEF WaitRight, Underway
    <3>2. waited[p] <= Week + MaxRun + 1 + MaxRun + run[r].age
      BY <2>1, <3>1 DEF Carries, Beats
    <3> QED
      BY <2>1, <3>2
  <2>3. CASE ~(waited[p] > Week + MaxRun)
    BY <2>1, <2>3
  <2> QED
    BY <2>2, <2>3
<1> QED
  BY <1>1, <1>2, InvHolds, WaitStep, PTL DEF Spec

=============================================================================
