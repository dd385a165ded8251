----------------------------- MODULE JobHistory -----------------------------
(***************************************************************************)
(* The history that logJobExecution keeps of one cron job: a sorted set    *)
(* to which each run adds a RUNNING event when it begins and an OK or      *)
(* ERROR event when it is over.  Runs overlap, since node-cron waits for   *)
(* none; both writes use the one isolated connection (db.transaction),     *)
(* but the size of the set is read on the shared one.                      *)
(***************************************************************************)
EXTENDS Naturals, FiniteSets

CONSTANTS
  Run,        \* runs of the job that may overlap
  MaxEntries, \* MAX_ENTRIES
  MaxTime,    \* bound on the clock
  MaxFaults,  \* bound on crashes and failed transactions
  Nobody

VARIABLES
  history,  \* sorted set at KEYS.JOB.PREFIX + name
  run,      \* progress of each run
  holder,   \* the run whose transaction has the isolated connection
  clock,    \* wall clock
  unended,  \* RUNNING events whose run has logged no end, for checking only
  faults

vars == <<history, run, holder, clock, unended, faults>>

ASSUME ConstantsAssumption ==
  /\ IsFiniteSet(Run)
  /\ Nobody \notin Run
  /\ MaxEntries \in Nat /\ MaxEntries >= 2
  /\ MaxTime \in Nat /\ MaxFaults \in Nat

-----------------------------------------------------------------------------

\* A member of the set; its score is its date.
Event ==
  [date : Nat, status : {"RUNNING"}, runningTime : {0}] \cup
  [date : Nat, status : {"OK", "ERROR"}, runningTime : Nat]

RunState ==
  [pc : {"idle", "starting", "running", "ended", "counted"},
   start : Nat, end : Nat, ok : BOOLEAN, logged : BOOLEAN, count : Nat]

Idle == [pc |-> "idle", start |-> 0, end |-> 0, ok |-> FALSE, logged |-> FALSE, count |-> 0]

StartEvent(r) == [date |-> run[r].start, status |-> "RUNNING", runningTime |-> 0]

\* Mutant: the difference the wrong way round.
EndEventReversed(r) ==
  [date |-> run[r].end, status |-> IF run[r].ok THEN "OK" ELSE "ERROR",
   runningTime |-> run[r].start - run[r].end]
EndEvent(r) ==
  [date |-> run[r].end, status |-> IF run[r].ok THEN "OK" ELSE "ERROR",
   runningTime |-> run[r].end - run[r].start]

Init ==
  /\ history = {}
  /\ run = [r \in Run |-> Idle]
  /\ holder = Nobody
  /\ clock = 0
  /\ unended = 0
  /\ faults = 0

Fault == faults < MaxFaults /\ faults' = faults + 1

\* executeIsolated waits for the one isolated connection.
\* Mutant: as many connections as there are transactions.
AnyConnection(r) == TRUE
Connection(r) == holder = Nobody

-----------------------------------------------------------------------------

\* node-cron calls logJobExecution.
Start(r) ==
  /\ run[r].pc = "idle"
  /\ run' = [run EXCEPT ![r] = [Idle EXCEPT !.pc = "starting", !.start = clock]]
  /\ UNCHANGED <<history, holder, clock, unended, faults>>

\* The first transaction, which reads nothing. Members that are equal are one.
LogStart(r) ==
  /\ run[r].pc = "starting" /\ Connection(r)
  /\ history' = history \cup {StartEvent(r)}
  /\ unended' = unended + 1
  /\ run' = [run EXCEPT ![r].pc = "running", ![r].logged = TRUE]
  /\ UNCHANGED <<holder, clock, faults>>

\* "transaction aborted" is only returned: the job runs all the same.
LogStartFails(r) ==
  /\ run[r].pc = "starting" /\ Connection(r)
  /\ Fault
  /\ run' = [run EXCEPT ![r].pc = "running"]
  /\ UNCHANGED <<history, holder, clock, unended>>

\* The job returns or throws.
Finish(r) ==
  /\ run[r].pc = "running"
  /\ \E ok \in BOOLEAN :
       run' = [run EXCEPT ![r].pc = "ended", ![r].end = clock, ![r].ok = ok]
  /\ UNCHANGED <<history, holder, clock, unended, faults>>

\* The second transaction, up to the answer of zCount.
CountEvents(r) ==
  /\ run[r].pc = "ended" /\ Connection(r)
  /\ holder' = r
  /\ run' = [run EXCEPT ![r].pc = "counted", ![r].count = Cardinality(history)]
  /\ UNCHANGED <<history, clock, unended, faults>>

\* ZPOPMIN of two. Members of equal score go in the order of their text, which
\* is left open. Mutant: ZPOPMAX.
Newest(S) ==
  /\ S \subseteq history /\ Cardinality(S) = 2
  /\ \A e \in S, f \in history \ S : f.date <= e.date
Oldest(S) ==
  /\ S \subseteq history /\ Cardinality(S) = 2
  /\ \A e \in S, f \in history \ S : e.date <= f.date

Popped(r, S) == IF run[r].count >= MaxEntries THEN Oldest(S) ELSE S = {}

LogEnd(r) ==
  /\ run[r].pc = "counted"
  /\ \E S \in SUBSET history :
       Popped(r, S) /\ history' = (history \ S) \cup {EndEvent(r)}
  /\ unended' = IF run[r].logged THEN unended - 1 ELSE unended
  /\ holder' = Nobody
  /\ run' = [run EXCEPT ![r] = Idle]
  /\ UNCHANGED <<clock, faults>>

\* Nothing is tried again.
LogEndFails(r) ==
  /\ run[r].pc = "counted"
  /\ Fault
  /\ holder' = Nobody
  /\ run' = [run EXCEPT ![r] = Idle]
  /\ UNCHANGED <<history, clock, unended>>

Crash ==
  /\ Fault
  /\ run' = [r \in Run |-> Idle]
  /\ holder' = Nobody
  /\ UNCHANGED <<history, clock, unended>>

Tick ==
  /\ clock < MaxTime
  /\ clock' = clock + 1
  /\ UNCHANGED <<history, run, holder, unended, faults>>

Next ==
  \/ \E r \in Run : \/ Start(r) \/ LogStart(r) \/ LogStartFails(r) \/ Finish(r)
                    \/ CountEvents(r) \/ LogEnd(r) \/ LogEndFails(r)
  \/ Crash
  \/ Tick

Spec == Init /\ [][Next]_vars

-----------------------------------------------------------------------------

TypeOK ==
  /\ history \subseteq Event /\ IsFiniteSet(history)
  /\ run \in [Run -> RunState]
  /\ holder \in Run \cup {Nobody}
  /\ clock \in Nat /\ unended \in Nat /\ faults \in Nat

\* The history holds at most MAX_ENTRIES events, and one more for each run that
\* has begun and not (or never) logged its end: the size read on another
\* connection is still the size when two events are popped and one is added,
\* in whatever order overlapping runs begin and end (logJobExecution).
HistoryBounded == Cardinality(history) <= MaxEntries + unended

\* An event is dropped only for newer ones: all but two of a full history stay
\* and none of them is older. A size that is stale when used would drop more.
DroppedIsOld ==
  [][\A e \in history \ history' :
       Cardinality({f \in history \cap history' : e.date <= f.date}) >= MaxEntries - 2]_vars

=============================================================================
