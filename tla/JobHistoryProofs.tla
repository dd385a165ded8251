-------------------------- MODULE JobHistoryProofs --------------------------
(* Proofs about JobHistory: its types and the bound on the history, for any *)
(* number of overlapping runs, any MAX_ENTRIES above one and any faults.    *)
EXTENDS JobHistory, FiniteSetTheorems, TLAPS

\* The runs whose RUNNING event waits for its end.
Logged == {r \in Run : run[r].logged}

\* Dates: a run does not end before it starts, nor start in the future.
DatesOrdered ==
  \A r \in Run :
    /\ run[r].start <= clock
    /\ run[r].pc \in {"ended", "counted"} => run[r].start <= run[r].end

\* The size that a run has read is the size of the history until it writes,
\* since only the run that holds the connection writes.
CountIsCurrent ==
  \A r \in Run : run[r].pc = "counted" =>
    holder = r /\ run[r].count = Cardinality(history)

Inv ==
  /\ TypeOK
  /\ DatesOrdered
  /\ CountIsCurrent
  /\ Cardinality(Logged) <= unended
  /\ HistoryBounded

-----------------------------------------------------------------------------

\* The set Logged is finite.
LEMMA LoggedFinite == IsFiniteSet(Logged) /\ Cardinality(Logged) \in Nat
<1>1. Logged \in SUBSET Run
  BY DEF Logged
<1> QED
  BY <1>1, ConstantsAssumption, FS_Subset, FS_CardinalityType

\* One more run whose event is logged.
LEMMA LoggedMore ==
  ASSUME NEW r \in Run, Logged' = Logged \cup {r}
  PROVE  Cardinality(Logged') \in Nat /\ Cardinality(Logged') <= Cardinality(Logged) + 1
<1>1. /\ IsFiniteSet(Logged \cup {r})
      /\ Cardinality(Logged \cup {r}) =
           IF r \in Logged THEN Cardinality(Logged) ELSE Cardinality(Logged) + 1
  BY LoggedFinite, FS_AddElement
<1> QED
  BY <1>1, LoggedFinite

\* ZADD adds at most one member.
LEMMA AddOne ==
  ASSUME NEW S, IsFiniteSet(S), NEW e
  PROVE  /\ IsFiniteSet(S \cup {e})
         /\ Cardinality(S) \in Nat /\ Cardinality(S \cup {e}) \in Nat
         /\ Cardinality(S \cup {e}) <= Cardinality(S) + 1
BY FS_AddElement, FS_CardinalityType

\* Two popped and one added make up for an event that has its end.
LEMMA OneLess ==
  ASSUME NEW c \in Nat, NEW m \in Nat, NEW u \in Nat, NEW v \in Nat,
         c + 1 <= m + u, u <= v + 1
  PROVE  c <= m + v
OBVIOUS

\* What is left when two members are popped.
LEMMA PopTwo ==
  ASSUME NEW H, IsFiniteSet(H), NEW S \in SUBSET H, Cardinality(S) = 2
  PROVE  IsFiniteSet(H \ S) /\ Cardinality(H \ S) = Cardinality(H) - 2
<1>1. H \cap S = S
  OBVIOUS
<1>2. /\ IsFiniteSet(H \ S)
      /\ Cardinality(H \ S) = Cardinality(H) - Cardinality(H \cap S)
  BY FS_Difference
<1> QED
  BY <1>1, <1>2

\* The invariant holds initially.
LEMMA InvInit == Init => Inv
<1> SUFFICES ASSUME Init PROVE Inv
  OBVIOUS
<1>1. TypeOK
  BY FS_EmptySet DEF Init, TypeOK, RunState, Idle
<1>2. DatesOrdered /\ CountIsCurrent
  BY DEF Init, DatesOrdered, CountIsCurrent, Idle
<1>3. Logged = {}
  BY DEF Init, Logged, Idle
<1>4. Cardinality(Logged) <= unended
  BY <1>3, FS_EmptySet DEF Init
<1>5. HistoryBounded
  BY FS_EmptySet, ConstantsAssumption DEF Init, HistoryBounded
<1> QED
  BY <1>1, <1>2, <1>4, <1>5 DEF Inv

-----------------------------------------------------------------------------

\* The steps that leave history, holder and unended alone and log nothing.
LEMMA QuietStep ==
  ASSUME Inv, TypeOK', DatesOrdered', UNCHANGED <<history, unended>>,
         Logged' \in SUBSET Logged, CountIsCurrent'
  PROVE  Inv'
<1>1. Cardinality(Logged') <= Cardinality(Logged) /\ Cardinality(Logged') \in Nat
  BY LoggedFinite, FS_Subset, FS_CardinalityType
<1>2. Cardinality(Logged') <= unended'
  BY <1>1, LoggedFinite DEF Inv, TypeOK
<1> QED
  BY <1>2 DEF Inv, HistoryBounded

\* A run begins.
LEMMA StartStep ==
  ASSUME Inv, NEW r \in Run, Start(r)
  PROVE  Inv'
<1> USE DEF Inv, Start
<1>1. TypeOK'
  BY DEF TypeOK, RunState, Idle
<1>2. DatesOrdered'
  BY DEF TypeOK, RunState, DatesOrdered, Idle
<1>3. CountIsCurrent'
  BY DEF TypeOK, RunState, CountIsCurrent, Idle
<1>4. Logged' \in SUBSET Logged
  BY DEF TypeOK, RunState, Logged, Idle
<1> QED
  BY <1>1, <1>2, <1>3, <1>4, QuietStep

\* The RUNNING event is added while nobody has read the size.
LEMMA LogStartStep ==
  ASSUME Inv, NEW r \in Run, LogStart(r)
  PROVE  Inv'
<1> USE DEF Inv, LogStart
<1>1. StartEvent(r) \in Event
  BY DEF StartEvent, Event, TypeOK, RunState
<1>2. /\ IsFiniteSet(history') /\ Cardinality(history) \in Nat
      /\ Cardinality(history') \in Nat
      /\ Cardinality(history') <= Cardinality(history) + 1
  BY AddOne DEF TypeOK
<1>3. TypeOK'
  <2>1. run' \in [Run -> RunState]
    BY DEF TypeOK, RunState
  <2>2. history' \subseteq Event
    BY <1>1 DEF TypeOK
  <2> QED
    BY <1>2, <2>1, <2>2 DEF TypeOK
<1>4. DatesOrdered'
  BY DEF TypeOK, RunState, DatesOrdered
<1>5. CountIsCurrent'
  BY ConstantsAssumption DEF TypeOK, RunState, CountIsCurrent, Connection
<1>6. Logged' = Logged \cup {r}
  BY DEF TypeOK, RunState, Logged
<1>7. Cardinality(Logged') <= unended'
  <2>1. Cardinality(Logged') \in Nat /\ Cardinality(Logged') <= Cardinality(Logged) + 1
    BY <1>6, LoggedMore
  <2>2. unended' = unended + 1 /\ unended \in Nat /\ Cardinality(Logged) <= unended
    BY DEF TypeOK
  <2> QED
    BY <2>1, <2>2, LoggedFinite
<1>8. HistoryBounded'
  BY <1>2, ConstantsAssumption DEF HistoryBounded, TypeOK
<1> QED
  BY <1>3, <1>4, <1>5, <1>7, <1>8

\* The RUNNING event is not added.
LEMMA LogStartFailsStep ==
  ASSUME Inv, NEW r \in Run, LogStartFails(r)
  PROVE  Inv'
<1> USE DEF Inv, LogStartFails
<1>1. TypeOK'
  BY DEF TypeOK, RunState, Fault
<1>2. DatesOrdered'
  BY DEF TypeOK, RunState, DatesOrdered
<1>3. CountIsCurrent'
  BY DEF TypeOK, RunState, CountIsCurrent
<1>4. Logged' \in SUBSET Logged
  BY DEF TypeOK, RunState, Logged
<1> QED
  BY <1>1, <1>2, <1>3, <1>4, QuietStep

\* The job is over.
LEMMA FinishStep ==
  ASSUME Inv, NEW r \in Run, Finish(r)
  PROVE  Inv'
<1> USE DEF Inv, Finish
<1>1. TypeOK'
  <2>1. PICK ok \in BOOLEAN :
          run' = [run EXCEPT ![r].pc = "ended", ![r].end = clock, ![r].ok = ok]
    OBVIOUS
  <2>2. run' \in [Run -> RunState]
    <3>1. run[r] \in RunState
      BY DEF TypeOK
    <3>2. clock \in Nat
      BY DEF TypeOK
    <3>3. [run[r] EXCEPT !.pc = "ended", !.end = clock, !.ok = ok] \in RunState
      BY <3>1, <3>2 DEF RunState
    <3>4. run' = [run EXCEPT ![r] = [run[r] EXCEPT !.pc = "ended", !.end = clock, !.ok = ok]]
      BY <2>1
    <3> QED
      BY <3>3, <3>4 DEF TypeOK
  <2> QED
    BY <2>2 DEF TypeOK
<1>2. DatesOrdered'
  BY DEF TypeOK, RunState, DatesOrdered
<1>3. CountIsCurrent'
  BY DEF TypeOK, RunState, CountIsCurrent
<1>4. Logged' \in SUBSET Logged
  BY DEF TypeOK, RunState, Logged
<1> QED
  BY <1>1, <1>2, <1>3, <1>4, QuietStep

\* The connection was free, so nobody else has read the size.
LEMMA CountEventsStep ==
  ASSUME Inv, NEW r \in Run, CountEvents(r)
  PROVE  Inv'
<1> USE DEF Inv, CountEvents
<1>1. TypeOK'
  BY FS_CardinalityType DEF TypeOK, RunState
<1>2. DatesOrdered'
  BY DEF TypeOK, RunState, DatesOrdered
<1>3. CountIsCurrent'
  BY ConstantsAssumption DEF TypeOK, RunState, CountIsCurrent, Connection
<1>4. Logged' \in SUBSET Logged
  BY DEF TypeOK, RunState, Logged
<1> QED
  BY <1>1, <1>2, <1>3, <1>4, QuietStep

\* The end is added to a history that was not full, or that two events left.
LEMMA LogEndStep ==
  ASSUME Inv, NEW r \in Run, LogEnd(r)
  PROVE  Inv'
<1> USE DEF Inv
<1>1. PICK S \in SUBSET history :
        Popped(r, S) /\ history' = (history \ S) \cup {EndEvent(r)}
  BY DEF LogEnd
<1>2. EndEvent(r) \in Event
  <2>1. run[r].end - run[r].start \in Nat
    BY DEF LogEnd, DatesOrdered, TypeOK, RunState
  <2> QED
    BY <2>1 DEF EndEvent, Event, TypeOK, RunState
<1>3. /\ IsFiniteSet(history) /\ Cardinality(history) \in Nat
      /\ run[r].count = Cardinality(history)
  BY FS_CardinalityType DEF TypeOK, LogEnd, CountIsCurrent
<1>4. IsFiniteSet(history \ S) /\ Cardinality(history \ S) \in Nat
  BY <1>3, FS_Subset, FS_CardinalityType
<1>5. /\ IsFiniteSet(history') /\ Cardinality(history') \in Nat
      /\ Cardinality(history') <= Cardinality(history \ S) + 1
  BY <1>1, <1>4, AddOne
<1>6. /\ Logged' = Logged \ {r}
      /\ unended' = IF r \in Logged THEN unended - 1 ELSE unended
  BY DEF LogEnd, Logged, TypeOK, RunState, Idle
<1>7. /\ Cardinality(Logged') = IF r \in Logged THEN Cardinality(Logged) - 1
                                ELSE Cardinality(Logged)
      /\ Cardinality(Logged') \in Nat
  BY <1>6, LoggedFinite, FS_RemoveElement, FS_CardinalityType
<1>8. unended' \in Nat /\ Cardinality(Logged') <= unended'
  BY <1>6, <1>7, LoggedFinite DEF TypeOK
<1>9. TypeOK'
  BY <1>1, <1>2, <1>5, <1>8 DEF TypeOK, LogEnd, RunState, Idle
<1>10. DatesOrdered'
  BY DEF LogEnd, TypeOK, RunState, DatesOrdered, Idle
<1>11. CountIsCurrent'
  BY DEF LogEnd, TypeOK, RunState, CountIsCurrent, Idle
<1>12. HistoryBounded'
  <2>1. unended <= unended' + 1
    BY <1>6 DEF TypeOK
  <2>2. CASE run[r].count >= MaxEntries
    <3>1. Cardinality(history \ S) = Cardinality(history) - 2
      BY <1>1, <1>3, <2>2, PopTwo DEF Popped, Oldest
    <3>2. Cardinality(history') + 1 <= MaxEntries + unended
      BY <1>3, <1>5, <3>1, ConstantsAssumption DEF HistoryBounded, TypeOK
    <3> QED
      <4>1. unended \in Nat /\ MaxEntries \in Nat
        BY ConstantsAssumption DEF TypeOK
      <4>2. Cardinality(history') <= MaxEntries + unended'
        BY <1>5, <1>8, <2>1, <3>2, <4>1, OneLess
      <4> QED
        BY <4>2 DEF HistoryBounded
  <2>3. CASE ~(run[r].count >= MaxEntries)
    <3>1. S = {} /\ history \ S = history
      BY <1>1, <2>3 DEF Popped
    <3>2. Cardinality(history') <= MaxEntries
      BY <1>3, <1>5, <2>3, <3>1, ConstantsAssumption
    <3> QED
      BY <3>2, <1>5, <1>8, ConstantsAssumption DEF HistoryBounded
  <2> QED
    BY <2>2, <2>3
<1> QED
  BY <1>8, <1>9, <1>10, <1>11, <1>12

\* The end is not added.
LEMMA LogEndFailsStep ==
  ASSUME Inv, NEW r \in Run, LogEndFails(r)
  PROVE  Inv'
<1> USE DEF Inv, LogEndFails
<1>1. TypeOK'
  BY DEF TypeOK, RunState, Idle, Fault
<1>2. DatesOrdered'
  BY DEF TypeOK, RunState, DatesOrdered, Idle
<1>3. CountIsCurrent'
  BY DEF TypeOK, RunState, CountIsCurrent, Idle
<1>4. Logged' \in SUBSET Logged
  BY DEF TypeOK, RunState, Logged, Idle
<1> QED
  BY <1>1, <1>2, <1>3, <1>4, QuietStep

\* Every run is forgotten, with the RUNNING events it has logged.
LEMMA CrashStep ==
  ASSUME Inv, Crash
  PROVE  Inv'
<1> USE DEF Inv, Crash
<1>1. TypeOK'
  BY DEF TypeOK, RunState, Idle, Fault
<1>2. DatesOrdered' /\ CountIsCurrent'
  BY DEF TypeOK, DatesOrdered, CountIsCurrent, Idle
<1>3. Logged' \in SUBSET Logged
  BY DEF Logged, Idle
<1> QED
  BY <1>1, <1>2, <1>3, QuietStep

\* Time passes.
LEMMA TickStep ==
  ASSUME Inv, Tick
  PROVE  Inv'
<1> USE DEF Inv, Tick
<1>1. TypeOK'
  BY DEF TypeOK
<1>2. DatesOrdered'
  BY DEF TypeOK, RunState, DatesOrdered
<1>3. CountIsCurrent' /\ Logged' \in SUBSET Logged
  BY DEF CountIsCurrent, Logged
<1> QED
  BY <1>1, <1>2, <1>3, QuietStep

\* The invariant is inductive.
LEMMA InvStep == Inv /\ [Next]_vars => Inv'
<1> SUFFICES ASSUME Inv, [Next]_vars PROVE Inv'
  OBVIOUS
<1>1. ASSUME NEW r \in Run,
             Start(r) \/ LogStart(r) \/ LogStartFails(r) \/ Finish(r)
             \/ CountEvents(r) \/ LogEnd(r) \/ LogEndFails(r)
      PROVE  Inv'
  BY <1>1, StartStep, LogStartStep, LogStartFailsStep, FinishStep,
     CountEventsStep, LogEndStep, LogEndFailsStep
<1>2. CASE Crash
  BY <1>2, CrashStep
<1>3. CASE Tick
  BY <1>3, TickStep
<1>4. CASE UNCHANGED vars
  BY <1>4 DEF vars, Inv, TypeOK, DatesOrdered, CountIsCurrent, Logged, HistoryBounded
<1> QED
  BY <1>1, <1>2, <1>3, <1>4 DEF Next

\* The invariant holds of every reachable state.
THEOREM InvHolds == Spec => []Inv
BY InvInit, InvStep, PTL DEF Spec

\* Every reachable state is well typed: in particular no run takes less than no
\* time, and no run ends that has not begun (logJobExecution).
THEOREM TypeCorrect == Spec => []TypeOK
<1>1. Inv => TypeOK
  BY DEF Inv
<1> QED
  BY <1>1, InvHolds, PTL

\* The history has at most MAX_ENTRIES events and one for each run without a
\* logged end, however many runs overlap (logJobExecution).
THEOREM BoundedHistory == Spec => []HistoryBounded
<1>1. Inv => HistoryBounded
  BY DEF Inv
<1> QED
  BY <1>1, InvHolds, PTL

-----------------------------------------------------------------------------

\* All that a run's end pops from the history is two members, older than the rest,
\* and that only from a full history.
LEMMA PoppedAreOld ==
  ASSUME Inv, NEW r \in Run, LogEnd(r), NEW e \in history \ history'
  PROVE  Cardinality({f \in history \cap history' : e.date <= f.date}) >= MaxEntries - 2
<1> DEFINE Newer == {f \in history \cap history' : e.date <= f.date}
<1>1. PICK S \in SUBSET history :
        Popped(r, S) /\ history' = (history \ S) \cup {EndEvent(r)}
  BY DEF LogEnd
<1>2. /\ IsFiniteSet(history) /\ Cardinality(history) \in Nat
      /\ run[r].count = Cardinality(history)
  BY FS_CardinalityType DEF Inv, TypeOK, LogEnd, CountIsCurrent
<1>3. e \in S
  BY <1>1
<1>4. Oldest(S) /\ Cardinality(history) >= MaxEntries
  BY <1>1, <1>2, <1>3 DEF Popped
<1>5. IsFiniteSet(history \ S) /\ Cardinality(history \ S) = Cardinality(history) - 2
  BY <1>2, <1>4, PopTwo DEF Oldest
<1>6. history \ S \in SUBSET Newer
  BY <1>1, <1>3, <1>4 DEF Oldest
<1>7. IsFiniteSet(Newer) /\ Cardinality(Newer) \in Nat
  <2>1. Newer \in SUBSET history
    OBVIOUS
  <2> QED
    BY <1>2, <2>1, FS_Subset, FS_CardinalityType
<1>8. Cardinality(history \ S) <= Cardinality(Newer)
  BY <1>6, <1>7, FS_Subset
<1> QED
  BY <1>2, <1>4, <1>5, <1>7, <1>8, ConstantsAssumption

\* An event leaves the history only for newer ones: the size a run has read is not
\* stale when it pops two, so all but two of a full history stay, and none of them is
\* older (logJobExecution).
THEOREM OnlyOldDropped == Spec => DroppedIsOld
<1> DEFINE DropsOld ==
      \A e \in history \ history' :
        Cardinality({f \in history \cap history' : e.date <= f.date}) >= MaxEntries - 2
<1>1. Inv /\ [Next]_vars => [DropsOld]_vars
  <2> SUFFICES ASSUME Inv, Next PROVE DropsOld
    OBVIOUS
  <2>1. CASE history \subseteq history'
    BY <2>1
  <2>2. ASSUME NEW r \in Run, LogEnd(r) PROVE DropsOld
    BY <2>2, PoppedAreOld
  <2>3. history \subseteq history' \/ \E r \in Run : LogEnd(r)
    BY DEF Next, Start, LogStart, LogStartFails, Finish, CountEvents, LogEndFails, Crash, Tick
  <2> QED
    BY <2>1, <2>2, <2>3
<1> QED
  BY <1>1, InvHolds, PTL DEF Spec, DroppedIsOld

=============================================================================
