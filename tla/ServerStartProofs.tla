--------------------------- MODULE ServerStartProofs ---------------------------
(***************************************************************************)
(* The safety properties of ServerStart for any number of requests and of  *)
(* broken connections.  That the jobs are scheduled once rests on one call *)
(* owning the connections, and on its count of "ready" events passing two  *)
(* a single time.                                                          *)
(***************************************************************************)
EXTENDS ServerStart, TLAPS

\* A call that has created clients; while the server is closed there is none.
ClosedIsUntouched ==
  ~decrypted => \A c \in Caller : client[c] = NoClients /\ start[c] \notin {"halfway", "success"}

OneOwner ==
  \A c, e \in Caller : client[c] # NoClients /\ client[e] # NoClients => c = e

OwnerCalled == \A c \in Caller : client[c] # NoClients => start[c] \notin {"unused", "idle"}

CountsOwnEvents == \A c \in Caller : client[c] = NoClients => readyCount[c] = 0

\* passwordProtection lets requests through once decrypted is set; the database
\* clients they use exist by then, unless a wrong password got halfway.
OpenHasDatabase ==
  decrypted => \E c \in Caller : client[c] # NoClients \/ start[c] = "halfway"

NothingScheduledBefore ==
  (\A c \in Caller : readyCount[c] < 2) => scheduled = 0

\* The call that owns the clients is told of success when it has scheduled the jobs.
OwnerSchedules ==
  \A c \in Caller : client[c] # NoClients /\ start[c] = "success" => scheduled > 0

IInv ==
  /\ TypeOK
  /\ ClosedIsUntouched /\ OneOwner /\ OwnerCalled /\ CountsOwnEvents
  /\ NothingScheduledBefore
  /\ JobsScheduledOnce /\ OpenHasDatabase /\ OwnerSchedules

\* Before a start everything is untouched.
LEMMA InitEstablishes == Init => IInv
<1> SUFFICES ASSUME Init PROVE IInv
  OBVIOUS
<1> USE ConstantsAssumption DEF Init, Caller
<1>1. TypeOK
  <2>1. client \in [Caller -> [Database -> {"none", "connecting", "refused", "ready"}]]
    BY DEF NoClients
  <2>2. AtBoot \in {"unused", "idle"} /\ "unused" # "idle"
    BY DEF AtBoot
  <2>3. start[Boot] = AtBoot
    OBVIOUS
  <2>4. protected <=> start[Boot] = "unused"
    BY <2>2, <2>3, Zenon DEF AtBoot
  <2>5. start \in [Caller -> {"unused", "idle", "waiting", "halfway", "success", "failed"}]
    BY <2>2
  <2>6. readyCount \in [Caller -> Nat] /\ sound \in 0 .. WalletCount
        /\ wallets \in 0 .. WalletCount /\ scheduled \in Nat /\ drops \in 0 .. MaxDrops
    BY DEF WalletCount
  <2>7. protected \in BOOLEAN /\ loaded \in BOOLEAN /\ decrypted \in BOOLEAN
        /\ password \in [Request -> {"right", "wrong", "garbling"}]
    OBVIOUS
  <2>8. QED
    BY <2>1, <2>4, <2>5, <2>6, <2>7, Zenon DEF TypeOK
<1>2. ClosedIsUntouched /\ OneOwner /\ OwnerCalled /\ CountsOwnEvents /\ NothingScheduledBefore
  BY DEF ClosedIsUntouched, OneOwner, OwnerCalled, CountsOwnEvents, NothingScheduledBefore, AtBoot
<1>3. JobsScheduledOnce /\ OpenHasDatabase /\ OwnerSchedules
  BY DEF JobsScheduledOnce, OpenHasDatabase, OwnerSchedules
<1>4. QED
  BY <1>1, <1>2, <1>3 DEF IInv

\* Every step keeps the invariant; only Ready schedules jobs.
LEMMA StepPreserves == IInv /\ [Next]_vars => IInv'
<1> SUFFICES ASSUME IInv, [Next]_vars PROVE IInv'
  OBVIOUS
<1> USE ConstantsAssumption DEF IInv, Caller, config
<1>1. ASSUME NEW c \in Caller, AlreadyOpen(c) PROVE IInv'
  <2>1. TypeOK'
    BY <1>1 DEF AlreadyOpen, Called, StartTo, TypeOK
  <2>2. OpenHasDatabase'
    BY <1>1 DEF AlreadyOpen, Called, StartTo, TypeOK, OpenHasDatabase
  <2>3. QED
    BY <1>1, <2>1, <2>2
    DEF AlreadyOpen, Called, OwnerSchedules, StartTo, TypeOK, ClosedIsUntouched, OneOwner, OwnerCalled, CountsOwnEvents,
        NothingScheduledBefore, JobsScheduledOnce
<1>2. ASSUME NEW c \in Caller, Reject(c) PROVE IInv'
  <2>1. TypeOK'
    BY <1>2 DEF Reject, Called, StartTo, TypeOK
  <2>2. ClosedIsUntouched' /\ OpenHasDatabase'
    BY <1>2 DEF Reject, Called, StartTo, TypeOK, ClosedIsUntouched, OpenHasDatabase
  <2>3. QED
    BY <1>2, <2>1, <2>2
    DEF Reject, StartTo, TypeOK, OneOwner, OwnerCalled, CountsOwnEvents, NothingScheduledBefore,
        JobsScheduledOnce, OwnerSchedules
<1>3. ASSUME NEW c \in Caller, Enter(c) PROVE IInv'
  <2>1. TypeOK'
    BY <1>3 DEF Enter, Called, StartTo, TypeOK, Opened, Connect, Connecting, Refused, Database
  <2>2. client'[c] # NoClients /\ \A e \in Caller \ {c} : client'[e] = NoClients
    BY <1>3 DEF Enter, TypeOK, Connect, Connecting, Refused, NoClients, Database, ClosedIsUntouched
  <2>3. OpenHasDatabase' /\ ClosedIsUntouched' /\ OneOwner' /\ OwnerCalled'
    BY <1>3, <2>2 DEF Enter, Opened, StartTo, TypeOK, OpenHasDatabase, ClosedIsUntouched, OneOwner, OwnerCalled, NoClients
  <2>4. CountsOwnEvents'
    BY <1>3, <2>2 DEF Enter, CountsOwnEvents, ClosedIsUntouched, NoClients
  <2>5. OwnerSchedules'
    BY <1>3, <2>2 DEF Enter, StartTo, TypeOK, OwnerSchedules
  <2>6. QED
    BY <1>3, <2>1, <2>3, <2>4, <2>5 DEF Enter, NothingScheduledBefore, JobsScheduledOnce
<1>4. ASSUME NEW c \in Caller, Halfway(c) PROVE IInv'
  <2>1. TypeOK'
    BY <1>4 DEF Halfway, Called, StartTo, TypeOK, Opened
  <2>2. OpenHasDatabase' /\ ClosedIsUntouched'
    BY <1>4 DEF Halfway, StartTo, TypeOK, Opened, OpenHasDatabase, ClosedIsUntouched
  <2>3. QED
    BY <1>4, <2>1, <2>2
    DEF Halfway, StartTo, TypeOK, OneOwner, OwnerCalled, CountsOwnEvents, NothingScheduledBefore,
        JobsScheduledOnce, OwnerSchedules
<1>5. ASSUME NEW c \in Caller, NEW d \in Database, Ready(c, d) PROVE IInv'
  <2>1. /\ client[c] # NoClients /\ client'[c] # NoClients
        /\ \A e \in Caller \ {c} : client'[e] = client[e] /\ readyCount'[e] = readyCount[e]
        /\ readyCount'[c] = readyCount[c] + 1
    BY <1>5 DEF Ready, TypeOK, NoClients
  <2>2. \A e \in Caller \ {c} : client[e] = NoClients /\ readyCount[e] = 0
    BY <2>1 DEF OneOwner, OwnerCalled, CountsOwnEvents
  <2>3. TypeOK'
    BY <1>5, <2>1 DEF Ready, Resume, StartTo, TypeOK, WalletCount, OwnerCalled, AllReady
  <2>4. ClosedIsUntouched' /\ OneOwner' /\ OwnerCalled' /\ CountsOwnEvents' /\ OpenHasDatabase'
    BY <1>5, <2>1, <2>2
    DEF Ready, Resume, StartTo, TypeOK, ClosedIsUntouched, OneOwner, OwnerCalled, CountsOwnEvents, OpenHasDatabase, NoClients
  <2>5. NothingScheduledBefore' /\ JobsScheduledOnce'
    <3>1. CASE readyCount[c] = 1
      <4>1. scheduled = 0
        BY <2>2, <3>1 DEF NothingScheduledBefore
      <4>2. QED
        BY <1>5, <2>1, <3>1, <4>1
        DEF Ready, AllReady, Resume, NothingScheduledBefore,
            JobsScheduledOnce
    <3>2. CASE readyCount[c] # 1
      <4>1. UNCHANGED <<wallets, scheduled>>
        BY <1>5, <2>1, <3>2 DEF Ready, AllReady, TypeOK
      <4>2. readyCount'[c] < 2 => readyCount[c] < 2
        BY <2>1 DEF TypeOK
      <4>3. QED
        BY <2>1, <4>1, <4>2 DEF NothingScheduledBefore, JobsScheduledOnce
    <3>3. QED
      BY <3>1, <3>2
  <2>6. OwnerSchedules'
    BY <1>5, <2>1, <2>2 DEF Ready, Resume, StartTo, TypeOK, OwnerSchedules
  <2>7. QED
    BY <2>3, <2>4, <2>5, <2>6
<1>6. ASSUME NEW c \in Caller, NEW d \in Database, Drop(c, d) PROVE IInv'
  <2>1. TypeOK'
    BY <1>6 DEF Drop, TypeOK
  <2>2. client[c] # NoClients /\ \A e \in Caller : client'[e] = NoClients <=> client[e] = NoClients
    BY <1>6 DEF Drop, TypeOK, NoClients
  <2>3. QED
    BY <1>6, <2>1, <2>2
    DEF Drop, ClosedIsUntouched, OneOwner, OwnerCalled, CountsOwnEvents, NothingScheduledBefore,
        JobsScheduledOnce, OpenHasDatabase, OwnerSchedules, NoClients
<1>7. CASE UNCHANGED vars
  BY <1>7
  DEF vars, TypeOK, ClosedIsUntouched, OneOwner, OwnerCalled, CountsOwnEvents, NothingScheduledBefore,
      JobsScheduledOnce, OpenHasDatabase, OwnerSchedules
<1>8. QED
  BY <1>1, <1>2, <1>3, <1>4, <1>5, <1>6, <1>7 DEF Next

\* The invariant holds in every state of the server's opening.
LEMMA Invariant == Spec => []IInv
  BY InitEstablishes, StepPreserves, PTL DEF Spec

\* The variables of the opening keep their types (startServer, initDatabase).
THEOREM StartTypeCorrect == Spec => []TypeOK
  BY Invariant, PTL DEF IInv

\* initJobs is called at most once, whichever requests overlap and however
\* often connections come back (decryptConfig, resolveIfReady).
THEOREM JobsOnce == Spec => []JobsScheduledOnce
  BY Invariant, PTL DEF IInv

\* Who is told of success meets a server with cron jobs, or one whose opening is
\* under way or was answered as failed (startController, startServer).
THEOREM JobsOrFailure == Spec => []JobsUnlessFailed
<1>1. IInv => JobsUnlessFailed
  <2> SUFFICES ASSUME IInv, NEW c \in Caller, start[c] = "success" PROVE JobsUnlessFailed
    BY DEF JobsUnlessFailed
  <2>1. decrypted
    BY DEF IInv, ClosedIsUntouched
  <2>2. PICK e \in Caller : client[e] # NoClients \/ start[e] = "halfway"
    BY <2>1 DEF IInv, OpenHasDatabase
  <2>3. start[e] \in {"waiting", "halfway", "success", "failed"}
    BY <2>2 DEF IInv, OwnerCalled, TypeOK
  <2>4. QED
    BY <2>2, <2>3 DEF IInv, OwnerSchedules, JobsUnlessFailed, FailedOpening
<1>2. QED
  BY Invariant, <1>1, PTL

\* Requests let through by passwordProtection find the database clients,
\* a garbled password aside (setDecrypted and initDatabase in one tick).
THEOREM OpenWithDatabase == Spec => []OpenHasDatabase
  BY Invariant, PTL DEF IInv

==============================================================================
