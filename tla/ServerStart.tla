----------------------------- MODULE ServerStart -----------------------------
(***************************************************************************)
(* How the server opens: startServer, at boot or by POST /v1/start, with   *)
(* decryptConfig, the two database connections, the wallets and the cron   *)
(* jobs.  Requests overlap while one of them awaits the connections, and   *)
(* a connection may break and come back, which fires "ready" once more.    *)
(***************************************************************************)
EXTENDS Naturals, FiniteSets

CONSTANTS
  Request,   \* requests to POST /v1/start
  Boot,      \* the call in server.ts
  MaxDrops   \* bound on broken connections

VARIABLES
  protected,  \* PASSWORDPROTECTION
  loaded,     \* all four secrets are in the environment
  sound,      \* how many wallet keys load before the first that throws
  password,   \* what each request sends
  decrypted,
  start,      \* progress of each call of startServer
  client,     \* state of the two DatabaseClients each call creates
  readyCount, \* of each call of initDatabase
  wallets,    \* wallets loaded, in the order of initWallets
  scheduled,  \* calls of initJobs
  drops

config == <<protected, loaded, sound, password>>
vars   == <<config, decrypted, start, client, readyCount, wallets, scheduled, drops>>

Caller == Request \cup {Boot}
Database == {"db", "cacheDB"}
WalletCount == 3

NoClients == [d \in Database |-> "none"]
Connecting == [d \in Database |-> "connecting"]
\* With a garbled password Redis refuses every attempt; the client keeps trying.
Refused == [d \in Database |-> "refused"]

ASSUME ConstantsAssumption ==
  /\ Boot \notin Request
  /\ IsFiniteSet(Request)
  /\ MaxDrops \in Nat

\* server.ts opens the server by itself without protection. Mutant: always.
Unasked == "idle"
AtBoot == IF protected THEN "unused" ELSE "idle"

Init ==
  /\ protected \in BOOLEAN /\ loaded \in BOOLEAN
  /\ sound \in 0 .. WalletCount
  \* "garbling" is a wrong password under which DB_AUTH happens to decrypt to
  \* some text, which is all that decryptConfig asks for.
  /\ password \in [Request -> {"right", "wrong", "garbling"}]
  /\ decrypted = FALSE
  /\ start = [c \in Caller |-> IF c = Boot THEN AtBoot ELSE "idle"]
  /\ client = [c \in Caller |-> NoClients]
  /\ readyCount = [c \in Caller |-> 0]
  /\ wallets = 0 /\ scheduled = 0 /\ drops = 0

-----------------------------------------------------------------------------

\* server.ts calls startServer before it listens; startController begins by
\* looking at decrypted.
Called(c) == start[c] = "idle" /\ (c = Boot \/ start[Boot] # "idle")

StartTo(c, pc) == start' = [start EXCEPT ![c] = pc]

AlreadyOpen(c) ==
  /\ Called(c) /\ decrypted
  /\ StartTo(c, "success")
  /\ UNCHANGED <<config, decrypted, client, readyCount, wallets, scheduled, drops>>

\* decryptConfig hands out the secrets as they are without protection.
Right(c) == loaded /\ (~protected \/ (c # Boot /\ password[c] = "right"))
Garbled(c) == loaded /\ protected /\ c # Boot /\ password[c] = "garbling"

\* "Config not loaded" or "Password invalid".
Reject(c) ==
  /\ Called(c) /\ ~decrypted
  /\ ~Right(c) /\ ~Garbled(c)
  /\ StartTo(c, "failed")
  /\ UNCHANGED <<config, decrypted, client, readyCount, wallets, scheduled, drops>>

\* setDecrypted before the first await. Mutant: left for later.
StillClosed == decrypted
Opened == TRUE

\* decryptConfig and the synchronous part of initDatabase.
Connect(c, state) == [client EXCEPT ![c] = state]

Enter(c) ==
  /\ Called(c) /\ ~decrypted
  /\ Right(c) \/ Garbled(c)
  /\ decrypted' = Opened
  /\ client' = Connect(c, IF Right(c) THEN Connecting ELSE Refused)
  /\ StartTo(c, "waiting")
  /\ UNCHANGED <<config, readyCount, wallets, scheduled, drops>>

\* One of the other secrets decrypts to malformed text after setDecrypted(true).
Halfway(c) ==
  /\ Called(c) /\ ~decrypted
  /\ Garbled(c)
  /\ decrypted' = Opened
  /\ StartTo(c, "halfway")
  /\ UNCHANGED <<config, client, readyCount, wallets, scheduled, drops>>

\* resolveIfReady, with dbCount = 2. Mutant: one more than there are.
OneTooMany(n) == n = 3
AllReady(n) == n = 2

\* Mutant: what initWallets throws is swallowed where it is called.
ResumeSwallowing(c) ==
  /\ wallets' = sound
  /\ scheduled' = IF sound = WalletCount THEN scheduled + 1 ELSE scheduled
  /\ StartTo(c, "success")

\* The rest of startServer, in the tick that resolves initDatabase. initJobs is not
\* reached when initWallets throws.
Resume(c) ==
  /\ wallets' = sound
  /\ scheduled' = IF sound = WalletCount THEN scheduled + 1 ELSE scheduled
  /\ StartTo(c, IF sound = WalletCount THEN "success" ELSE "failed")

Ready(c, d) ==
  /\ client[c][d] = "connecting"
  /\ client' = [client EXCEPT ![c][d] = "ready"]
  /\ readyCount' = [readyCount EXCEPT ![c] = @ + 1]
  /\ IF AllReady(readyCount'[c]) THEN Resume(c) ELSE UNCHANGED <<start, wallets, scheduled>>
  /\ UNCHANGED <<config, decrypted, drops>>

\* The client reconnects by itself, and reports ready again.
Drop(c, d) ==
  /\ drops < MaxDrops
  /\ client[c][d] = "ready"
  /\ client' = [client EXCEPT ![c][d] = "connecting"]
  /\ drops' = drops + 1
  /\ UNCHANGED <<config, decrypted, start, readyCount, wallets, scheduled>>

Next ==
  \E c \in Caller :
    \/ AlreadyOpen(c) \/ Reject(c) \/ Enter(c) \/ Halfway(c)
    \/ \E d \in Database : Ready(c, d) \/ Drop(c, d)

\* Redis is reachable in the end. Nobody has to start the server.
Spec ==
  /\ Init /\ [][Next]_vars
  /\ \A c \in Caller : \A d \in Database : WF_vars(Ready(c, d))

-----------------------------------------------------------------------------

TypeOK ==
  /\ protected \in BOOLEAN /\ loaded \in BOOLEAN
  /\ sound \in 0 .. WalletCount
  /\ password \in [Request -> {"right", "wrong", "garbling"}]
  /\ decrypted \in BOOLEAN
  /\ start \in [Caller -> {"unused", "idle", "waiting", "halfway", "success", "failed"}]
  /\ protected <=> start[Boot] = "unused"
  /\ client \in [Caller -> [Database -> {"none", "connecting", "refused", "ready"}]]
  /\ readyCount \in [Caller -> Nat]
  /\ wallets \in 0 .. WalletCount
  /\ scheduled \in Nat
  /\ drops \in 0 .. MaxDrops

\* However many requests overlap, and however often a connection comes back,
\* the cron jobs are scheduled at most once: two schedules would batch the same
\* queue twice every ten minutes.
JobsScheduledOnce == scheduled <= 1

\* A call that awaits connections with the right secrets is answered, whatever
\* the order of the two "ready" events and with connections that break.
StartCompletes ==
  \A c \in Caller :
    (start[c] = "waiting" /\ Right(c)) ~> (start[c] \in {"success", "failed"})

\* A request may be told "success: true" by a server without cron jobs, as later
\* starts look at decrypted only. That happens in two cases and no other: the call
\* that set it still waits for its connections, or it was answered that it failed,
\* half-way through the secrets or for its wallets (startController, startServer).
FailedOpening(c) == start[c] = "halfway" \/ (start[c] = "failed" /\ client[c] # NoClients)

JobsUnlessFailed ==
  (\E c \in Caller : start[c] = "success") =>
    scheduled > 0 \/ \E c \in Caller : start[c] = "waiting" \/ FailedOpening(c)

==============================================================================
