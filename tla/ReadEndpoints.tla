--------------------------- MODULE ReadEndpoints ---------------------------
(***************************************************************************)
(* What groupHug tells about the queue and about a PSBT: the GET requests  *)
(* positionInQueue, participationRate, feeRateInfo, batch and psbt/info,   *)
(* one action per await, and the cache in front of the first three, while  *)
(* PsbtLedger goes on underneath.  Time is counted in minutes.             *)
(***************************************************************************)
EXTENDS Naturals, FiniteSets

CONSTANTS
  Psbt, Outpoint, Input, Token, NoToken, NoTx,     \* as in PsbtLedger
  Siblings,   \* outputs whose transaction has another, unspent one for the same address
  Missing,    \* outputs that their transaction does not have
  Hidden,     \* PSBTs that give the value of their input in nonWitnessUtxo only
  Request,    \* requests that may be open at the same time
  Lifetime,   \* minutes an answer of each kind is cached
  MaxRun,     \* minutes a request takes at most
  Nothing     \* no id in the URL, no entry in the cache

VARIABLES
  queue, record, batch, feeIndex, broadcast, external,     \* as in PsbtLedger
  accepted, revoked,     \* PSBTs that were registered, revoked, at least once
  ask,        \* progress and answer of each request
  cache       \* KEYS.CACHE.PREFIX + URL

ledger == <<queue, record, batch, feeIndex, broadcast, external>>
past   == <<accepted, revoked>>
vars   == <<ledger, past, ask, cache>>

Ledger == INSTANCE PsbtLedger

-----------------------------------------------------------------------------

CachedKind == {"positionInQueue", "participationRate", "feeRateInfo"}

\* originalUrl. The id of a PSBT nobody has handed in yet is an unknown one.
Url == [kind : {"positionInQueue", "batch", "info"}, id : Psbt]
         \cup [kind : {"participationRate", "feeRateInfo"}, id : {Nothing}]

CachedUrl == {u \in Url : u.kind \in CachedKind}

Count == 0 .. Cardinality(Psbt)

\* positionInQueue; participants and txId of a completed batch. Rates, fees and the
\* sizes of queue and bucket are left out.
Answer == [position : Count, participants : Count, tx : Ledger!Tx \cup {NoTx}]
Zero == [position |-> 0, participants |-> 0, tx |-> NoTx]

Resting == {"idle", "answered", "notFound", "error", "hung"}

\* "known": the PSBT whose info is asked for had been accepted; "found": what
\* EXISTS said; "missed": a lookup got no answer. The age is that of the request,
\* and at rest the one its answer had when it was given.
AskState ==
  [url : Url,
   pc : Resting \cup {"cache", "rate", "exists", "txId", "lookup", "record", "members", "waiting"},
   known : BOOLEAN, age : Nat, snap : SUBSET Psbt, todo : SUBSET Psbt,
   unspent : SUBSET Psbt, found : BOOLEAN, missed : BOOLEAN, answer : Answer]

New(u, known) ==
  [url |-> u, pc |-> IF u.kind \in CachedKind THEN "cache" ELSE "record", known |-> known,
   age |-> 0, snap |-> {}, todo |-> {}, unspent |-> {}, found |-> FALSE, missed |-> FALSE,
   answer |-> Zero]

Unasked == [New([kind |-> "feeRateInfo", id |-> Nothing], FALSE) EXCEPT !.pc = "idle"]

Entry == [answer : Answer, left : Nat, age : Nat]

ASSUME ConstantsAssumption ==
  /\ IsFiniteSet(Psbt)
  /\ Input \in [Psbt -> Outpoint] /\ NoToken \notin Token /\ NoTx \notin Ledger!Tx
  /\ Siblings \subseteq Outpoint /\ Missing \subseteq Outpoint /\ Hidden \subseteq Psbt
  /\ Nothing \notin Psbt \cup Entry
  /\ Lifetime \in [CachedKind -> Nat]
  /\ MaxRun \in Nat

Init ==
  /\ Ledger!Init
  /\ accepted = {} /\ revoked = {}
  /\ ask = [r \in Request |-> Unasked]
  /\ cache = [u \in CachedUrl |-> Nothing]

-----------------------------------------------------------------------------

\* Users, the network, and the cron job: a batch is made of PSBTs that were queued
\* once. Left out are overlapping runs, which record after another has posted.
Batches ==
  \/ \E S \in (SUBSET accepted) \ {{}} :
       /\ Ledger!InputsOf(S) \cap Missing = {}
       /\ Ledger!Broadcast([ins |-> S, fee |-> feeIndex])
  \/ \E t \in broadcast : t.fee = feeIndex /\ Ledger!RecordBatch(t)

\* What accepted and revoked keep of the ledger's step.
Remember ==
  /\ accepted' = accepted \cup queue'
  /\ revoked' = revoked \cup
       {p \in Psbt : record[p].token # NoToken /\ record'[p].token = NoToken}
  /\ UNCHANGED <<ask, cache>>

Serve ==
  /\ \/ \E p \in Psbt, k \in Token : Ledger!Register(p, k)
     \/ \E p \in Psbt : Ledger!Revoke(p)
     \/ \E S \in SUBSET queue : Ledger!DropSpent(S)
     \/ Batches
     \/ \E o \in Outpoint \ Missing : Ledger!SpendElsewhere(o)
  /\ Remember

Older(s) == IF s.pc \in Resting THEN s ELSE [s EXCEPT !.age = @ + 1]
Later(e) == IF e = Nothing \/ e.left = 0 THEN Nothing
            ELSE [e EXCEPT !.left = @ - 1, !.age = @ + 1]

Tick ==
  /\ \A r \in Request : ask[r].pc \notin Resting => ask[r].age < MaxRun
  /\ ask' = [r \in Request |-> Older(ask[r])]
  /\ cache' = [u \in CachedUrl |-> Later(cache[u])]
  /\ UNCHANGED <<ledger, past>>

To(r, s) == ask' = [ask EXCEPT ![r] = s] /\ UNCHANGED <<ledger, past>>

\* The answer, and what a request keeps at rest.
Rest(r, pc, answer, age) ==
  To(r, [New(ask[r].url, ask[r].known) EXCEPT !.pc = pc, !.answer = answer, !.age = age])

Start(r, u) ==
  /\ ask[r].pc \in Resting
  /\ To(r, New(u, u.kind = "info" /\ u.id \in accepted))
  /\ UNCHANGED cache

-----------------------------------------------------------------------------
(* The cache middleware. *)

\* Mutant: the query string is left out.
CacheKeyOfPath(u) == CHOOSE v \in CachedUrl : v.kind = u.kind
CacheKey(u) == u

Hit(r) == LET e == cache[CacheKey(ask[r].url)] IN
  /\ ask[r].pc = "cache" /\ e # Nothing
  /\ Rest(r, "answered", e.answer, e.age)
  /\ UNCHANGED cache

Miss(r) ==
  /\ ask[r].pc = "cache" /\ cache[CacheKey(ask[r].url)] = Nothing
  /\ To(r, [ask[r] EXCEPT !.pc = "rate"])
  /\ UNCHANGED cache

\* setEx. Mutant: set, without a lifetime of its own.
StoredForPosition(r, answer) ==
  [answer |-> answer, left |-> Lifetime["positionInQueue"], age |-> ask[r].age]
Stored(r, answer) ==
  [answer |-> answer, left |-> Lifetime[ask[r].url.kind], age |-> ask[r].age]

-----------------------------------------------------------------------------
(* positionInQueue, participationRate, feeRateInfo *)

\* getPreferredFeeRate has no rate: INTERNAL_SERVER_ERROR.
NoRate(r) ==
  /\ ask[r].pc = "rate"
  /\ Rest(r, "error", Zero, 0)
  /\ UNCHANGED cache

Looking(s) == [s EXCEPT !.pc = "lookup", !.todo = s.snap]

\* participationRate and feeRateInfo know what to say of an empty queue.
\* Mutant: they do not.
EmptyIsNotSpecial(r) == FALSE
EmptyIsAnswered(r) == queue = {} /\ ask[r].url.kind # "positionInQueue"

ReadQueue(r) == LET s == [ask[r] EXCEPT !.snap = queue] IN
  /\ ask[r].pc = "rate"
  /\ IF EmptyIsAnswered(r) THEN Rest(r, "answered", Zero, ask[r].age)
     ELSE IF s.url.kind = "positionInQueue" THEN To(r, [s EXCEPT !.pc = "exists"])
     ELSE To(r, Looking(s))
  /\ UNCHANGED cache

ReadExists(r) ==
  /\ ask[r].pc = "exists"
  /\ To(r, [ask[r] EXCEPT !.pc = "txId", !.found = (record[ask[r].url.id] # Ledger!Absent)])
  /\ UNCHANGED cache

\* psbtExists holds when EXISTS found nothing.
TurnedAway(s) == s.snap = {} \/ s.found

ReadTxId(r) ==
  /\ ask[r].pc = "txId"
  /\ IF TurnedAway(ask[r]) \/ record[ask[r].url.id].txId # NoTx
       THEN Rest(r, "notFound", Zero, 0)
       ELSE To(r, Looking(ask[r]))
  /\ UNCHANGED cache

\* Nobody answers the request: what it awaits was rejected.
Hung(r) == To(r, [ask[r] EXCEPT !.pc = "hung", !.age = 0])

\* inputIsUnspent: any output of the transaction for that address will do.
Gone == Ledger!Spent \ Siblings

\* getUTXOForInput and inputIsUnspent, for all PSBTs at once: each lookup is
\* answered in its own time, or not at all. It throws on an output that is not there.
Lookup(r, p) ==
  /\ ask[r].pc = "lookup" /\ p \in ask[r].todo
  /\ \/ Input[p] \notin Missing /\
          To(r, [ask[r] EXCEPT !.todo = @ \ {p},
                   !.unspent = IF Input[p] \in Gone THEN @ ELSE @ \cup {p}])
     \/ Input[p] \in Missing /\ Hung(r)
     \/ To(r, [ask[r] EXCEPT !.todo = @ \ {p}, !.missed = TRUE])
  /\ UNCHANGED cache

\* addInputs throws on a second input that spends the same output.
Clash(S) == \E p, q \in S : p # q /\ Input[p] = Input[q]

\* What finalizeBatch cannot make a transaction of: nothing at all, or a clash.
Unfit(S) == S = {} \/ Clash(S)

\* positionInQueue finalizes buckets, and only those that grow by a PSBT at a time:
\* it throws if it comes to try two PSBTs that clash together.
Hang(r) == LET s == ask[r] IN
  /\ s.pc = "lookup" /\ s.todo = {}
  /\ IF s.url.kind = "positionInQueue" THEN Clash(s.unspent) ELSE Unfit(s.unspent)
  /\ Hung(r)
  /\ UNCHANGED cache

\* The order of the queue is up to its fees.
Positions(s) ==
  IF s.url.kind = "positionInQueue" /\ s.url.id \in s.unspent
    THEN 1 .. Cardinality(s.unspent) ELSE {0}

Reply(r) == LET s == ask[r] IN
  /\ s.pc = "lookup" /\ s.todo = {}
  /\ s.url.kind = "positionInQueue" \/ ~Unfit(s.unspent)
  /\ \E k \in Positions(s) :
       LET answer == [Zero EXCEPT !.position = k]
       IN /\ Rest(r, "answered", answer, s.age)
          /\ cache' = [cache EXCEPT ![CacheKey(s.url)] = Stored(r, answer)]

-----------------------------------------------------------------------------
(* batch (getBatchStatusController) and psbt/:id/info; every PSBT in a hash has one *)
(* input and one output, by its validation.                                        *)

ReadRecord(r) == LET s == ask[r] IN LET h == record[s.url.id] IN
  /\ s.pc = "record"
  /\ \/ /\ s.url.kind = "batch"
        /\ To(r, [s EXCEPT !.pc = IF h.txId = NoTx THEN "waiting" ELSE "members",
                           !.answer.tx = h.txId])
     \/ /\ s.url.kind = "info"
        /\ Rest(r, IF h.token = NoToken \/ s.url.id \in Hidden THEN "notFound" ELSE "answered",
                Zero, 0)
  /\ UNCHANGED cache

\* SCARD KEYS.BATCH + txId
CountMembers(r) == LET t == ask[r].answer.tx IN
  /\ ask[r].pc = "members"
  /\ Rest(r, "answered", [Zero EXCEPT !.participants = Cardinality(Ledger!Batched(t)), !.tx = t], 0)
  /\ UNCHANGED cache

\* getBatchStatusOverviewController; its waiting times are in BatchTimer.
CountQueue(r) ==
  /\ ask[r].pc = "waiting"
  /\ Rest(r, "answered", Zero, 0)
  /\ UNCHANGED cache

Read ==
  \/ Tick
  \/ \E r \in Request :
       \/ \E u \in Url : Start(r, u)
       \/ Hit(r) \/ Miss(r) \/ NoRate(r) \/ ReadQueue(r) \/ ReadExists(r) \/ ReadTxId(r)
       \/ \E p \in Psbt : Lookup(r, p)
       \/ Hang(r) \/ Reply(r) \/ ReadRecord(r) \/ CountMembers(r) \/ CountQueue(r)

Next == Serve \/ Read

Spec == Init /\ [][Next]_vars

-----------------------------------------------------------------------------

TypeOK ==
  /\ Ledger!TypeOK
  /\ accepted \subseteq Psbt /\ revoked \subseteq Psbt
  /\ ask \in [Request -> AskState]
  /\ cache \in [CachedUrl -> Entry \cup {Nothing}]

\* What positionInQueue comes to, as psbtExists holds when there is no hash: only a
\* PSBT that was revoked, after the queue had been read and before EXISTS, is given a
\* place in it; every other one is not found, or at place zero (getPositionInQueue,
\* cache).
PositionOnlyOfRevoked ==
  \A r \in Request : ask[r].answer.position > 0 => ask[r].url.id \in revoked

\* A request goes without an answer only when a lookup was not answered, or the queue
\* it read cannot be made a transaction of: all of it is spent, two PSBTs in it spend
\* one output, or one spends an output that does not exist; never because the queue
\* was empty (getFeeRateInfo, getParticipationRate, getPositionInQueue).
HangsOnlyOnBadQueue ==
  \A r \in Request : LET s == ask[r] IN
    s.pc = "hung" =>
      /\ s.snap # {}
      /\ \/ s.missed \/ Clash(s.snap)
         \/ Ledger!InputsOf(s.snap) \subseteq Gone
         \/ Ledger!InputsOf(s.snap) \cap Missing # {}

\* However requests overlap, no answer describes a queue older than the lifetime
\* of its kind and the time one request takes (cache and the setEx of each endpoint).
AnswerFresh ==
  \A r \in Request :
    ask[r].url.kind \in CachedKind => ask[r].age <= Lifetime[ask[r].url.kind] + MaxRun

\* A completed batch is one the network accepted, holds the PSBT asked for, and
\* counts its participants although they are read separately; and the info of a
\* PSBT accepted before it was asked for is found unless it was revoked or has no
\* witnessUtxo, also after it left the queue (getBatchStatusController,
\* getPSBTInfoController).
ToldTruth ==
  \A r \in Request : LET s == ask[r] IN
    /\ s.pc = "answered" /\ s.answer.tx # NoTx =>
         /\ s.answer.tx \in broadcast /\ s.url.id \in s.answer.tx.ins
         /\ s.answer.participants = Cardinality(s.answer.tx.ins)
    /\ s.pc = "notFound" /\ s.url.kind = "info" /\ s.known => s.url.id \in revoked \cup Hidden

=============================================================================
