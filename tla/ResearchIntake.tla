---------------------------- MODULE ResearchIntake ----------------------------
(* How a research comes into being: POST /api/research/prepare reserves a place  *)
(* in the daily quota and creates a research waiting for funding, in one         *)
(* Postgres transaction; POST /api/research/start of a backend without escrow    *)
(* counts in the key-value store (and, as a shadow, in Postgres) and creates a   *)
(* running one; the workers later consume or release a reservation. A row lock   *)
(* is held from the update of a quota bucket to the end of its transaction.      *)
EXTENDS Integers, FiniteSets, FiniteSetsExt

CONSTANTS
  Calls,         \* HTTP requests; a research is named after the call that made it
  Keys,          \* Idempotency-Keys
  Wallets, Topics,
  AsksOf,        \* what each call may ask for: [op, key, wallet, topic]
  WalletLimit, GlobalLimit,
  Mortal,        \* calls whose process, or whose finisher's process, may die
  LastDay        \* UTC days of the exploration

Asks  == [op : {"prepare", "start"}, key : Keys, wallet : Wallets, topic : Topics]
Days  == 1..LastDay
Global == "global"
Bucket == [who : Wallets \union {Global}, day : Days]

ASSUME IntakeAssumption ==
  /\ AsksOf \in [Calls -> SUBSET Asks] /\ Mortal \subseteq Calls /\ Global \notin Wallets
  /\ WalletLimit \in Nat /\ GlobalLimit \in Nat /\ LastDay \in Nat \ {0}

VARIABLES
  day,      \* the UTC day
  shadow,   \* ARC_RESEARCH_QUOTA_SHADOW_ENABLED
  call,     \* the HTTP requests
  rec,      \* the research records made by prepare: [quota, ask, day]
  bucket,   \* research_quota_usage, as committed: [consumed, reserved, used]
  kv,       \* the counters in the key-value store
  held,     \* per transaction: the bucket rows it has updated and not committed
  job       \* per research: the transaction that ends its reservation

vars == <<day, shadow, call, rec, bucket, kv, held, job>>

Counters == {"kvWallet", "kvGlobal", "pgWallet", "pgGlobal"}
Answers  == {"none", "ok", "conflict", "WALLET_LIMIT", "GLOBAL_LIMIT",
             "QUOTA_SHADOW_MISMATCH"}
\* Transactions: a prepare, or the end of a reservation.
Tx       == {"prepare", "finish"} \X Calls
Unseen   == [n \in Counters |-> 0]
NoRec    == [quota |-> "none", ask |-> CHOOSE a \in Asks : TRUE, day |-> 1]
Quotas   == {"none", "reserved", "consumed", "released"}

TypeOK ==
  /\ day \in Days /\ shadow \in BOOLEAN
  /\ call \in [Calls ->
       [pc : {"idle", "begin", "wallet", "global", "insert", "reread",
              "kvWallet", "kvGlobal", "shadow", "decide", "undo", "done", "crashed"},
        ask : Asks, day : Days,
        seen : [Counters -> Nat],      \* what the increments returned
        counted : SUBSET Counters,     \* incremented and not decremented
        research : Calls, answer : Answers]]
  /\ rec \in [Calls -> [quota : Quotas, ask : Asks, day : Days]]
  /\ bucket \in [Bucket -> [consumed : Nat, reserved : Nat, used : Nat]]
  /\ kv \in [Bucket -> Int]
  /\ held \in [Tx -> SUBSET Bucket]
  /\ job \in [Calls -> {"idle", "wallet", "global"}]

Init ==
  /\ day = 1 /\ shadow \in BOOLEAN
  /\ call = [c \in Calls |->
       [pc |-> "idle", ask |-> NoRec.ask, day |-> 1,
        seen |-> Unseen, counted |-> {}, research |-> c,
        answer |-> "none"]]
  /\ rec = [c \in Calls |-> NoRec]
  /\ bucket = [b \in Bucket |-> [consumed |-> 0, reserved |-> 0, used |-> 0]]
  /\ kv = [b \in Bucket |-> 0]
  /\ held = [t \in Tx |-> {}]
  /\ job = [c \in Calls |-> "idle"]
-----------------------------------------------------------------------------
Floor(n) == IF n < 0 THEN 0 ELSE n

WalletOf(c) == [who |-> call[c].ask.wallet, day |-> call[c].day]
GlobalOf(c) == [who |-> Global, day |-> call[c].day]

\* The two buckets a research is counted in: those of the day stored with it.
BucketsOf(r) == {[who |-> rec[r].ask.wallet, day |-> rec[r].day],
                 [who |-> Global, day |-> rec[r].day]}

\* Fault: a released reservation still counts as used.
ReleasedReservedOnly(q) == [q EXCEPT !.reserved = Floor(@ - 1)]

\* reserveQuotaBucket, consumeReservedQuotaBucket, releaseReservedQuotaBucket; then
\* increment and decrement of the shadow counters.
Reserved(q)         == [q EXCEPT !.reserved = @ + 1, !.used = @ + 1]
ConsumedReserved(q) == [q EXCEPT !.reserved = Floor(@ - 1), !.consumed = @ + 1]
ReleasedReserved(q) == [q EXCEPT !.reserved = Floor(@ - 1), !.used = Floor(@ - 1)]
Incremented(q)      == [q EXCEPT !.consumed = @ + 1, !.used = @ + 1]
Decremented(q)      == [q EXCEPT !.consumed = Floor(@ - 1), !.used = Floor(@ - 1)]

\* No other transaction holds the row of b.
Unlocked(b) == \A t \in Tx : b \notin held[t]

\* findByPrepareRequestId, on committed rows.
Found(key) == {r \in Calls : rec[r].quota # "none" /\ rec[r].ask.key = key}

\* Fault: the budget and topic of a retry are not compared.
SameWallet(r, ask) == rec[r].ask.wallet = ask.wallet
SamePrepareScope(r, ask) == rec[r].ask.wallet = ask.wallet /\ rec[r].ask.topic = ask.topic

Goto(c, pc) == call' = [call EXCEPT ![c].pc = pc]
Answer(c, a) == call' = [call EXCEPT ![c].pc = "done", ![c].seen = Unseen, ![c].answer = a]
\* The answer of a prepare that ends with the research r.
AnswerWith(c, r, ask) ==
  call' = [call EXCEPT ![c].pc = "done", ![c].research = r, ![c].ask = ask,
             ![c].answer = IF SamePrepareScope(r, ask) THEN "ok" ELSE "conflict"]

Quota    == <<rec, bucket, kv, held, job>>
Rollback(c) == held' = [held EXCEPT ![<<"prepare", c>>] = {}]
-----------------------------------------------------------------------------
\* prepareResearch: the lookup before anything else, and then the quota day.
ArrivePrepare(c) ==
  /\ call[c].pc = "idle"
  /\ \E ask \in {a \in AsksOf[c] : a.op = "prepare"} :
       \/ \E r \in Found(ask.key) : AnswerWith(c, r, ask)
       \/ /\ Found(ask.key) = {}
          /\ call' = [call EXCEPT ![c].ask = ask, ![c].pc = "begin", ![c].day = day]
  /\ UNCHANGED <<day, shadow, Quota>>

ArriveStart(c) ==
  /\ call[c].pc = "idle"
  /\ \E ask \in {a \in AsksOf[c] : a.op = "start"} :
       call' = [call EXCEPT ![c].ask = ask, ![c].pc = "kvWallet", ![c].day = day]
  /\ UNCHANGED <<day, shadow, Quota>>

\* createFundingWithQuotaReservation: the transaction looks again first.
Begin(c) ==
  /\ call[c].pc = "begin"
  /\ \/ \E r \in Found(call[c].ask.key) : AnswerWith(c, r, call[c].ask)
     \/ Found(call[c].ask.key) = {} /\ Goto(c, "wallet")
  /\ UNCHANGED <<day, shadow, Quota>>

\* The upsert's `used` is within the limit.
WithinLimit(b, limit) == bucket[b].used + 1 <= limit

\* One upsert of a bucket row, which waits for its lock; `used` as it returns it
\* is compared with the limit, and a limit rolls everything back.
ReserveBucket(c, b, limit, next, reason) ==
  /\ Unlocked(b)
  /\ \/ /\ WithinLimit(b, limit)
        /\ held' = [held EXCEPT ![<<"prepare", c>>] = @ \union {b}]
        /\ Goto(c, next)
     \/ /\ ~WithinLimit(b, limit)
        /\ Rollback(c) /\ Answer(c, reason)
  /\ UNCHANGED <<day, shadow, rec, bucket, kv, job>>

ReserveWallet(c) == /\ call[c].pc = "wallet"
                    /\ ReserveBucket(c, WalletOf(c), WalletLimit, "global", "WALLET_LIMIT")
ReserveGlobal(c) == /\ call[c].pc = "global"
                    /\ ReserveBucket(c, GlobalOf(c), GlobalLimit, "insert", "GLOBAL_LIMIT")

\* createFunding and the commit: the unique index on the key decides.
Insert(c) ==
  /\ call[c].pc = "insert"
  /\ \/ /\ Found(call[c].ask.key) # {}
        /\ Rollback(c) /\ Goto(c, "reread") /\ UNCHANGED <<rec, bucket>>
     \/ /\ Found(call[c].ask.key) = {}
        /\ rec' = [rec EXCEPT ![c] = [quota |-> "reserved", ask |-> call[c].ask,
                                      day |-> call[c].day]]
        /\ bucket' = [b \in Bucket |->
             IF b \in held[<<"prepare", c>>] THEN Reserved(bucket[b]) ELSE bucket[b]]
        /\ Rollback(c)
        /\ call' = [call EXCEPT ![c].pc = "done", ![c].answer = "ok",
                                ![c].research = c]
  /\ UNCHANGED <<day, shadow, kv, job>>

\* After a unique violation: the research of the winner, outside the transaction.
\* Research rows are never deleted, so it is found.
Reread(c) ==
  /\ call[c].pc = "reread"
  /\ \E r \in Found(call[c].ask.key) : AnswerWith(c, r, call[c].ask)
  /\ UNCHANGED <<day, shadow, Quota>>
-----------------------------------------------------------------------------
\* consumeQuota: two increments in the key-value store, one after the other ...
Counts(c, n, b, next) ==
  /\ kv' = [kv EXCEPT ![b] = @ + 1]
  /\ call' = [call EXCEPT ![c].pc = next, ![c].seen[n] = kv[b] + 1,
                          ![c].counted = @ \union {n}]
  /\ UNCHANGED <<day, shadow, rec, bucket, held, job>>
CountWallet(c) == call[c].pc = "kvWallet" /\ Counts(c, "kvWallet", WalletOf(c), "kvGlobal")
CountGlobal(c) == /\ call[c].pc = "kvGlobal"
                  /\ Counts(c, "kvGlobal", GlobalOf(c), IF shadow THEN "shadow" ELSE "decide")

BucketOf(c, n) == IF n \in {"kvWallet", "pgWallet"} THEN WalletOf(c) ELSE GlobalOf(c)

\* ... and with the shadow on, two statements in Postgres, in any order. Each is a
\* transaction of its own.
CountShadow(c, n) ==
  /\ call[c].pc = "shadow" /\ n \in {"pgWallet", "pgGlobal"} \ call[c].counted
  /\ Unlocked(BucketOf(c, n))
  /\ bucket' = [bucket EXCEPT ![BucketOf(c, n)] = Incremented(@)]
  /\ call' = [call EXCEPT ![c].counted = @ \union {n},
                ![c].seen[n] = bucket[BucketOf(c, n)].used + 1,
                ![c].pc = IF Counters \subseteq call[c].counted \union {n}
                          THEN "decide" ELSE "shadow"]
  /\ UNCHANGED <<day, shadow, rec, kv, held, job>>

\* Fault: the shadow counts are not compared.
ShadowIgnored(c) == TRUE
ShadowAgrees(c)  == shadow => /\ call[c].seen["pgWallet"] = call[c].seen["kvWallet"]
                             /\ call[c].seen["pgGlobal"] = call[c].seen["kvGlobal"]
OverLimit(c) == \/ call[c].seen["kvWallet"] > WalletLimit
                \/ call[c].seen["kvGlobal"] > GlobalLimit
\* Fault: a reason the callers do not know.
VerdictUnknown(c) == IF ~ShadowAgrees(c) THEN "MISMATCH"
                     ELSE IF ~OverLimit(c) THEN "ok" ELSE "GLOBAL_LIMIT"
Verdict(c) == IF ~ShadowAgrees(c) THEN "QUOTA_SHADOW_MISMATCH"
              ELSE IF ~OverLimit(c) THEN "ok"
              ELSE IF call[c].seen["kvWallet"] > WalletLimit THEN "WALLET_LIMIT"
              ELSE "GLOBAL_LIMIT"

\* Admitted: researchRepo.create makes a running research without a reservation.
Create(c) == /\ call[c].pc = "decide" /\ Verdict(c) = "ok" /\ Answer(c, "ok")
             /\ UNCHANGED <<day, shadow, Quota>>

TakenBack(c) == call[c].counted

\* Refused: every counter is taken back; concurrently, so in any order.
Undo(c, n) ==
  /\ \/ call[c].pc = "undo"
     \/ call[c].pc = "decide" /\ Verdict(c) # "ok"
  /\ n \in TakenBack(c)
  /\ IF n \in {"kvWallet", "kvGlobal"}
     THEN kv' = [kv EXCEPT ![BucketOf(c, n)] = @ - 1] /\ UNCHANGED bucket
     ELSE /\ Unlocked(BucketOf(c, n)) /\ UNCHANGED kv
          /\ bucket' = [bucket EXCEPT ![BucketOf(c, n)] = Decremented(@)]
  /\ call' = [call EXCEPT ![c].counted = @ \ {n},
                ![c].seen = IF TakenBack(c) = {n} THEN Unseen ELSE @,
                ![c].answer = IF TakenBack(c) = {n} THEN Verdict(c) ELSE @,
                ![c].pc = IF TakenBack(c) = {n} THEN "done" ELSE "undo"]
  /\ UNCHANGED <<day, shadow, rec, held, job>>
-----------------------------------------------------------------------------
\* completeFundingExpiry and finishQuotaReservation: the record, if its reservation
\* is not ended ("reserved" stands for activating, too: the same buckets count it),
\* then its wallet's bucket, then the global one.
FinishRecord(r) ==
  /\ rec[r].quota = "reserved" /\ job[r] = "idle"
  /\ job' = [job EXCEPT ![r] = "wallet"]
  /\ UNCHANGED <<day, shadow, call, rec, bucket, kv, held>>

\* Fault: the global bucket first.
GlobalFirst(r, pc) == CHOOSE b \in BucketsOf(r) : (b.who = Global) = (pc = "wallet")
NextBucket(r, pc)  == CHOOSE b \in BucketsOf(r) : (b.who = Global) = (pc = "global")

FinishWallet(r) ==
  /\ job[r] = "wallet" /\ Unlocked(NextBucket(r, "wallet"))
  /\ held' = [held EXCEPT ![<<"finish", r>>] = {NextBucket(r, "wallet")}]
  /\ job' = [job EXCEPT ![r] = "global"]
  /\ UNCHANGED <<day, shadow, call, rec, bucket, kv>>

\* The second bucket, and the commit.
FinishGlobal(r) ==
  /\ job[r] = "global" /\ Unlocked(NextBucket(r, "global"))
  /\ \E to \in {"consumed", "released"} :
       /\ rec' = [rec EXCEPT ![r].quota = to]
       /\ bucket' = [b \in Bucket |->
            IF b \notin BucketsOf(r) THEN bucket[b]
            ELSE IF to = "consumed" THEN ConsumedReserved(bucket[b])
            ELSE ReleasedReserved(bucket[b])]
  /\ held' = [held EXCEPT ![<<"finish", r>>] = {}]
  /\ job' = [job EXCEPT ![r] = "idle"]
  /\ UNCHANGED <<day, shadow, call, kv>>

\* A process dies; Postgres rolls its transaction back.
CrashCall(c) ==
  /\ c \in Mortal /\ call[c].pc \notin {"idle", "done", "crashed"}
  /\ call' = [call EXCEPT ![c].pc = "crashed", ![c].seen = Unseen] /\ Rollback(c)
  /\ UNCHANGED <<day, shadow, rec, bucket, kv, job>>
CrashFinish(r) ==
  /\ r \in Mortal /\ job[r] # "idle"
  /\ job' = [job EXCEPT ![r] = "idle"]
  /\ held' = [held EXCEPT ![<<"finish", r>>] = {}]
  /\ UNCHANGED <<day, shadow, call, rec, bucket, kv>>

Midnight == /\ day < LastDay /\ day' = day + 1
            /\ UNCHANGED <<shadow, call, Quota>>

Prepare(c) == \/ ArrivePrepare(c) \/ Begin(c) \/ ReserveWallet(c) \/ ReserveGlobal(c)
              \/ Insert(c) \/ Reread(c)
Start(c) == \/ ArriveStart(c) \/ CountWallet(c) \/ CountGlobal(c) \/ Create(c)
            \/ \E n \in Counters : CountShadow(c, n) \/ Undo(c, n)
Finish(r) == FinishRecord(r) \/ FinishWallet(r) \/ FinishGlobal(r)

Next ==
  \/ \E c \in Calls : Prepare(c) \/ Start(c) \/ CrashCall(c)
  \/ \E r \in Calls : \/ Finish(r) \/ CrashFinish(r)
  \/ Midnight

Spec == Init /\ [][Next]_vars
-----------------------------------------------------------------------------
In(b, r) == rec[r].quota # "none" /\ b \in BucketsOf(r)
Live(b) == {r \in Calls : In(b, r) /\ rec[r].quota = "reserved"}
Consumed(b) == {r \in Calls : In(b, r) /\ rec[r].quota = "consumed"}
\* Starts that are counted in b by one of the counters.
CountedIn(b, counters) ==
  {c \in Calls : \E n \in counters \intersect call[c].counted : BucketOf(c, n) = b}
Started(b) == {c \in Calls : /\ call[c].ask.op = "start" /\ call[c].answer = "ok"
                             /\ b \in {WalletOf(c), GlobalOf(c)}}

\* The quota rows say what the research rows say: at every commit, whatever
\* transactions were rolled back, raced or crossed midnight, a bucket holds one
\* reservation per research that has one and one unit per research that used it
\* up, beside the starts that are counted.
BucketsMatchRecords ==
  \A b \in Bucket :
    /\ bucket[b].reserved = Cardinality(Live(b))
    /\ bucket[b].consumed = Cardinality(Consumed(b))
                            + Cardinality(CountedIn(b, {"pgWallet", "pgGlobal"}))
    /\ bucket[b].used = bucket[b].reserved + bucket[b].consumed

Limit(b) == IF b.who = Global THEN GlobalLimit ELSE WalletLimit

\* No more research a day than the limits allow, for a wallet and for all: with the
\* shadow on, both ways of starting together; without it, each way by its own count.
DailyLimit ==
  \A b \in Bucket :
    IF shadow
    THEN Cardinality(Live(b) \union Consumed(b)) + Cardinality(Started(b)) <= Limit(b)
    ELSE /\ Cardinality(Live(b) \union Consumed(b)) <= Limit(b)
         /\ Cardinality(Started(b)) <= Limit(b)

\* One research per Idempotency-Key, and whoever is told "ok" is told of a research
\* with its own key, wallet and topic: twins get the same one.
OneResearchPerKey ==
  /\ \A r, s \in Calls : s \in Found(rec[r].ask.key) /\ r \in Found(rec[r].ask.key) => r = s
  /\ \A c \in Calls : call[c].ask.op = "prepare" /\ call[c].answer = "ok"
       => /\ call[c].research \in Found(call[c].ask.key)
          /\ rec[call[c].research].ask = call[c].ask

\* A refused start gives back what it took: when nothing is under way and no process
\* died, the key-value counters are those of the admitted starts.
CountersMatchStarts ==
  (\A c \in Calls : call[c].pc \in {"idle", "done"})
    => \A b \in Bucket : kv[b] = Cardinality(Started(b))

\* Both ways of counting count what there is.
CountsAreTrue == BucketsMatchRecords /\ CountersMatchStarts

\* The row a transaction is waiting for or about to lock.
Wants(t) ==
  IF t[1] = "prepare"
  THEN CASE call[t[2]].pc = "wallet" -> {WalletOf(t[2])}
         [] call[t[2]].pc = "global" -> {GlobalOf(t[2])} [] OTHER -> {}
  ELSE IF job[t[2]] = "idle" THEN {} ELSE {NextBucket(t[2], job[t[2]])}

\* Row locks never form a cycle: of any transactions that hold rows, one wants no
\* row that another of them holds, so that nobody waits for ever.
Holding == {t \in Tx : held[t] # {}}
NoLockCycle ==
  \A S \in (SUBSET Holding) \ {{}} :
    \E t \in S : \A u \in S \ {t} : Wants(t) \intersect held[u] = {}
=============================================================================
