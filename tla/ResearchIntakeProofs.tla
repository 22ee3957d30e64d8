-------------------------- MODULE ResearchIntakeProofs --------------------------
(* Twin requests get the research of their key, the row locks of the quota never  *)
(* form a cycle, the counters count what there is and the daily limits hold, for  *)
(* any number of requests, keys, wallets and days.                                *)
(*                                                                                *)
(* A research is named after the call that made it, and a call that has made one  *)
(* is done: no later step of it can make another, or change the one it made. The  *)
(* locks are ordered: a transaction that still wants a row wants the global one   *)
(* and holds no more than a wallet's; who holds a global row wants nothing.       *)
EXTENDS ResearchIntake, FiniteSetTheorems, TLAPS

Pcs == {"idle", "begin", "wallet", "global", "insert", "reread",
        "kvWallet", "kvGlobal", "shadow", "decide", "undo", "done", "crashed"}
CallRec == [pc : Pcs, ask : Asks, day : Days, seen : [Counters -> Int],
            counted : SUBSET Counters, research : Calls, answer : Answers]
RecRec == [quota : Quotas, ask : Asks, day : Days]
Usage == [consumed : Int, reserved : Int, used : Int]

\* The types that need no more; that no counter falls below zero takes the books.
Typed ==
  /\ day \in Days
  /\ call \in [Calls -> CallRec] /\ rec \in [Calls -> RecRec]
  /\ held \in [Tx -> SUBSET Bucket] /\ job \in [Calls -> {"idle", "wallet", "global"}]
  /\ bucket \in [Bucket -> Usage] /\ kv \in [Bucket -> Int]

\* What the call c, standing as x, has to do with the research records.
Fits(c, x) ==
  /\ x.pc \in {"begin", "wallet", "global", "insert", "reread"} => x.ask.op = "prepare"
  /\ x.pc \in {"kvWallet", "kvGlobal", "shadow", "decide", "undo"} => x.ask.op = "start"
  /\ x.answer # "none" => x.pc = "done"
  /\ rec[c].quota # "none" => x.pc = "done"
  /\ x.ask.op = "prepare" /\ x.answer = "ok" =>
       x.research \in Found(x.ask.key) /\ rec[x.research].ask = x.ask

\* The rows that a prepare at pc, or a job, may hold.
PrepareHolds(pc, rows) ==
  /\ rows # {} => pc \in {"global", "insert"}
  /\ pc = "global" => \A b \in rows : b.who # Global
FinishHolds(j, rows) ==
  rows # {} => j = "global" /\ \A b \in rows : b.who # Global

Records ==
  /\ \A r \in Calls : rec[r].quota # "none" => rec[r].ask.op = "prepare"
  /\ \A r, s \in Calls : rec[r].quota # "none" /\ rec[s].quota # "none"
                         /\ rec[r].ask.key = rec[s].ask.key => r = s
  /\ \A r \in Calls : job[r] # "idle" => rec[r].quota # "none"

Inv ==
  /\ Typed /\ Records
  /\ \A c \in Calls : Fits(c, call[c])
  /\ \A c \in Calls : PrepareHolds(call[c].pc, held[<<"prepare", c>>])
  /\ \A r \in Calls : FinishHolds(job[r], held[<<"finish", r>>])

--------------------------------------------------------------------------------
LEMMA TxOf ==
  /\ \A c \in Calls : <<"prepare", c>> \in Tx /\ <<"finish", c>> \in Tx
  /\ \A c, d \in Calls : <<"prepare", c>> # <<"finish", d>>
  /\ \A c, d \in Calls : <<"prepare", c>> = <<"prepare", d>> => c = d
  /\ \A c, d \in Calls : <<"finish", c>> = <<"finish", d>> => c = d
  /\ \A t \in Tx : \E c \in Calls : t = <<"prepare", c>> \/ t = <<"finish", c>>
BY DEF Tx

LEMMA AsksEqual ==
  ASSUME NEW a \in Asks, NEW b \in Asks,
         a.op = b.op, a.key = b.key, a.wallet = b.wallet, a.topic = b.topic
  PROVE  a = b
BY DEF Asks

LEMMA UsageTyped ==
  ASSUME NEW q \in Usage
  PROVE  /\ Reserved(q) \in Usage /\ Incremented(q) \in Usage
         /\ Decremented(q) \in Usage /\ ConsumedReserved(q) \in Usage
         /\ ReleasedReserved(q) \in Usage
<1>1. q.consumed \in Int /\ q.reserved \in Int /\ q.used \in Int BY DEF Usage
<1>2. \A n \in Int : Floor(n) \in Int BY DEF Floor
<1>3. Reserved(q) \in Usage
  <2>1. PICK x \in Int, y \in Int : x = q.reserved + 1 /\ y = q.used + 1
    BY <1>1, <1>2
  <2>2. [q EXCEPT !.reserved = x, !.used = y] \in Usage BY DEF Usage
  <2>3. Reserved(q) = [q EXCEPT !.reserved = x, !.used = y]
    BY <2>1 DEF Reserved, Usage
  <2> QED BY <2>2, <2>3
<1>4. Incremented(q) \in Usage
  <2>1. PICK x \in Int, y \in Int : x = q.consumed + 1 /\ y = q.used + 1
    BY <1>1, <1>2
  <2>2. [q EXCEPT !.consumed = x, !.used = y] \in Usage BY DEF Usage
  <2>3. Incremented(q) = [q EXCEPT !.consumed = x, !.used = y]
    BY <2>1 DEF Incremented, Usage
  <2> QED BY <2>2, <2>3
<1>5. Decremented(q) \in Usage
  <2>1. PICK x \in Int, y \in Int : x = Floor(q.consumed - 1) /\ y = Floor(q.used - 1)
    BY <1>1, <1>2
  <2>2. [q EXCEPT !.consumed = x, !.used = y] \in Usage BY DEF Usage
  <2>3. Decremented(q) = [q EXCEPT !.consumed = x, !.used = y]
    BY <2>1 DEF Decremented, Usage
  <2> QED BY <2>2, <2>3
<1>6. ConsumedReserved(q) \in Usage
  <2>1. PICK x \in Int, y \in Int : x = Floor(q.reserved - 1) /\ y = q.consumed + 1
    BY <1>1, <1>2
  <2>2. [q EXCEPT !.reserved = x, !.consumed = y] \in Usage BY DEF Usage
  <2>3. ConsumedReserved(q) = [q EXCEPT !.reserved = x, !.consumed = y]
    BY <2>1 DEF ConsumedReserved, Usage
  <2> QED BY <2>2, <2>3
<1>7. ReleasedReserved(q) \in Usage
  <2>1. PICK x \in Int, y \in Int : x = Floor(q.reserved - 1) /\ y = Floor(q.used - 1)
    BY <1>1, <1>2
  <2>2. [q EXCEPT !.reserved = x, !.used = y] \in Usage BY DEF Usage
  <2>3. ReleasedReserved(q) = [q EXCEPT !.reserved = x, !.used = y]
    BY <2>1 DEF ReleasedReserved, Usage
  <2> QED BY <2>2, <2>3
<1> QED BY <1>3, <1>4, <1>5, <1>6, <1>7

\* A step of one call that leaves the records alone and rolls back or extends only
\* its own transaction.
LEMMA CallMoves ==
  ASSUME Inv, NEW c \in Calls, NEW y \in CallRec, NEW h \in SUBSET Bucket,
         call' = [call EXCEPT ![c] = y],
         held' = [held EXCEPT ![<<"prepare", c>>] = h],
         UNCHANGED <<rec, job>>,
         Fits(c, y), PrepareHolds(y.pc, h),
         day' \in Days, bucket' \in [Bucket -> Usage], kv' \in [Bucket -> Int]
  PROVE  Inv'
<1>1. /\ call \in [Calls -> CallRec] /\ held \in [Tx -> SUBSET Bucket]
      /\ rec \in [Calls -> RecRec] /\ job \in [Calls -> {"idle", "wallet", "global"}]
  BY DEF Inv, Typed
<1>2. /\ call' \in [Calls -> CallRec] /\ call'[c] = y
      /\ \A d \in Calls \ {c} : call'[d] = call[d]
  BY <1>1
<1>3. /\ held' \in [Tx -> SUBSET Bucket] /\ held'[<<"prepare", c>>] = h
      /\ \A t \in Tx : t # <<"prepare", c>> => held'[t] = held[t]
  BY <1>1, TxOf
<1>4. Typed' BY <1>1, <1>2, <1>3 DEF Typed
<1>5. Records' BY DEF Inv, Records
<1>6. ASSUME NEW d \in Calls PROVE Fits(d, call[d])'
  <2>1. PICK x \in CallRec : x = call'[d] /\ Fits(d, x) BY <1>1, <1>2 DEF Inv
  <2>2. Fits(d, x)' BY <2>1 DEF Fits, Found
  <2> QED BY <2>1, <2>2
<1>7. ASSUME NEW d \in Calls PROVE PrepareHolds(call'[d].pc, held'[<<"prepare", d>>])
  <2>1. CASE d = c BY <1>2, <1>3, <2>1
  <2>2. CASE d # c
    <3>1. held'[<<"prepare", d>>] = held[<<"prepare", d>>] BY <1>3, <2>2, TxOf
    <3> QED BY <1>2, <2>2, <3>1 DEF Inv
  <2> QED BY <2>1, <2>2
<1>8. ASSUME NEW r \in Calls PROVE FinishHolds(job'[r], held'[<<"finish", r>>])
  <2>1. held'[<<"finish", r>>] = held[<<"finish", r>>] BY <1>3, TxOf
  <2> QED BY <2>1 DEF Inv
<1>9. \A d \in Calls : PrepareHolds(call[d].pc, held[<<"prepare", d>>])'
  BY <1>7 DEF PrepareHolds
<1>10. \A r \in Calls : FinishHolds(job[r], held[<<"finish", r>>])'
  BY <1>8 DEF FinishHolds
<1> QED BY <1>4, <1>5, <1>6, <1>9, <1>10 DEF Inv

\* An answer with a research found by the key.
LEMMA AnswerFits ==
  ASSUME Inv, NEW c \in Calls, NEW ask \in Asks, ask.op = "prepare",
         NEW r \in Found(ask.key), AnswerWith(c, r, ask),
         held[<<"prepare", c>>] = {} \/ call[c].pc \notin {"global", "insert"},
         UNCHANGED <<day, rec, bucket, kv, held, job>>
  PROVE  Inv'
<1>1. /\ call \in [Calls -> CallRec] /\ rec \in [Calls -> RecRec] /\ call[c] \in CallRec
      /\ held \in [Tx -> SUBSET Bucket] /\ r \in Calls /\ rec[r].quota # "none"
      /\ rec[r].ask.key = ask.key /\ rec[r] \in RecRec
  BY DEF Inv, Typed, Found
<1>2. rec[r].ask \in Asks /\ rec[r].ask.op = "prepare"
  BY <1>1 DEF Inv, Records, RecRec
<1>3. held[<<"prepare", c>>] = {} BY DEF Inv, PrepareHolds
<1>4. PICK a \in {"ok", "conflict"} : a = "ok" <=> SamePrepareScope(r, ask)
  BY DEF SamePrepareScope
<1>5. PICK y \in CallRec :
        /\ y = [call[c] EXCEPT !.pc = "done", !.research = r, !.ask = ask, !.answer = a]
        /\ y.pc = "done" /\ y.research = r /\ y.ask = ask /\ y.answer = a
  <2> DEFINE y == [call[c] EXCEPT !.pc = "done", !.research = r, !.ask = ask, !.answer = a]
  <2>1. y \in CallRec BY <1>1 DEF CallRec, Pcs, Answers
  <2>2. y.pc = "done" /\ y.research = r /\ y.ask = ask /\ y.answer = a
    BY <1>1 DEF CallRec
  <2>3. y = [call[c] EXCEPT !.pc = "done", !.research = r, !.ask = ask, !.answer = a]
    OBVIOUS
  <2> HIDE DEF y
  <2> QED BY <2>1, <2>2, <2>3
<1>6. call' = [call EXCEPT ![c] = y]
  <2>1. a = IF SamePrepareScope(r, ask) THEN "ok" ELSE "conflict" BY <1>4
  <2> QED BY <1>1, <1>5, <2>1 DEF AnswerWith
<1>7. a = "ok" => rec[r].ask = ask
  BY <1>1, <1>2, <1>4, AsksEqual DEF SamePrepareScope
<1>8. Fits(c, y) BY <1>5, <1>7 DEF Fits
<1>9. held' = [held EXCEPT ![<<"prepare", c>>] = {}] BY <1>1, <1>3, TxOf
<1>10. PrepareHolds(y.pc, {}) BY <1>5 DEF PrepareHolds
<1>11. day' \in Days /\ bucket' \in [Bucket -> Usage] /\ kv' \in [Bucket -> Int]
  BY DEF Inv, Typed
<1> QED BY <1>6, <1>8, <1>9, <1>10, <1>11, CallMoves

--------------------------------------------------------------------------------
(* The steps of a request.                                                         *)

LEMMA ArriveKeeps ==
  ASSUME Inv, NEW c \in Calls, ArrivePrepare(c) \/ ArriveStart(c)
  PROVE  Inv'
<1>1. /\ call \in [Calls -> CallRec] /\ rec \in [Calls -> RecRec] /\ call[c] \in CallRec
      /\ held \in [Tx -> SUBSET Bucket] /\ day \in Days
      /\ call[c].pc = "idle" /\ call[c].answer = "none" /\ rec[c].quota = "none"
  BY DEF Inv, Typed, Fits, ArrivePrepare, ArriveStart
<1>2. UNCHANGED <<day, rec, bucket, kv, held, job>>
  BY DEF ArrivePrepare, ArriveStart, Quota
<1>3. held[<<"prepare", c>>] = {} BY <1>1 DEF Inv, PrepareHolds
<1>4. AsksOf[c] \subseteq Asks BY IntakeAssumption DEF IntakeAssumption
<1>5. CASE \E ask \in AsksOf[c] : ask.op = "prepare" /\
             \E r \in Found(ask.key) : AnswerWith(c, r, ask)
  BY <1>2, <1>3, <1>4, <1>5, AnswerFits
<1>6. CASE \E ask \in AsksOf[c] : \E pc \in {"begin", "kvWallet"} :
             /\ ask.op = (IF pc = "begin" THEN "prepare" ELSE "start")
             /\ call' = [call EXCEPT ![c].ask = ask, ![c].pc = pc, ![c].day = day]
  <2>1. PICK ask \in Asks, pc \in {"begin", "kvWallet"} :
             /\ ask.op = (IF pc = "begin" THEN "prepare" ELSE "start")
             /\ call' = [call EXCEPT ![c].ask = ask, ![c].pc = pc, ![c].day = day]
    BY <1>4, <1>6
  <2>2. PICK y \in CallRec : /\ y = [call[c] EXCEPT !.ask = ask, !.pc = pc, !.day = day]
                             /\ y.pc = pc /\ y.ask = ask /\ y.answer = "none"
    <3> DEFINE y == [call[c] EXCEPT !.ask = ask, !.pc = pc, !.day = day]
    <3>1. y \in CallRec BY <1>1 DEF CallRec, Pcs
    <3>2. y.pc = pc /\ y.ask = ask /\ y.answer = "none" BY <1>1 DEF CallRec
    <3>3. y = [call[c] EXCEPT !.ask = ask, !.pc = pc, !.day = day] OBVIOUS
    <3> HIDE DEF y
    <3> QED BY <3>1, <3>2, <3>3
  <2>3. call' = [call EXCEPT ![c] = y] BY <1>1, <2>1, <2>2
  <2>4. Fits(c, y) BY <1>1, <2>1, <2>2 DEF Fits
  <2>5. held' = [held EXCEPT ![<<"prepare", c>>] = {}] BY <1>1, <1>2, <1>3, TxOf
  <2>6. PrepareHolds(y.pc, {}) BY <2>2 DEF PrepareHolds
  <2>7. day' \in Days /\ bucket' \in [Bucket -> Usage] /\ kv' \in [Bucket -> Int]
    BY <1>2 DEF Inv, Typed
  <2> QED BY <1>2, <2>3, <2>4, <2>5, <2>6, <2>7, CallMoves
<1> QED BY <1>4, <1>5, <1>6 DEF ArrivePrepare, ArriveStart

\* A prepare goes on to pc, or to its answer, with the rows h.
LEMMA PrepareMoves ==
  ASSUME Inv, NEW c \in Calls, call[c].pc \in {"begin", "wallet", "global", "insert", "reread"},
         NEW pc \in {"wallet", "global", "insert", "reread"},
         NEW h \in SUBSET Bucket,
         call' = [call EXCEPT ![c].pc = pc],
         held' = [held EXCEPT ![<<"prepare", c>>] = h],
         PrepareHolds(pc, h),
         UNCHANGED <<day, rec, bucket, kv, job>>
  PROVE  Inv'
<1>1. /\ call \in [Calls -> CallRec] /\ rec \in [Calls -> RecRec] /\ call[c] \in CallRec
      /\ Fits(c, call[c])
  BY DEF Inv, Typed
<1>2. PICK y \in CallRec : /\ y = [call[c] EXCEPT !.pc = pc] /\ y.pc = pc
                           /\ y.ask = call[c].ask /\ y.answer = call[c].answer
  <2> DEFINE y == [call[c] EXCEPT !.pc = pc]
  <2>1. y \in CallRec BY <1>1 DEF CallRec, Pcs
  <2>2. y.pc = pc /\ y.ask = call[c].ask /\ y.answer = call[c].answer BY <1>1 DEF CallRec
  <2>3. y = [call[c] EXCEPT !.pc = pc] OBVIOUS
  <2> HIDE DEF y
  <2> QED BY <2>1, <2>2, <2>3
<1>3. call' = [call EXCEPT ![c] = y] BY <1>1, <1>2
<1>4. Fits(c, y) BY <1>1, <1>2 DEF Fits
<1>5. PrepareHolds(y.pc, h) BY <1>2
<1>6. day' \in Days /\ bucket' \in [Bucket -> Usage] /\ kv' \in [Bucket -> Int]
  BY DEF Inv, Typed
<1> QED BY <1>3, <1>4, <1>5, <1>6, CallMoves

LEMMA BeginKeeps ==
  ASSUME Inv, NEW c \in Calls, Begin(c) \/ Reread(c)
  PROVE  Inv'
<1>1. /\ call[c] \in CallRec /\ call[c].pc \in {"begin", "reread"}
      /\ call[c].ask.op = "prepare" /\ held \in [Tx -> SUBSET Bucket]
      /\ held[<<"prepare", c>>] = {} /\ UNCHANGED <<day, rec, bucket, kv, held, job>>
  BY DEF Inv, Typed, Fits, PrepareHolds, Begin, Reread, Quota
<1>2. PICK ask \in Asks : ask = call[c].ask /\ ask.op = "prepare" BY <1>1 DEF CallRec
<1>3. CASE \E r \in Found(ask.key) : AnswerWith(c, r, ask)
  BY <1>1, <1>2, <1>3, AnswerFits
<1>4. CASE Goto(c, "wallet")
  <2>1. held' = [held EXCEPT ![<<"prepare", c>>] = {}] BY <1>1, TxOf
  <2>2. PrepareHolds("wallet", {}) BY DEF PrepareHolds
  <2> QED BY <1>1, <1>4, <2>1, <2>2, PrepareMoves DEF Goto
<1> QED BY <1>2, <1>3, <1>4 DEF Begin, Reread

\* Both upserts of a bucket; the first finds the transaction without rows.
LEMMA ReserveKeeps ==
  ASSUME Inv, NEW c \in Calls, ReserveWallet(c) \/ ReserveGlobal(c)
  PROVE  Inv'
<1>1. /\ call \in [Calls -> CallRec] /\ call[c] \in CallRec /\ Fits(c, call[c])
      /\ held \in [Tx -> SUBSET Bucket] /\ call[c].pc \in {"wallet", "global"}
  BY DEF Inv, Typed, ReserveWallet, ReserveGlobal
<1>2. call[c].ask \in Asks /\ call[c].day \in Days BY <1>1 DEF CallRec
<1>3. /\ WalletOf(c) \in Bucket /\ GlobalOf(c) \in Bucket
      /\ WalletOf(c).who # Global
  BY <1>2, IntakeAssumption DEF IntakeAssumption, WalletOf, GlobalOf, Bucket, Asks
<1>4. PICK b \in Bucket, limit \in {WalletLimit, GlobalLimit},
           next \in {"global", "insert"}, reason \in {"WALLET_LIMIT", "GLOBAL_LIMIT"} :
        /\ ReserveBucket(c, b, limit, next, reason)
        /\ next = "global" => call[c].pc = "wallet" /\ b.who # Global
  BY <1>3 DEF ReserveWallet, ReserveGlobal
<1>5. UNCHANGED <<day, rec, bucket, kv, job>> BY <1>4 DEF ReserveBucket
<1>6. held[<<"prepare", c>>] \in SUBSET Bucket BY <1>1, TxOf
<1>7. CASE /\ held' = [held EXCEPT ![<<"prepare", c>>] = @ \union {b}] /\ Goto(c, next)
  <2>1. PICK h \in SUBSET Bucket : h = held[<<"prepare", c>>] \union {b} BY <1>6
  <2>2. held' = [held EXCEPT ![<<"prepare", c>>] = h] BY <1>7, <2>1
  <2>3. PrepareHolds(next, h)
    <3>1. next = "global" => held[<<"prepare", c>>] = {}
      BY <1>4 DEF Inv, PrepareHolds
    <3> QED BY <1>4, <2>1, <3>1 DEF PrepareHolds
  <2>4. call' = [call EXCEPT ![c].pc = next] BY <1>7 DEF Goto
  <2>5. call[c].pc \in {"begin", "wallet", "global", "insert", "reread"} BY <1>1
  <2>6. next \in {"wallet", "global", "insert", "reread"} OBVIOUS
  <2> QED BY <1>5, <2>2, <2>3, <2>4, <2>5, <2>6, PrepareMoves
<1>8. CASE Rollback(c) /\ Answer(c, reason)
  <2>1. PICK y \in CallRec :
          /\ y = [call[c] EXCEPT !.pc = "done", !.seen = Unseen, !.answer = reason]
          /\ y.pc = "done" /\ y.answer = reason
    <3> DEFINE y == [call[c] EXCEPT !.pc = "done", !.seen = Unseen, !.answer = reason]
    <3>1. Unseen \in [Counters -> Int] BY DEF Unseen
    <3>2. y \in CallRec BY <1>1, <3>1 DEF CallRec, Pcs, Answers
    <3>3. y.pc = "done" /\ y.answer = reason BY <1>1 DEF CallRec
    <3>4. y = [call[c] EXCEPT !.pc = "done", !.seen = Unseen, !.answer = reason] OBVIOUS
    <3> HIDE DEF y
    <3> QED BY <3>2, <3>3, <3>4
  <2>2. call' = [call EXCEPT ![c] = y] BY <1>1, <1>8, <2>1 DEF Answer
  <2>3. held' = [held EXCEPT ![<<"prepare", c>>] = {}] BY <1>8 DEF Rollback
  <2>4. Fits(c, y) BY <2>1 DEF Fits
  <2>5. PrepareHolds(y.pc, {}) BY DEF PrepareHolds
  <2>6. day' \in Days /\ bucket' \in [Bucket -> Usage] /\ kv' \in [Bucket -> Int]
    BY <1>5 DEF Inv, Typed
  <2>7. UNCHANGED <<rec, job>> /\ {} \in SUBSET Bucket BY <1>5
  <2> QED BY <2>2, <2>3, <2>4, <2>5, <2>6, <2>7, CallMoves
<1> QED BY <1>4, <1>7, <1>8 DEF ReserveBucket

\* The commit of a prepare, or the unique violation that rolls it back.
LEMMA InsertKeeps ==
  ASSUME Inv, NEW c \in Calls, Insert(c)
  PROVE  Inv'
<1>1. /\ call \in [Calls -> CallRec] /\ rec \in [Calls -> RecRec] /\ call[c] \in CallRec
      /\ held \in [Tx -> SUBSET Bucket] /\ call[c].pc = "insert" /\ Fits(c, call[c])
      /\ job \in [Calls -> {"idle", "wallet", "global"}]
      /\ bucket \in [Bucket -> Usage] /\ kv \in [Bucket -> Int] /\ day \in Days
      /\ UNCHANGED <<day, shadow, kv, job>>
  BY DEF Inv, Typed, Insert
<1>2. held' = [held EXCEPT ![<<"prepare", c>>] = {}] BY DEF Insert, Rollback
<1>3. CASE Goto(c, "reread") /\ UNCHANGED <<rec, bucket>>
  <2>1. call' = [call EXCEPT ![c].pc = "reread"] BY <1>3 DEF Goto
  <2>2. PrepareHolds("reread", {}) BY DEF PrepareHolds
  <2> QED BY <1>1, <1>2, <1>3, <2>1, <2>2, PrepareMoves
<1>4. CASE ~(Goto(c, "reread") /\ UNCHANGED <<rec, bucket>>)
  <2>1. PICK ask \in Asks, d \in Days : /\ ask = call[c].ask /\ d = call[c].day
                                        /\ ask.op = "prepare"
    BY <1>1 DEF CallRec, Fits
  <2>2. /\ Found(ask.key) = {}
        /\ rec' = [rec EXCEPT ![c] = [quota |-> "reserved", ask |-> ask, day |-> d]]
        /\ bucket' = [b \in Bucket |->
             IF b \in held[<<"prepare", c>>] THEN Reserved(bucket[b]) ELSE bucket[b]]
        /\ call' = [call EXCEPT ![c].pc = "done", ![c].answer = "ok", ![c].research = c]
    BY <1>4, <2>1 DEF Insert
  <2>3. PICK y \in CallRec :
          /\ y = [call[c] EXCEPT !.pc = "done", !.answer = "ok", !.research = c]
          /\ y.pc = "done" /\ y.answer = "ok" /\ y.research = c /\ y.ask = ask
    <3> DEFINE y == [call[c] EXCEPT !.pc = "done", !.answer = "ok", !.research = c]
    <3>1. y \in CallRec BY <1>1 DEF CallRec, Pcs, Answers
    <3>2. y.pc = "done" /\ y.answer = "ok" /\ y.research = c /\ y.ask = ask
      BY <1>1, <2>1 DEF CallRec
    <3>3. y = [call[c] EXCEPT !.pc = "done", !.answer = "ok", !.research = c] OBVIOUS
    <3> HIDE DEF y
    <3> QED BY <3>1, <3>2, <3>3
  <2>4. call' = [call EXCEPT ![c] = y] BY <1>1, <2>2, <2>3
  <2>5. /\ call' \in [Calls -> CallRec] /\ call'[c] = y
        /\ \A e \in Calls \ {c} : call'[e] = call[e]
    BY <1>1, <2>4
  <2>6. PICK z \in RecRec : /\ z = [quota |-> "reserved", ask |-> ask, day |-> d]
                            /\ z.quota = "reserved" /\ z.ask = ask
    <3> DEFINE z == [quota |-> "reserved", ask |-> ask, day |-> d]
    <3>1. z \in RecRec BY DEF RecRec, Quotas
    <3>2. z.quota = "reserved" /\ z.ask = ask OBVIOUS
    <3>3. z = [quota |-> "reserved", ask |-> ask, day |-> d] OBVIOUS
    <3> HIDE DEF z
    <3> QED BY <3>1, <3>2, <3>3
  <2>7. /\ rec' \in [Calls -> RecRec] /\ rec'[c] = z
        /\ \A e \in Calls \ {c} : rec'[e] = rec[e]
    BY <1>1, <2>2, <2>6
  <2>8. \A q \in Usage : Reserved(q) \in Usage BY UsageTyped
  <2>9. bucket' \in [Bucket -> Usage] BY <1>1, <2>2, <2>8
  <2>10. held' \in [Tx -> SUBSET Bucket] BY <1>1, <1>2
  <2>11. Typed' BY <1>1, <2>5, <2>7, <2>9, <2>10 DEF Typed
  <2>12. \A e \in Calls : rec[e].quota # "none" => rec[e].ask.key # ask.key
    BY <2>2 DEF Found
  <2>13. Records'
    <3>1. \A e \in Calls : rec'[e].quota # "none" => rec'[e].ask.op = "prepare"
      BY <2>1, <2>6, <2>7 DEF Inv, Records
    <3>2. ASSUME NEW r \in Calls, NEW q \in Calls, rec'[r].quota # "none",
                 rec'[q].quota # "none", rec'[r].ask.key = rec'[q].ask.key
          PROVE  r = q
      <4>1. CASE r = c \/ q = c BY <2>6, <2>7, <2>12, <3>2, <4>1
      <4>2. CASE r # c /\ q # c BY <2>7, <3>2, <4>2 DEF Inv, Records
      <4> QED BY <4>1, <4>2
    <3>3. \A r \in Calls : job'[r] # "idle" => rec'[r].quota # "none"
      BY <1>1, <2>6, <2>7 DEF Inv, Records
    <3> QED BY <3>1, <3>2, <3>3 DEF Records
  <2>14. ASSUME NEW e \in Calls PROVE Fits(e, call[e])'
    <3>1. CASE e = c
      <4>1. c \in Found(ask.key)' BY <2>6, <2>7 DEF Found
      <4>2. rec'[c].ask = ask BY <2>6, <2>7
      <4> QED BY <2>3, <2>5, <3>1, <4>1, <4>2 DEF Fits
    <3>2. CASE e # c
      <4>1. PICK x \in CallRec : x = call[e] /\ Fits(e, x) BY <1>1 DEF Inv
      <4>2. call'[e] = x /\ rec'[e] = rec[e] BY <2>5, <2>7, <3>2, <4>1
      <4>3. rec[c].quota = "none" BY <1>1 DEF Fits
      <4>4. \A k \in Found(x.ask.key) : k \in Found(x.ask.key)' /\ rec'[k] = rec[k]
        BY <2>7, <4>3 DEF Found
      <4>5. Fits(e, x)' BY <4>1, <4>2, <4>4 DEF Fits
      <4> QED BY <4>2, <4>5
    <3> QED BY <3>1, <3>2
  <2>15. \A t \in Tx : t # <<"prepare", c>> => held'[t] = held[t]
    BY <1>1, <1>2, TxOf
  <2>16. held'[<<"prepare", c>>] = {} BY <1>1, <1>2, TxOf
  <2>17. ASSUME NEW e \in Calls PROVE PrepareHolds(call'[e].pc, held'[<<"prepare", e>>])
    <3>1. CASE e = c BY <2>3, <2>5, <2>16, <3>1 DEF PrepareHolds
    <3>2. CASE e # c BY <2>5, <2>15, <3>2, TxOf DEF Inv
    <3> QED BY <3>1, <3>2
  <2>18. ASSUME NEW e \in Calls PROVE FinishHolds(job'[e], held'[<<"finish", e>>])
    BY <1>1, <2>15, TxOf DEF Inv
  <2>19. /\ \A e \in Calls : PrepareHolds(call[e].pc, held[<<"prepare", e>>])'
         /\ \A e \in Calls : FinishHolds(job[e], held[<<"finish", e>>])'
    BY <2>17, <2>18 DEF PrepareHolds, FinishHolds
  <2> QED BY <2>11, <2>13, <2>14, <2>19 DEF Inv
<1> QED BY <1>3, <1>4

\* A step of a start, which counts in two places and makes no reservation.
LEMMA StartMoves ==
  ASSUME Inv, NEW c \in Calls, NEW y \in CallRec,
         call[c].pc \in {"kvWallet", "kvGlobal", "shadow", "decide", "undo"},
         call' = [call EXCEPT ![c] = y], y.ask = call[c].ask,
         y.pc \in {"kvGlobal", "shadow", "decide", "undo", "done"},
         y.answer # "none" => y.pc = "done",
         UNCHANGED <<day, rec, held, job>>,
         bucket' \in [Bucket -> Usage], kv' \in [Bucket -> Int]
  PROVE  Inv'
<1>1. /\ Fits(c, call[c]) /\ day' \in Days /\ held \in [Tx -> SUBSET Bucket]
      /\ held[<<"prepare", c>>] = {}
  BY DEF Inv, Typed, PrepareHolds
<1>2. Fits(c, y) BY <1>1 DEF Fits
<1>3. PrepareHolds(y.pc, {}) BY DEF PrepareHolds
<1>4. held' = [held EXCEPT ![<<"prepare", c>>] = {}] BY <1>1, TxOf
<1>5. UNCHANGED <<rec, job>> /\ {} \in SUBSET Bucket OBVIOUS
<1> QED BY <1>1, <1>2, <1>3, <1>4, <1>5, CallMoves

LEMMA CountKeeps ==
  ASSUME Inv, NEW c \in Calls,
         CountWallet(c) \/ CountGlobal(c) \/ \E n \in Counters : CountShadow(c, n)
  PROVE  Inv'
<1>1. /\ call \in [Calls -> CallRec] /\ call[c] \in CallRec /\ Fits(c, call[c])
      /\ call[c].pc \in {"kvWallet", "kvGlobal", "shadow"} /\ call[c].answer = "none"
      /\ bucket \in [Bucket -> Usage] /\ kv \in [Bucket -> Int]
      /\ UNCHANGED <<day, rec, held, job>>
  BY DEF Inv, Typed, Fits, CountWallet, CountGlobal, CountShadow, Counts
<1>2. call[c].ask \in Asks /\ call[c].day \in Days BY <1>1 DEF CallRec
<1>3. WalletOf(c) \in Bucket /\ GlobalOf(c) \in Bucket
  BY <1>2 DEF WalletOf, GlobalOf, Bucket, Asks
<1>4. \A n \in Counters : BucketOf(c, n) \in Bucket BY <1>3 DEF BucketOf
<1>5. PICK n \in Counters, v \in Int, pc \in {"kvGlobal", "shadow", "decide"} :
        /\ call' = [call EXCEPT ![c].pc = pc, ![c].seen[n] = v,
                                ![c].counted = @ \union {n}]
        /\ bucket' \in [Bucket -> Usage] /\ kv' \in [Bucket -> Int]
  <2>1. \A n \in Counters, b \in Bucket, pc \in {"kvGlobal", "shadow", "decide"} :
          Counts(c, n, b, pc) =>
            /\ kv[b] + 1 \in Int /\ bucket' \in [Bucket -> Usage] /\ kv' \in [Bucket -> Int]
            /\ call' = [call EXCEPT ![c].pc = pc, ![c].seen[n] = kv[b] + 1,
                                    ![c].counted = @ \union {n}]
    BY <1>1 DEF Counts
  <2>2. CASE CountWallet(c) BY <1>3, <2>1, <2>2 DEF CountWallet, Counters
  <2>3. CASE CountGlobal(c) BY <1>3, <2>1, <2>3 DEF CountGlobal, Counters
  <2>4. CASE \E n \in Counters : CountShadow(c, n)
    <3>1. PICK n \in Counters : CountShadow(c, n) BY <2>4
    <3>2. PICK b \in Bucket : b = BucketOf(c, n) BY <1>4
    <3>3. bucket[b] \in Usage BY <1>1
    <3>4. bucket[b].used + 1 \in Int /\ Incremented(bucket[b]) \in Usage
      BY <3>3, UsageTyped DEF Usage
    <3>5. bucket' \in [Bucket -> Usage] /\ kv' \in [Bucket -> Int]
      BY <1>1, <3>1, <3>2, <3>4 DEF CountShadow
    <3>6. PICK pc \in {"decide", "shadow"} :
            pc = IF Counters \subseteq call[c].counted \union {n}
                 THEN "decide" ELSE "shadow"
      OBVIOUS
    <3>7. call' = [call EXCEPT ![c].counted = @ \union {n},
                     ![c].seen[n] = bucket[b].used + 1, ![c].pc = pc]
      BY <3>1, <3>2, <3>6 DEF CountShadow
    <3>8. call' = [call EXCEPT ![c].pc = pc, ![c].seen[n] = bucket[b].used + 1,
                               ![c].counted = @ \union {n}]
      BY <1>1, <3>7 DEF CallRec
    <3> QED BY <3>4, <3>5, <3>8
  <2> QED BY <2>2, <2>3, <2>4
<1>6. PICK y \in CallRec :
        /\ y = [call[c] EXCEPT !.pc = pc, !.seen[n] = v,
                               !.counted = call[c].counted \union {n}]
        /\ y.pc = pc /\ y.ask = call[c].ask /\ y.answer = "none"
  <2> DEFINE y == [call[c] EXCEPT !.pc = pc, !.seen[n] = v,
                                  !.counted = call[c].counted \union {n}]
  <2>1. call[c].seen \in [Counters -> Int] /\ call[c].counted \union {n} \in SUBSET Counters
    BY <1>1 DEF CallRec
  <2>2. y \in CallRec BY <1>1, <2>1 DEF CallRec, Pcs
  <2>3. y.pc = pc /\ y.ask = call[c].ask /\ y.answer = "none" BY <1>1 DEF CallRec
  <2>4. y = [call[c] EXCEPT !.pc = pc, !.seen[n] = v,
                            !.counted = call[c].counted \union {n}] OBVIOUS
  <2> HIDE DEF y
  <2> QED BY <2>2, <2>3, <2>4
<1>7. call' = [call EXCEPT ![c] = y] BY <1>1, <1>5, <1>6
<1>8. /\ call[c].pc \in {"kvWallet", "kvGlobal", "shadow", "decide", "undo"}
      /\ y.pc \in {"kvGlobal", "shadow", "decide", "undo", "done"}
      /\ y.answer # "none" => y.pc = "done"
  BY <1>1, <1>6
<1>9. bucket' \in [Bucket -> Usage] /\ kv' \in [Bucket -> Int] BY <1>5
<1>10. UNCHANGED <<day, rec, held, job>> /\ y.ask = call[c].ask BY <1>1, <1>6
<1> QED BY <1>7, <1>8, <1>9, <1>10, StartMoves

LEMMA CreateKeeps ==
  ASSUME Inv, NEW c \in Calls, Create(c)
  PROVE  Inv'
<1>1. /\ call \in [Calls -> CallRec] /\ call[c] \in CallRec /\ call[c].pc = "decide"
      /\ call' = [call EXCEPT ![c].pc = "done", ![c].seen = Unseen, ![c].answer = "ok"]
      /\ UNCHANGED <<day, rec, bucket, kv, held, job>>
  BY DEF Inv, Typed, Create, Answer, Quota
<1>2. PICK y \in CallRec :
        /\ y = [call[c] EXCEPT !.pc = "done", !.seen = Unseen, !.answer = "ok"]
        /\ y.pc = "done" /\ y.ask = call[c].ask
  <2> DEFINE y == [call[c] EXCEPT !.pc = "done", !.seen = Unseen, !.answer = "ok"]
  <2>1. Unseen \in [Counters -> Int] BY DEF Unseen
  <2>2. y \in CallRec BY <1>1, <2>1 DEF CallRec, Pcs, Answers
  <2>3. y.pc = "done" /\ y.ask = call[c].ask BY <1>1 DEF CallRec
  <2>4. y = [call[c] EXCEPT !.pc = "done", !.seen = Unseen, !.answer = "ok"] OBVIOUS
  <2> HIDE DEF y
  <2> QED BY <2>2, <2>3, <2>4
<1>3. call' = [call EXCEPT ![c] = y] BY <1>1, <1>2
<1>4. bucket' \in [Bucket -> Usage] /\ kv' \in [Bucket -> Int] BY <1>1 DEF Inv, Typed
<1>5. UNCHANGED <<day, rec, held, job>> BY <1>1
<1> QED BY <1>1, <1>2, <1>3, <1>4, <1>5, StartMoves

LEMMA UndoKeeps ==
  ASSUME Inv, NEW c \in Calls, NEW n \in Counters, Undo(c, n)
  PROVE  Inv'
<1>1. /\ call \in [Calls -> CallRec] /\ call[c] \in CallRec /\ Fits(c, call[c])
      /\ call[c].pc \in {"decide", "undo"} /\ call[c].answer = "none"
      /\ bucket \in [Bucket -> Usage] /\ kv \in [Bucket -> Int]
      /\ UNCHANGED <<day, rec, held, job>>
  BY DEF Inv, Typed, Fits, Undo
<1>2. call[c].ask \in Asks /\ call[c].day \in Days BY <1>1 DEF CallRec
<1>3. PICK b \in Bucket : b = BucketOf(c, n)
  <2>1. WalletOf(c) \in Bucket /\ GlobalOf(c) \in Bucket
    BY <1>2 DEF WalletOf, GlobalOf, Bucket, Asks
  <2>2. BucketOf(c, n) \in Bucket BY <2>1 DEF BucketOf
  <2> QED BY <2>2
<1>4. bucket' \in [Bucket -> Usage] /\ kv' \in [Bucket -> Int]
  <2>1. CASE kv' = [kv EXCEPT ![b] = @ - 1] /\ UNCHANGED bucket BY <1>1, <2>1
  <2>2. CASE UNCHANGED kv /\ bucket' = [bucket EXCEPT ![b] = Decremented(@)]
    BY <1>1, <2>2, UsageTyped
  <2> QED BY <1>3, <2>1, <2>2 DEF Undo
<1>5. PICK pc \in {"done", "undo"}, a \in Answers, sn \in [Counters -> Int] :
        /\ a # "none" => pc = "done"
        /\ call' = [call EXCEPT ![c].counted = @ \ {n}, ![c].seen = sn,
                                ![c].answer = a, ![c].pc = pc]
  <2>1. Unseen \in [Counters -> Int] /\ call[c].seen \in [Counters -> Int]
    BY <1>1 DEF Unseen, CallRec
  <2>2. PICK v \in Answers : v = Verdict(c) BY DEF Verdict, Answers
  <2>3. CASE TakenBack(c) = {n}
    <3>1. call' = [call EXCEPT ![c].counted = @ \ {n}, ![c].seen = Unseen,
                               ![c].answer = v, ![c].pc = "done"]
      BY <2>2, <2>3 DEF Undo
    <3> QED BY <2>1, <3>1
  <2>4. CASE TakenBack(c) # {n}
    <3>1. call' = [call EXCEPT ![c].counted = @ \ {n}, ![c].seen = call[c].seen,
                               ![c].answer = "none", ![c].pc = "undo"]
      BY <1>1, <2>4 DEF Undo, CallRec
    <3>2. "none" \in Answers BY DEF Answers
    <3> QED BY <2>1, <3>1, <3>2
  <2> QED BY <2>3, <2>4
<1>6. PICK y \in CallRec :
        /\ y = [call[c] EXCEPT !.counted = call[c].counted \ {n}, !.seen = sn,
                               !.answer = a, !.pc = pc]
        /\ y.pc = pc /\ y.ask = call[c].ask /\ y.answer = a
  <2> DEFINE y == [call[c] EXCEPT !.counted = call[c].counted \ {n}, !.seen = sn,
                                  !.answer = a, !.pc = pc]
  <2>1. y \in CallRec BY <1>1 DEF CallRec, Pcs
  <2>2. y.pc = pc /\ y.ask = call[c].ask /\ y.answer = a BY <1>1 DEF CallRec
  <2>3. y = [call[c] EXCEPT !.counted = call[c].counted \ {n}, !.seen = sn,
                            !.answer = a, !.pc = pc] OBVIOUS
  <2> HIDE DEF y
  <2> QED BY <2>1, <2>2, <2>3
<1>7. call' = [call EXCEPT ![c] = y] BY <1>1, <1>5, <1>6
<1>8. y.pc \in {"kvGlobal", "shadow", "decide", "undo", "done"}
      /\ (y.answer # "none" => y.pc = "done")
  BY <1>5, <1>6
<1>9. call[c].pc \in {"kvWallet", "kvGlobal", "shadow", "decide", "undo"} BY <1>1
<1> QED BY <1>1, <1>4, <1>6, <1>7, <1>8, <1>9, StartMoves

LEMMA CrashKeeps ==
  ASSUME Inv, NEW c \in Calls, CrashCall(c)
  PROVE  Inv'
<1>1. /\ call \in [Calls -> CallRec] /\ call[c] \in CallRec /\ Fits(c, call[c])
      /\ call[c].pc # "done"
      /\ call' = [call EXCEPT ![c].pc = "crashed", ![c].seen = Unseen]
      /\ held' = [held EXCEPT ![<<"prepare", c>>] = {}]
      /\ UNCHANGED <<day, rec, bucket, kv, job>>
  BY DEF Inv, Typed, CrashCall, Rollback
<1>2. PICK y \in CallRec : /\ y = [call[c] EXCEPT !.pc = "crashed", !.seen = Unseen]
                           /\ y.pc = "crashed" /\ y.answer = call[c].answer
  <2> DEFINE y == [call[c] EXCEPT !.pc = "crashed", !.seen = Unseen]
  <2>1. Unseen \in [Counters -> Int] BY DEF Unseen
  <2>2. y \in CallRec BY <1>1, <2>1 DEF CallRec, Pcs
  <2>3. y.pc = "crashed" /\ y.answer = call[c].answer BY <1>1 DEF CallRec
  <2>4. y = [call[c] EXCEPT !.pc = "crashed", !.seen = Unseen] OBVIOUS
  <2> HIDE DEF y
  <2> QED BY <2>2, <2>3, <2>4
<1>3. call' = [call EXCEPT ![c] = y] BY <1>1, <1>2
<1>4. Fits(c, y) BY <1>1, <1>2 DEF Fits
<1>5. PrepareHolds(y.pc, {}) BY <1>2 DEF PrepareHolds
<1>6. day' \in Days /\ bucket' \in [Bucket -> Usage] /\ kv' \in [Bucket -> Int]
  BY <1>1 DEF Inv, Typed
<1>7. UNCHANGED <<rec, job>> /\ {} \in SUBSET Bucket BY <1>1
<1> QED BY <1>1, <1>3, <1>4, <1>5, <1>6, <1>7, CallMoves

--------------------------------------------------------------------------------
(* The end of a reservation.                                                       *)

LEMMA JobMoves ==
  ASSUME Inv, NEW r \in Calls, NEW j \in {"idle", "wallet", "global"},
         NEW h \in SUBSET Bucket,
         job' = [job EXCEPT ![r] = j],
         held' = [held EXCEPT ![<<"finish", r>>] = h],
         FinishHolds(j, h),
         UNCHANGED <<day, call, kv>>, bucket' \in [Bucket -> Usage],
         rec' \in [Calls -> RecRec],
         \A s \in Calls : rec'[s].ask = rec[s].ask
                          /\ (rec'[s].quota = "none" <=> rec[s].quota = "none"),
         j # "idle" => rec[r].quota # "none"
  PROVE  Inv'
<1>1. /\ call \in [Calls -> CallRec] /\ held \in [Tx -> SUBSET Bucket]
      /\ job \in [Calls -> {"idle", "wallet", "global"}]
  BY DEF Inv, Typed
<1>2. /\ held' \in [Tx -> SUBSET Bucket] /\ held'[<<"finish", r>>] = h
      /\ \A t \in Tx : t # <<"finish", r>> => held'[t] = held[t]
  BY <1>1, TxOf
<1>3. /\ job' \in [Calls -> {"idle", "wallet", "global"}] /\ job'[r] = j
      /\ \A s \in Calls \ {r} : job'[s] = job[s]
  BY <1>1
<1>4. Typed' BY <1>2, <1>3 DEF Inv, Typed
<1>5. Records' BY <1>3 DEF Inv, Records
<1>6. \A k : Found(k)' = Found(k) BY DEF Found
<1>7. ASSUME NEW d \in Calls PROVE Fits(d, call[d])'
  <2>1. PICK x \in CallRec : x = call[d] /\ Fits(d, x) BY <1>1 DEF Inv
  <2>2. \A k \in Found(x.ask.key) : k \in Found(x.ask.key)' /\ rec'[k].ask = rec[k].ask
    BY DEF Found
  <2>3. Fits(d, x)' BY <2>1, <2>2 DEF Fits
  <2>4. call'[d] = x BY <2>1
  <2> QED BY <2>3, <2>4
<1>8. ASSUME NEW d \in Calls
      PROVE  /\ PrepareHolds(call'[d].pc, held'[<<"prepare", d>>])
             /\ FinishHolds(job'[d], held'[<<"finish", d>>])
  <2>1. held'[<<"prepare", d>>] = held[<<"prepare", d>>] BY <1>2, TxOf
  <2>2. CASE d = r BY <1>2, <1>3, <2>1, <2>2 DEF Inv
  <2>3. CASE d # r
    <3>1. held'[<<"finish", d>>] = held[<<"finish", d>>] BY <1>2, <2>3, TxOf
    <3> QED BY <1>3, <2>1, <2>3, <3>1 DEF Inv
  <2> QED BY <2>2, <2>3
<1>9. /\ \A d \in Calls : PrepareHolds(call[d].pc, held[<<"prepare", d>>])'
      /\ \A d \in Calls : FinishHolds(job[d], held[<<"finish", d>>])'
  BY <1>8 DEF PrepareHolds, FinishHolds
<1> QED BY <1>4, <1>5, <1>7, <1>9 DEF Inv

\* Of the two buckets of a research the first one locked is its wallet's.
LEMMA BucketOrder ==
  ASSUME Inv, NEW r \in Calls
  PROVE  /\ NextBucket(r, "wallet") \in Bucket /\ NextBucket(r, "wallet").who # Global
         /\ NextBucket(r, "global") \in Bucket /\ NextBucket(r, "global").who = Global
<1>1. rec[r] \in RecRec BY DEF Inv, Typed
<1>2. rec[r].ask \in Asks /\ rec[r].day \in Days BY <1>1 DEF RecRec
<1>3. PICK w \in Wallets, d \in Days : w = rec[r].ask.wallet /\ d = rec[r].day
  BY <1>2 DEF Asks
<1>4. w # Global BY IntakeAssumption DEF IntakeAssumption
<1> DEFINE bw == [who |-> w, day |-> d]
           bg == [who |-> Global, day |-> d]
<1>5. bw \in Bucket /\ bg \in Bucket /\ bw.who = w /\ bg.who = Global BY DEF Bucket
<1>6. BucketsOf(r) = {bw, bg} BY <1>3 DEF BucketsOf
<1> HIDE DEF bw, bg
<1>7. /\ NextBucket(r, "wallet") \in {bw, bg} /\ NextBucket(r, "wallet").who # Global
  <2>1. \E b \in {bw, bg} : (b.who = Global) = ("wallet" = "global") BY <1>4, <1>5
  <2> QED BY <1>6, <2>1 DEF NextBucket
<1>8. /\ NextBucket(r, "global") \in {bw, bg} /\ NextBucket(r, "global").who = Global
  <2>1. \E b \in {bw, bg} : (b.who = Global) = ("global" = "global") BY <1>5
  <2> QED BY <1>6, <2>1 DEF NextBucket
<1> QED BY <1>5, <1>7, <1>8

LEMMA FinishKeeps ==
  ASSUME Inv, NEW r \in Calls, Finish(r) \/ CrashFinish(r)
  PROVE  Inv'
<1>1. /\ rec \in [Calls -> RecRec] /\ held \in [Tx -> SUBSET Bucket]
      /\ job \in [Calls -> {"idle", "wallet", "global"}]
      /\ bucket \in [Bucket -> Usage]
      /\ job[r] # "idle" => rec[r].quota # "none"
      /\ FinishHolds(job[r], held[<<"finish", r>>])
  BY DEF Inv, Typed, Records
<1>2. FinishHolds("idle", {}) /\ FinishHolds("wallet", {}) BY DEF FinishHolds
<1>3. CASE FinishRecord(r)
  <2>1. /\ job' = [job EXCEPT ![r] = "wallet"] /\ UNCHANGED <<day, call, kv>>
        /\ rec' = rec /\ bucket' = bucket /\ held' = held /\ rec[r].quota # "none"
        /\ job[r] = "idle"
    BY <1>3 DEF FinishRecord
  <2>2. held[<<"finish", r>>] = {} BY <1>1, <2>1 DEF FinishHolds
  <2>3. held' = [held EXCEPT ![<<"finish", r>>] = {}] BY <1>1, <2>1, <2>2, TxOf
  <2> QED BY <1>1, <1>2, <2>1, <2>3, JobMoves
<1>4. CASE FinishWallet(r)
  <2>1. PICK b \in Bucket : b = NextBucket(r, "wallet") /\ b.who # Global
    BY BucketOrder
  <2>2. PICK h \in SUBSET Bucket : h = {b} OBVIOUS
  <2>3. /\ job' = [job EXCEPT ![r] = "global"] /\ UNCHANGED <<day, call, kv>>
        /\ rec' = rec /\ bucket' = bucket
        /\ held' = [held EXCEPT ![<<"finish", r>>] = h] /\ job[r] = "wallet"
    BY <1>4, <2>1, <2>2 DEF FinishWallet
  <2>4. FinishHolds("global", h) BY <2>1, <2>2 DEF FinishHolds
  <2> QED BY <1>1, <2>3, <2>4, JobMoves
<1>5. CASE FinishGlobal(r)
  <2>1. PICK to \in {"consumed", "released"} :
          /\ rec' = [rec EXCEPT ![r].quota = to]
          /\ bucket' = [b \in Bucket |->
               IF b \notin BucketsOf(r) THEN bucket[b]
               ELSE IF to = "consumed" THEN ConsumedReserved(bucket[b])
               ELSE ReleasedReserved(bucket[b])]
    BY <1>5 DEF FinishGlobal
  <2>2. /\ job' = [job EXCEPT ![r] = "idle"] /\ UNCHANGED <<day, call, kv>>
        /\ held' = [held EXCEPT ![<<"finish", r>>] = {}] /\ job[r] = "global"
    BY <1>5 DEF FinishGlobal
  <2>3. bucket' \in [Bucket -> Usage] BY <1>1, <2>1, UsageTyped
  <2>4. PICK x \in RecRec : /\ x = [rec[r] EXCEPT !.quota = to]
                            /\ x.quota = to /\ x.ask = rec[r].ask
    <3> DEFINE x == [rec[r] EXCEPT !.quota = to]
    <3>1. rec[r] \in RecRec BY <1>1
    <3>2. x \in RecRec BY <3>1 DEF RecRec, Quotas
    <3>3. x.quota = to /\ x.ask = rec[r].ask BY <3>1 DEF RecRec
    <3>4. x = [rec[r] EXCEPT !.quota = to] OBVIOUS
    <3> HIDE DEF x
    <3> QED BY <3>2, <3>3, <3>4
  <2>5. rec' = [rec EXCEPT ![r] = x] BY <1>1, <2>1, <2>4
  <2>6. /\ rec' \in [Calls -> RecRec]
        /\ \A s \in Calls : rec'[s].ask = rec[s].ask
                            /\ (rec'[s].quota = "none" <=> rec[s].quota = "none")
    BY <1>1, <2>2, <2>4, <2>5
  <2> QED BY <1>2, <2>2, <2>3, <2>6, JobMoves
<1>6. CASE CrashFinish(r)
  <2>1. /\ job' = [job EXCEPT ![r] = "idle"] /\ UNCHANGED <<day, call, kv>>
        /\ rec' = rec /\ bucket' = bucket
        /\ held' = [held EXCEPT ![<<"finish", r>>] = {}]
    BY <1>6 DEF CrashFinish
  <2> QED BY <1>1, <1>2, <2>1, JobMoves
<1> QED BY <1>3, <1>4, <1>5, <1>6 DEF Finish

--------------------------------------------------------------------------------
(* The theorems.                                                                   *)

LEMMA InvInit ==
  ASSUME Init, \E a \in Asks : TRUE
  PROVE  Inv
<1>1. NoRec \in RecRec /\ NoRec.quota = "none" /\ NoRec.ask \in Asks
  <2>1. (CHOOSE a \in Asks : TRUE) \in Asks OBVIOUS
  <2>2. 1 \in Days BY IntakeAssumption DEF IntakeAssumption, Days
  <2> QED BY <2>1, <2>2 DEF NoRec, RecRec, Quotas
<1>2. \A c \in Calls : call[c] \in CallRec /\ call[c].pc = "idle" /\ call[c].answer = "none"
  <2>1. 1 \in Days BY IntakeAssumption DEF IntakeAssumption, Days
  <2>2. Unseen \in [Counters -> Int] BY DEF Unseen
  <2> QED BY <1>1, <2>1, <2>2 DEF Init, CallRec, Pcs, Answers
<1>3. call \in [Calls -> CallRec] BY <1>2 DEF Init
<1>4. Typed
  <2>1. [consumed |-> 0, reserved |-> 0, used |-> 0] \in Usage BY DEF Usage
  <2>2. day \in Days BY IntakeAssumption DEF Init, IntakeAssumption, Days
  <2> QED BY <1>1, <1>3, <2>1, <2>2 DEF Init, Typed
<1>5. Records BY <1>1 DEF Init, Records
<1>6. \A c \in Calls : Fits(c, call[c]) BY <1>1, <1>2 DEF Init, Fits
<1>7. \A t \in Tx : held[t] = {} BY DEF Init
<1>8. \A c \in Calls : held[<<"prepare", c>>] = {} /\ held[<<"finish", c>>] = {}
  BY <1>7, TxOf
<1>9. \A c \in Calls : PrepareHolds(call[c].pc, held[<<"prepare", c>>])
  BY <1>8 DEF PrepareHolds
<1>10. \A c \in Calls : FinishHolds(job[c], held[<<"finish", c>>])
  BY <1>8 DEF FinishHolds
<1> QED BY <1>4, <1>5, <1>6, <1>9, <1>10 DEF Inv

LEMMA InvStep ==
  ASSUME Inv, [Next]_vars
  PROVE  Inv'
<1>1. CASE \E c \in Calls : Prepare(c)
  BY <1>1, ArriveKeeps, BeginKeeps, ReserveKeeps, InsertKeeps DEF Prepare
<1>2. CASE \E c \in Calls : Start(c)
  BY <1>2, ArriveKeeps, CountKeeps, CreateKeeps, UndoKeeps DEF Start
<1>3. CASE \E c \in Calls : CrashCall(c) BY <1>3, CrashKeeps
<1>4. CASE \E r \in Calls : Finish(r) \/ CrashFinish(r) BY <1>4, FinishKeeps
<1>5. CASE Midnight \/ UNCHANGED vars
  <2>1. UNCHANGED <<call, rec, bucket, kv, held, job>> /\ day' \in Days
    BY <1>5, IntakeAssumption DEF IntakeAssumption, Midnight, vars, Quota, Inv, Typed, Days
  <2>2. Typed' BY <2>1 DEF Inv, Typed
  <2>3. Records' BY <2>1 DEF Inv, Records
  <2>4. ASSUME NEW c \in Calls PROVE Fits(c, call[c])' BY <2>1 DEF Inv, Fits, Found
  <2>5. \A c \in Calls : PrepareHolds(call[c].pc, held[<<"prepare", c>>])'
    BY <2>1 DEF Inv, PrepareHolds
  <2>6. \A r \in Calls : FinishHolds(job[r], held[<<"finish", r>>])'
    BY <2>1 DEF Inv, FinishHolds
  <2> QED BY <2>2, <2>3, <2>4, <2>5, <2>6 DEF Inv
<1> QED BY <1>1, <1>2, <1>3, <1>4, <1>5 DEF Next

\* One research per Idempotency-Key, whatever requests race between the lookup and the
\* unique index, and whoever is told "ok" is told of a research with its own wallet and
\* topic (prepareResearch and createFundingWithQuotaReservation).
THEOREM TwinsShareAResearch ==
  ASSUME \E a \in Asks : TRUE
  PROVE  Spec => []OneResearchPerKey
<1>1. Init => Inv BY InvInit
<1>2. Inv /\ [Next]_vars => Inv' BY InvStep
<1>3. Inv => OneResearchPerKey
  BY DEF Inv, Records, Fits, OneResearchPerKey, Found
<1> QED BY <1>1, <1>2, <1>3, PTL DEF Spec

\* The row locks of the quota never form a cycle: a prepare and the end of a
\* reservation both take the wallet's bucket before the global one, and whoever has the
\* global one is at its commit.
THEOREM LocksAreOrdered ==
  ASSUME \E a \in Asks : TRUE
  PROVE  Spec => []NoLockCycle
<1>1. Init => Inv BY InvInit
<1>2. Inv /\ [Next]_vars => Inv' BY InvStep
<1>3. ASSUME Inv PROVE NoLockCycle
  <2> SUFFICES ASSUME NEW S \in SUBSET Holding, S # {}
               PROVE  \E t \in S : \A u \in S \ {t} : Wants(t) \intersect held[u] = {}
    BY DEF NoLockCycle
  <2>1. ASSUME NEW t \in S
        PROVE  \/ Wants(t) = {}
               \/ /\ \A b \in held[t] : b.who # Global
                  /\ \A b \in Wants(t) : b.who = Global
    <3>1. t \in Tx /\ held[t] # {} BY DEF Holding
    <3>2. PICK c \in Calls : t = <<"prepare", c>> \/ t = <<"finish", c>> BY <3>1, TxOf
    <3>3. CASE t = <<"prepare", c>>
      <4>1. call[c].pc \in {"global", "insert"} /\ PrepareHolds(call[c].pc, held[t])
        BY <1>3, <3>1, <3>3 DEF Inv, PrepareHolds
      <4>2. CASE call[c].pc = "insert" BY <3>3, <4>2 DEF Wants
      <4>3. CASE call[c].pc = "global"
        <5>1. Wants(t) = {GlobalOf(c)} BY <3>3, <4>3 DEF Wants
        <5> QED BY <4>1, <4>3, <5>1 DEF PrepareHolds, GlobalOf
      <4> QED BY <4>1, <4>2, <4>3
    <3>4. CASE t = <<"finish", c>>
      <4>1. job[c] = "global" /\ FinishHolds(job[c], held[t])
        BY <1>3, <3>1, <3>4 DEF Inv, FinishHolds
      <4>2. Wants(t) = {NextBucket(c, "global")} BY <3>4, <4>1 DEF Wants
      <4> QED BY <1>3, <3>1, <4>1, <4>2, BucketOrder DEF FinishHolds
    <3> QED BY <3>2, <3>3, <3>4
  <2>2. CASE \E t \in S : Wants(t) = {} BY <2>2
  <2>3. CASE \A t \in S : Wants(t) # {}
    <3>1. PICK t \in S : TRUE OBVIOUS
    <3>2. \A u \in S : \A b \in held[u] : b.who # Global BY <2>1, <2>3
    <3>3. \A b \in Wants(t) : b.who = Global BY <2>1, <2>3
    <3> QED BY <3>2, <3>3
  <2> QED BY <2>2, <2>3
<1> QED BY <1>1, <1>2, <1>3, PTL DEF Spec

--------------------------------------------------------------------------------
(* The books of the quota. Every counter is the size of a set of calls, and a      *)
(* step moves one call in or out of these sets. A place below a limit is taken     *)
(* before it is used: by the rows a prepare holds until its commit, and by the     *)
(* counters a start has raised and seen within the limit.                          *)

Kv == {"kvWallet", "kvGlobal"}
Pg == {"pgWallet", "pgGlobal"}

\* The counters by which a start is admitted.
Deciding == IF shadow THEN Pg ELSE Kv

Refused(x) ==
  \/ shadow /\ (\/ x.seen["pgWallet"] # x.seen["kvWallet"]
                \/ x.seen["pgGlobal"] # x.seen["kvGlobal"])
  \/ x.seen["kvWallet"] > WalletLimit \/ x.seen["kvGlobal"] > GlobalLimit

\* What a call, standing as x, has counted.
Tallied(x) ==
  /\ x.seen \in [Counters -> Nat]
  /\ ~shadow => x.counted \subseteq Kv
  /\ x.pc \in {"idle", "begin", "wallet", "global", "insert", "reread", "kvWallet"}
       => x.counted = {}
  /\ x.pc = "kvGlobal" => x.counted = {"kvWallet"}
  /\ x.pc = "shadow" => shadow /\ Kv \subseteq x.counted
  /\ x.pc = "decide" => x.counted = Kv \union Deciding
  /\ x.pc = "undo" => Refused(x)
  /\ x.pc = "done" => x.counted = IF x.ask.op = "start" /\ x.answer = "ok"
                                  THEN Kv \union Deciding ELSE {}

\* The rows of a prepare, which nobody else has and which have room for it.
Locked ==
  /\ \A c \in Calls : call[c].pc = "global" => held[<<"prepare", c>>] = {WalletOf(c)}
  /\ \A c \in Calls : call[c].pc = "insert"
       => held[<<"prepare", c>>] = {WalletOf(c), GlobalOf(c)}
  /\ \A c, d \in Calls : c # d
       => held[<<"prepare", c>>] \intersect held[<<"prepare", d>>] = {}
  /\ \A c \in Calls : \A b \in held[<<"prepare", c>>] : WithinLimit(b, Limit(b))

KvMatches == \A b \in Bucket : kv[b] = Cardinality(CountedIn(b, Kv))

\* The starts that are admitted, and those that will be if nothing else refuses them.
Hopeful(b) ==
  {c \in Calls : /\ call[c].pc \in {"kvGlobal", "shadow", "decide"}
                 /\ \E n \in Deciding \intersect call[c].counted :
                      BucketOf(c, n) = b /\ call[c].seen[n] <= Limit(b)}
Places(b) == Started(b) \union Hopeful(b)
Reserving(b) == Live(b) \union Consumed(b)

PlacesFit ==
  \A b \in Bucket :
    IF shadow THEN Cardinality(Reserving(b)) + Cardinality(Places(b)) <= Limit(b)
    ELSE Cardinality(Reserving(b)) <= Limit(b) /\ Cardinality(Places(b)) <= Limit(b)

AllTallied == \A c \in Calls : Tallied(call[c])

JobsReserve == \A r \in Calls : job[r] # "idle" => rec[r].quota = "reserved"

Active == {c \in Calls : call[c].pc # "idle"}

Books ==
  /\ shadow \in BOOLEAN /\ IsFiniteSet(Active)
  /\ AllTallied /\ JobsReserve /\ Locked /\ BucketsMatchRecords /\ KvMatches /\ PlacesFit
--------------------------------------------------------------------------------
(* Counting.                                                                       *)

One(P) == IF P THEN 1 ELSE 0

\* A set that differs from a finite one in no more than one member.
LEMMA OneMember ==
  ASSUME NEW S, NEW T, NEW x, IsFiniteSet(S), S \ {x} = T \ {x}
  PROVE  /\ IsFiniteSet(T) /\ Cardinality(S) \in Nat /\ Cardinality(T) \in Nat
         /\ Cardinality(T) = Cardinality(S) + One(x \in T) - One(x \in S)
<1> DEFINE R == S \ {x}
<1>1. IsFiniteSet(R) /\ Cardinality(R) = Cardinality(S) - One(x \in S)
  BY FS_RemoveElement, FS_CardinalityType DEF One
<1>2. Cardinality(S) \in Nat /\ Cardinality(R) \in Nat BY <1>1, FS_CardinalityType
<1>3. CASE x \in T
  <2>1. T = R \union {x} BY <1>3
  <2>2. x \notin R OBVIOUS
  <2> HIDE DEF R
  <2>3. IsFiniteSet(T) /\ Cardinality(T) = Cardinality(R) + 1
    BY <1>1, <2>1, <2>2, FS_AddElement
  <2> QED BY <1>1, <1>2, <1>3, <2>3 DEF One
<1>4. CASE x \notin T
  <2>1. T = R BY <1>4
  <2> QED BY <1>1, <1>2, <1>4, <2>1 DEF One
<1> QED BY <1>3, <1>4

LEMMA Sizes ==
  ASSUME NEW S, IsFiniteSet(S), NEW T \in SUBSET S
  PROVE  /\ IsFiniteSet(T) /\ Cardinality(T) \in Nat /\ Cardinality(S) \in Nat
         /\ Cardinality(T) <= Cardinality(S)
BY FS_Subset, FS_CardinalityType

\* The two buckets of a call.
LEMMA TwoBuckets ==
  ASSUME Inv, NEW c \in Calls
  PROVE  /\ WalletOf(c) \in Bucket /\ GlobalOf(c) \in Bucket
         /\ WalletOf(c) # GlobalOf(c)
         /\ Limit(WalletOf(c)) = WalletLimit /\ Limit(GlobalOf(c)) = GlobalLimit
         /\ \A n \in Counters : BucketOf(c, n) \in Bucket
<1>1. call[c] \in CallRec BY DEF Inv, Typed
<1>2. call[c].ask \in Asks /\ call[c].day \in Days BY <1>1 DEF CallRec
<1>3. call[c].ask.wallet \in Wallets BY <1>2 DEF Asks
<1>4. call[c].ask.wallet # Global BY <1>3, IntakeAssumption DEF IntakeAssumption
<1>5. WalletOf(c) \in Bucket /\ GlobalOf(c) \in Bucket
  BY <1>2, <1>3 DEF WalletOf, GlobalOf, Bucket
<1>6. WalletOf(c).who # Global /\ GlobalOf(c).who = Global
  BY <1>4 DEF WalletOf, GlobalOf
<1> QED BY <1>5, <1>6 DEF Limit, BucketOf

LEMMA LimitsAreNat == \A b \in Bucket : Limit(b) \in Nat
BY IntakeAssumption DEF IntakeAssumption, Limit

\* A step of the call c, or of the job of its research: what the others count stays.
Only(c) == /\ \A d \in Calls \ {c} : call'[d] = call[d] /\ rec'[d] = rec[d]
           /\ shadow' = shadow

LEMMA OthersStay ==
  ASSUME NEW c \in Calls, Only(c), NEW b
  PROVE  /\ Active' \ {c} = Active \ {c}
         /\ Live(b)' \ {c} = Live(b) \ {c} /\ Consumed(b)' \ {c} = Consumed(b) \ {c}
         /\ Reserving(b)' \ {c} = Reserving(b) \ {c}
         /\ CountedIn(b, Kv)' \ {c} = CountedIn(b, Kv) \ {c}
         /\ CountedIn(b, Pg)' \ {c} = CountedIn(b, Pg) \ {c}
         /\ Places(b)' \ {c} = Places(b) \ {c}
<1>1. ASSUME NEW d \in Calls \ {c}
      PROVE  /\ d \in Active' <=> d \in Active
             /\ d \in Live(b)' <=> d \in Live(b)
             /\ d \in Consumed(b)' <=> d \in Consumed(b)
             /\ d \in CountedIn(b, Kv)' <=> d \in CountedIn(b, Kv)
             /\ d \in CountedIn(b, Pg)' <=> d \in CountedIn(b, Pg)
             /\ d \in Started(b)' <=> d \in Started(b)
             /\ d \in Hopeful(b)' <=> d \in Hopeful(b)
  <2>1. call'[d] = call[d] /\ rec'[d] = rec[d] /\ shadow' = shadow BY DEF Only
  <2>2. /\ WalletOf(d)' = WalletOf(d) /\ GlobalOf(d)' = GlobalOf(d)
        /\ BucketsOf(d)' = BucketsOf(d) /\ Deciding' = Deciding
    BY <2>1 DEF WalletOf, GlobalOf, BucketsOf, Deciding
  <2>3. \A n : BucketOf(d, n)' = BucketOf(d, n) BY <2>2 DEF BucketOf
  <2>4. d \in Active' <=> d \in Active BY <2>1 DEF Active
  <2>5. In(b, d)' <=> In(b, d) BY <2>1, <2>2 DEF In
  <2>6. d \in Live(b)' <=> d \in Live(b) BY <2>1, <2>5 DEF Live
  <2>7. d \in Consumed(b)' <=> d \in Consumed(b) BY <2>1, <2>5 DEF Consumed
  <2>8. d \in CountedIn(b, Kv)' <=> d \in CountedIn(b, Kv)
    BY <2>1, <2>3 DEF CountedIn, Kv
  <2>9. d \in CountedIn(b, Pg)' <=> d \in CountedIn(b, Pg)
    BY <2>1, <2>3 DEF CountedIn, Pg
  <2>10. d \in Started(b)' <=> d \in Started(b) BY <2>1, <2>2 DEF Started
  <2>11. d \in Hopeful(b)' <=> d \in Hopeful(b)
    BY <2>1, <2>2, <2>3 DEF Hopeful, Limit
  <2> QED BY <2>4, <2>6, <2>7, <2>8, <2>9, <2>10, <2>11
<1>2. /\ Active \subseteq Calls /\ Live(b) \subseteq Calls /\ Consumed(b) \subseteq Calls
      /\ CountedIn(b, Kv) \subseteq Calls /\ CountedIn(b, Pg) \subseteq Calls
      /\ Started(b) \subseteq Calls /\ Hopeful(b) \subseteq Calls
  BY DEF Active, Live, Consumed, CountedIn, Started, Hopeful
<1>3. /\ Active' \subseteq Calls /\ Live(b)' \subseteq Calls /\ Consumed(b)' \subseteq Calls
      /\ CountedIn(b, Kv)' \subseteq Calls /\ CountedIn(b, Pg)' \subseteq Calls
      /\ Started(b)' \subseteq Calls /\ Hopeful(b)' \subseteq Calls
  BY DEF Active, Live, Consumed, CountedIn, Started, Hopeful
<1>4. Reserving(b)' \ {c} = Reserving(b) \ {c} BY <1>1, <1>2, <1>3 DEF Reserving
<1>5. Places(b)' \ {c} = Places(b) \ {c} BY <1>1, <1>2, <1>3 DEF Places
<1> QED BY <1>1, <1>2, <1>3, <1>4, <1>5

\* Whoever is counted anywhere is a call that has come.
LEMMA AllAreActive ==
  ASSUME Inv, AllTallied, NEW b
  PROVE  /\ Live(b) \subseteq Active /\ Consumed(b) \subseteq Active
         /\ Reserving(b) \subseteq Active /\ Live(b) \intersect Consumed(b) = {}
         /\ CountedIn(b, Kv) \subseteq Active /\ CountedIn(b, Pg) \subseteq Active
         /\ Places(b) \subseteq CountedIn(b, Deciding)
<1>1. \A c \in Calls : rec[c].quota # "none" => c \in Active
  BY DEF Inv, Fits, Active
<1>2. \A c \in Calls : call[c].counted # {} => c \in Active
  BY DEF AllTallied, Tallied, Active
<1>3. Live(b) \subseteq Active /\ Consumed(b) \subseteq Active /\ Live(b) \intersect Consumed(b) = {}
  BY <1>1 DEF Live, Consumed, In
<1>4. CountedIn(b, Kv) \subseteq Active /\ CountedIn(b, Pg) \subseteq Active
  BY <1>2 DEF CountedIn
<1>5. ASSUME NEW c \in Started(b) PROVE c \in CountedIn(b, Deciding)
  <2>1. /\ c \in Calls /\ call[c].ask.op = "start" /\ call[c].answer = "ok"
        /\ b \in {WalletOf(c), GlobalOf(c)}
    BY DEF Started
  <2>2. call[c].pc = "done" BY <2>1 DEF Inv, Fits
  <2>3. call[c].counted = Kv \union Deciding BY <2>1, <2>2 DEF AllTallied, Tallied
  <2>4. \E n \in Deciding : BucketOf(c, n) = b
    BY <2>1 DEF BucketOf, Deciding, Kv, Pg
  <2> QED BY <2>1, <2>3, <2>4 DEF CountedIn
<1>6. Hopeful(b) \subseteq CountedIn(b, Deciding) BY DEF Hopeful, CountedIn
<1> QED BY <1>3, <1>4, <1>5, <1>6 DEF Reserving, Places

PlacesCounted == \A b \in Bucket : Places(b) \subseteq CountedIn(b, Deciding)

LEMMA PlacesAreCounted == Inv /\ AllTallied => PlacesCounted
BY AllAreActive DEF PlacesCounted

LEMMA PlacesAreCountedNext == Inv' /\ AllTallied' => PlacesCounted'
BY PlacesAreCounted, PTL

\* What a bucket counts moves with the one call that may have joined or left.
LEMMA CountsMove ==
  ASSUME Inv, Books, NEW c \in Calls, Only(c), NEW b \in Bucket
  PROVE  /\ IsFiniteSet(Active')
         /\ /\ IsFiniteSet(Live(b)') /\ Cardinality(Live(b)) \in Nat
            /\ Cardinality(Live(b)') = Cardinality(Live(b))
                 + One(c \in Live(b)') - One(c \in Live(b))
         /\ /\ IsFiniteSet(Consumed(b)') /\ Cardinality(Consumed(b)) \in Nat
            /\ Cardinality(Consumed(b)') = Cardinality(Consumed(b))
                 + One(c \in Consumed(b)') - One(c \in Consumed(b))
         /\ /\ IsFiniteSet(CountedIn(b, Kv)') /\ Cardinality(CountedIn(b, Kv)) \in Nat
            /\ Cardinality(CountedIn(b, Kv)') = Cardinality(CountedIn(b, Kv))
                 + One(c \in CountedIn(b, Kv)') - One(c \in CountedIn(b, Kv))
         /\ /\ IsFiniteSet(CountedIn(b, Pg)') /\ Cardinality(CountedIn(b, Pg)) \in Nat
            /\ Cardinality(CountedIn(b, Pg)') = Cardinality(CountedIn(b, Pg))
                 + One(c \in CountedIn(b, Pg)') - One(c \in CountedIn(b, Pg))
         /\ IsFiniteSet(Places(b)) /\ IsFiniteSet(Reserving(b))
<1>1. IsFiniteSet(Active) /\ AllTallied BY DEF Books
<1>2. /\ Live(b) \subseteq Active /\ Consumed(b) \subseteq Active
      /\ Reserving(b) \subseteq Active
      /\ CountedIn(b, Kv) \subseteq Active /\ CountedIn(b, Pg) \subseteq Active
      /\ Places(b) \subseteq CountedIn(b, Deciding)
  BY <1>1, AllAreActive
<1>3. Places(b) \subseteq Active BY <1>2 DEF Deciding
<1>4. /\ IsFiniteSet(Live(b)) /\ IsFiniteSet(Consumed(b)) /\ IsFiniteSet(Reserving(b))
      /\ IsFiniteSet(CountedIn(b, Kv)) /\ IsFiniteSet(CountedIn(b, Pg))
      /\ IsFiniteSet(Places(b))
  BY <1>1, <1>2, <1>3, Sizes
<1>5. IsFiniteSet(Active') BY <1>1, OthersStay, OneMember
<1>6. /\ IsFiniteSet(Live(b)') /\ Cardinality(Live(b)) \in Nat
      /\ Cardinality(Live(b)') = Cardinality(Live(b))
           + One(c \in Live(b)') - One(c \in Live(b))
  BY <1>4, OthersStay, OneMember
<1>7. /\ IsFiniteSet(Consumed(b)') /\ Cardinality(Consumed(b)) \in Nat
      /\ Cardinality(Consumed(b)') = Cardinality(Consumed(b))
           + One(c \in Consumed(b)') - One(c \in Consumed(b))
  BY <1>4, OthersStay, OneMember
<1>8. /\ IsFiniteSet(CountedIn(b, Kv)') /\ Cardinality(CountedIn(b, Kv)) \in Nat
      /\ Cardinality(CountedIn(b, Kv)') = Cardinality(CountedIn(b, Kv))
           + One(c \in CountedIn(b, Kv)') - One(c \in CountedIn(b, Kv))
  BY <1>4, OthersStay, OneMember
<1>9. /\ IsFiniteSet(CountedIn(b, Pg)') /\ Cardinality(CountedIn(b, Pg)) \in Nat
      /\ Cardinality(CountedIn(b, Pg)') = Cardinality(CountedIn(b, Pg))
           + One(c \in CountedIn(b, Pg)') - One(c \in CountedIn(b, Pg))
  BY <1>4, OthersStay, OneMember
<1> QED BY <1>4, <1>5, <1>6, <1>7, <1>8, <1>9

\* The counters of b move with what they count: records, and starts.
BucketFollows(c, b) ==
  /\ bucket'[b].reserved = bucket[b].reserved + One(c \in Live(b)') - One(c \in Live(b))
  /\ bucket'[b].consumed = bucket[b].consumed
       + One(c \in Consumed(b)') - One(c \in Consumed(b))
       + One(c \in CountedIn(b, Pg)') - One(c \in CountedIn(b, Pg))
  /\ bucket'[b].used = bucket'[b].reserved + bucket'[b].consumed
KvFollows(c, b) ==
  kv'[b] = kv[b] + One(c \in CountedIn(b, Kv)') - One(c \in CountedIn(b, Kv))

\* Nobody takes a place in b, or whoever does is within the limit.
StaysWithin(c, b) ==
  \/ /\ c \in Places(b)' => c \in Places(b)
     /\ c \in Reserving(b)' => c \in Reserving(b)
  \/ shadow /\ bucket'[b].used <= Limit(b)
  \/ /\ ~shadow /\ kv'[b] <= Limit(b)
     /\ c \in Reserving(b)' => c \in Reserving(b)
  \/ /\ ~shadow /\ bucket'[b].used <= Limit(b)
     /\ c \in Places(b)' => c \in Places(b)

LEMMA BooksStep ==
  ASSUME Inv, Books, Inv', NEW c \in Calls, Only(c),
         Tallied(call[c])', JobsReserve', Locked',
         \A b \in Bucket : BucketFollows(c, b) /\ KvFollows(c, b) /\ StaysWithin(c, b)
  PROVE  Books'
<1>1. AllTallied'
  <2>1. ASSUME NEW d \in Calls \ {c} PROVE Tallied(call[d])'
    <3>1. PICK x : x = call[d] /\ Tallied(x) /\ call'[d] = x
      BY DEF Books, AllTallied, Only
    <3>2. Tallied(x)' BY <3>1 DEF Tallied, Only, Refused, Deciding
    <3> QED BY <3>1, <3>2
  <2> QED BY <2>1 DEF AllTallied
<1>2. \A b \in Bucket : Places(b)' \subseteq CountedIn(b, Deciding)'
  BY <1>1, PlacesAreCountedNext DEF PlacesCounted
<1>3. IsFiniteSet(Active') /\ shadow' \in BOOLEAN
  <2>1. c \in Calls /\ Bucket # {} BY TwoBuckets
  <2> QED BY <2>1, CountsMove DEF Books, Only
<1>4. BucketsMatchRecords'
  <2>1. ASSUME NEW b \in Bucket
        PROVE  /\ bucket'[b].reserved = Cardinality(Live(b)')
               /\ bucket'[b].consumed = Cardinality(Consumed(b)')
                                        + Cardinality(CountedIn(b, Pg)')
    <3>1. /\ bucket[b].reserved = Cardinality(Live(b))
          /\ bucket[b].consumed = Cardinality(Consumed(b)) + Cardinality(CountedIn(b, Pg))
      BY DEF Books, BucketsMatchRecords, Pg
    <3> QED BY <3>1, CountsMove DEF BucketFollows, One
  <2> QED BY <2>1 DEF BucketFollows, BucketsMatchRecords, Pg
<1>5. KvMatches'
  <2>1. ASSUME NEW b \in Bucket PROVE kv'[b] = Cardinality(CountedIn(b, Kv)')
    <3>1. kv[b] = Cardinality(CountedIn(b, Kv)) BY DEF Books, KvMatches
    <3> QED BY <3>1, CountsMove DEF KvFollows, One
  <2> QED BY <2>1 DEF KvMatches
<1>6. PlacesFit'
  <2> SUFFICES ASSUME NEW b \in Bucket
               PROVE  IF shadow
                      THEN Cardinality(Reserving(b)') + Cardinality(Places(b)') <= Limit(b)
                      ELSE /\ Cardinality(Reserving(b)') <= Limit(b)
                           /\ Cardinality(Places(b)') <= Limit(b)
    <3>1. shadow' = shadow BY DEF Only
    <3> QED BY <3>1 DEF PlacesFit, Limit
  <2>1. /\ IsFiniteSet(Live(b)') /\ IsFiniteSet(Consumed(b)')
        /\ IsFiniteSet(CountedIn(b, Kv)') /\ IsFiniteSet(CountedIn(b, Pg)')
        /\ IsFiniteSet(Places(b)) /\ IsFiniteSet(Reserving(b))
    BY CountsMove
  <2>2. /\ Cardinality(Reserving(b)') = Cardinality(Live(b)') + Cardinality(Consumed(b)')
        /\ IsFiniteSet(Reserving(b)')
        /\ Cardinality(Live(b)') \in Nat /\ Cardinality(Consumed(b)') \in Nat
    <3>1. Live(b)' \intersect Consumed(b)' = {} BY DEF Live, Consumed
    <3> QED BY <2>1, <3>1, FS_Union, FS_EmptySet, FS_CardinalityType DEF Reserving
  <2>3. /\ bucket'[b].used = Cardinality(Reserving(b)') + Cardinality(CountedIn(b, Pg)')
        /\ kv'[b] = Cardinality(CountedIn(b, Kv)')
        /\ Cardinality(CountedIn(b, Pg)') \in Nat /\ Cardinality(CountedIn(b, Kv)') \in Nat
    BY <1>4, <1>5, <2>1, <2>2, FS_CardinalityType DEF BucketsMatchRecords, KvMatches, Pg
  <2>4. /\ shadow => Cardinality(Places(b)') <= Cardinality(CountedIn(b, Pg)')
        /\ ~shadow => Cardinality(Places(b)') <= Cardinality(CountedIn(b, Kv)')
        /\ IsFiniteSet(Places(b)') /\ Cardinality(Places(b)') \in Nat
    <3>1. Deciding' = Deciding BY DEF Deciding, Only
    <3>2. Places(b)' \subseteq IF shadow THEN CountedIn(b, Pg)' ELSE CountedIn(b, Kv)'
      BY <1>2, <3>1 DEF Deciding
    <3> QED BY <2>1, <3>2, Sizes
  <2>6. Cardinality(Places(b)) \in Nat /\ Cardinality(Reserving(b)) \in Nat
    BY <2>1, FS_CardinalityType
  <2>7. (c \in Places(b)' => c \in Places(b))
        => Cardinality(Places(b)') <= Cardinality(Places(b))
    <3>1. ASSUME c \in Places(b)' => c \in Places(b) PROVE Places(b)' \subseteq Places(b)
      BY <3>1, OthersStay
    <3> QED BY <2>1, <3>1, Sizes
  <2>8. (c \in Reserving(b)' => c \in Reserving(b))
        => Cardinality(Reserving(b)') <= Cardinality(Reserving(b))
    <3>1. ASSUME c \in Reserving(b)' => c \in Reserving(b)
          PROVE  Reserving(b)' \subseteq Reserving(b)
      BY <3>1, OthersStay
    <3> QED BY <2>1, <3>1, Sizes
  <2>9. IF shadow THEN Cardinality(Reserving(b)) + Cardinality(Places(b)) <= Limit(b)
        ELSE /\ Cardinality(Reserving(b)) <= Limit(b)
             /\ Cardinality(Places(b)) <= Limit(b)
    BY DEF Books, PlacesFit
  <2>10. Limit(b) \in Nat BY LimitsAreNat
  <2>11. /\ Cardinality(Reserving(b)') \in Nat BY <2>2
  <2> QED BY <2>2, <2>3, <2>4, <2>6, <2>7, <2>8, <2>9, <2>10, <2>11 DEF StaysWithin, Books
<1> QED BY <1>1, <1>3, <1>4, <1>5, <1>6 DEF Books

--------------------------------------------------------------------------------
(* The steps, as the books see them.                                              *)

\* The call c holds nothing after the step, and no row of another prepare filled up.
LEMMA LocksStay ==
  ASSUME Inv, Books, Inv', NEW c \in Calls, Only(c),
         call'[c].pc \notin {"global", "insert"}, held'[<<"prepare", c>>] = {},
         \A d \in Calls \ {c} : held'[<<"prepare", d>>] = held[<<"prepare", d>>],
         \A d \in Calls \ {c} : \A b \in held[<<"prepare", d>>] :
            bucket'[b].used <= bucket[b].used
  PROVE  Locked'
<1>1. /\ bucket \in [Bucket -> Usage] /\ bucket' \in [Bucket -> Usage]
      /\ held \in [Tx -> SUBSET Bucket]
  BY DEF Inv, Typed
<1>2. \A d \in Calls \ {c} : /\ call'[d] = call[d] /\ WalletOf(d)' = WalletOf(d)
                             /\ GlobalOf(d)' = GlobalOf(d)
  BY DEF Only, WalletOf, GlobalOf
<1>3. \A d \in Calls : call'[d].pc = "global" => held'[<<"prepare", d>>] = {WalletOf(d)'}
  BY <1>2 DEF Books, Locked
<1>4. \A d \in Calls : call'[d].pc = "insert"
        => held'[<<"prepare", d>>] = {WalletOf(d)', GlobalOf(d)'}
  BY <1>2 DEF Books, Locked
<1>5. \A d, e \in Calls : d # e
        => held'[<<"prepare", d>>] \intersect held'[<<"prepare", e>>] = {}
  BY DEF Books, Locked
<1>6. ASSUME NEW d \in Calls, NEW b \in held'[<<"prepare", d>>]
      PROVE  WithinLimit(b, Limit(b))'
  <2>1. d # c /\ b \in held[<<"prepare", d>>] OBVIOUS
  <2>2. b \in Bucket BY <1>1, <2>1, TxOf
  <2>3. bucket[b].used + 1 <= Limit(b) BY <2>1 DEF Books, Locked, WithinLimit
  <2>4. bucket'[b].used <= bucket[b].used BY <2>1
  <2>5. bucket[b].used \in Int /\ bucket'[b].used \in Int BY <1>1, <2>2 DEF Usage
  <2>6. Limit(b) \in Nat BY <2>2, LimitsAreNat
  <2> QED BY <2>3, <2>4, <2>5, <2>6 DEF WithinLimit, Limit
<1> QED BY <1>3, <1>4, <1>5, <1>6 DEF Locked

\* A step that counts nothing, takes nothing back and makes or ends no reservation.
LEMMA CountsStay ==
  ASSUME Inv, Books, Inv', NEW c \in Calls, Only(c),
         Tallied(call[c])', JobsReserve', Locked',
         rec' = rec, bucket' = bucket, kv' = kv, call'[c].counted = call[c].counted,
         call[c].counted # {} => WalletOf(c)' = WalletOf(c) /\ GlobalOf(c)' = GlobalOf(c),
         \A b \in Bucket : c \in Places(b)' => c \in Places(b)
  PROVE  Books'
<1>1. ASSUME NEW b \in Bucket
      PROVE  BucketFollows(c, b) /\ KvFollows(c, b) /\ StaysWithin(c, b)
  <2>1. BucketsOf(c)' = BucketsOf(c) BY DEF BucketsOf
  <2>2. /\ c \in Live(b)' <=> c \in Live(b)
        /\ c \in Consumed(b)' <=> c \in Consumed(b)
    BY <2>1 DEF Live, Consumed, In
  <2>3. \A n \in call[c].counted : BucketOf(c, n)' = BucketOf(c, n) BY DEF BucketOf
  <2>4. /\ c \in CountedIn(b, Kv)' <=> c \in CountedIn(b, Kv)
        /\ c \in CountedIn(b, Pg)' <=> c \in CountedIn(b, Pg)
    BY <2>3 DEF CountedIn, Kv, Pg
  <2>5. bucket[b] \in Usage /\ kv[b] \in Int BY DEF Inv, Typed
  <2>6. bucket[b].used = bucket[b].reserved + bucket[b].consumed
    BY DEF Books, BucketsMatchRecords
  <2>7. BucketFollows(c, b)
    BY <2>2, <2>4, <2>5, <2>6 DEF BucketFollows, One, Usage
  <2>8. KvFollows(c, b) BY <2>4, <2>5 DEF KvFollows, One
  <2>9. StaysWithin(c, b) BY <2>2 DEF StaysWithin, Reserving
  <2> QED BY <2>7, <2>8, <2>9
<1> QED BY <1>1, BooksStep

\* A step of a call that has counted nothing, and is not a start that is admitted.
LEMMA NothingCounted ==
  ASSUME Inv, Books, Inv', NEW c \in Calls, Only(c), Locked',
         UNCHANGED <<rec, bucket, kv, job>>,
         call[c].pc \in {"idle", "begin", "wallet", "global", "insert", "reread"},
         call'[c].pc \in {"begin", "wallet", "global", "insert", "reread", "kvWallet", "done"},
         call'[c].counted = call[c].counted, call'[c].seen \in [Counters -> Nat],
         ~(call'[c].ask.op = "start" /\ call'[c].answer = "ok")
  PROVE  Books'
<1>1. call[c].counted = {} BY DEF Books, AllTallied, Tallied
<1>2. Tallied(call[c])' BY <1>1 DEF Tallied
<1>3. JobsReserve' BY DEF Books, JobsReserve
<1>4. \A b \in Bucket : c \notin Places(b)' BY <1>1 DEF Places, Started, Hopeful
<1> QED BY <1>1, <1>2, <1>3, <1>4, CountsStay

\* The lookups of a prepare, and the arrivals.
LEMMA LookupCounts ==
  ASSUME Inv, Books, Inv', NEW c \in Calls,
         \/ ArrivePrepare(c) \/ ArriveStart(c) \/ Begin(c) \/ Reread(c)
  PROVE  Books'
<1>1. /\ call \in [Calls -> CallRec] /\ call[c] \in CallRec
      /\ held \in [Tx -> SUBSET Bucket] /\ call[c].pc \in {"idle", "begin", "reread"}
      /\ UNCHANGED <<shadow, rec, bucket, kv, held, job>>
  BY DEF Inv, Typed, ArrivePrepare, ArriveStart, Begin, Reread, Quota
<1>2. held[<<"prepare", c>>] = {} BY <1>1 DEF Inv, PrepareHolds
<1>3. /\ \A d \in Calls \ {c} : call'[d] = call[d]
      /\ call'[c].pc \in {"begin", "wallet", "kvWallet", "done"}
      /\ call'[c].counted = call[c].counted /\ call'[c].seen = call[c].seen
      /\ ~(call'[c].ask.op = "start" /\ call'[c].answer = "ok")
  <2>1. CASE \E ask : ask.op = "prepare" /\ \E r \in Found(ask.key) : AnswerWith(c, r, ask)
    <3>1. PICK ask : ask.op = "prepare" /\ \E r \in Found(ask.key) : AnswerWith(c, r, ask)
      BY <2>1
    <3>2. PICK r, a :
            call' = [call EXCEPT ![c].pc = "done", ![c].research = r, ![c].ask = ask,
                                 ![c].answer = a]
      BY <3>1 DEF AnswerWith
    <3>3. call'[c] = [call[c] EXCEPT !.pc = "done", !.research = r, !.ask = ask, !.answer = a]
      BY <1>1, <3>2
    <3> QED BY <1>1, <3>1, <3>2, <3>3 DEF CallRec
  <2>2. CASE \E ask, pc : /\ pc \in {"begin", "kvWallet"}
                          /\ call' = [call EXCEPT ![c].ask = ask, ![c].pc = pc, ![c].day = day]
                          /\ call[c].pc = "idle"
    <3>1. PICK ask, pc : /\ pc \in {"begin", "kvWallet"}
                         /\ call' = [call EXCEPT ![c].ask = ask, ![c].pc = pc, ![c].day = day]
                         /\ call[c].pc = "idle"
      BY <2>2
    <3>2. call'[c] = [call[c] EXCEPT !.ask = ask, !.pc = pc, !.day = day] BY <1>1, <3>1
    <3>3. call[c].answer = "none" BY <3>1 DEF Inv, Fits
    <3> QED BY <1>1, <3>1, <3>2, <3>3 DEF CallRec
  <2>3. CASE Goto(c, "wallet") /\ call[c].pc = "begin"
    <3>1. call'[c] = [call[c] EXCEPT !.pc = "wallet"] BY <1>1, <2>3 DEF Goto
    <3>2. call[c].answer = "none" BY <2>3 DEF Inv, Fits
    <3> QED BY <1>1, <2>3, <3>1, <3>2 DEF CallRec, Goto
  <2>4. call[c].pc \in {"begin", "reread"} => call[c].ask.op = "prepare"
    BY DEF Inv, Fits
  <2> QED BY <2>1, <2>2, <2>3, <2>4 DEF ArrivePrepare, ArriveStart, Begin, Reread
<1>4. Only(c) BY <1>1, <1>3 DEF Only
<1>5. Locked'
  <2>1. \A d \in Calls \ {c} : \A b \in held[<<"prepare", d>>] :
          bucket'[b].used <= bucket[b].used
    <3>1. ASSUME NEW d \in Calls \ {c}, NEW b \in held[<<"prepare", d>>]
          PROVE  bucket[b].used \in Int
      <4>1. b \in Bucket BY <1>1, TxOf
      <4> QED BY <4>1 DEF Inv, Typed, Usage
    <3> QED BY <1>1, <3>1
  <2> QED BY <1>1, <1>2, <1>3, <1>4, <2>1, LocksStay
<1>6. call'[c].seen \in [Counters -> Nat] BY <1>3 DEF Books, AllTallied, Tallied
<1> QED BY <1>1, <1>3, <1>4, <1>5, <1>6, NothingCounted

\* An upsert takes the row's lock only with room left, or rolls everything back.
LEMMA ReserveCounts ==
  ASSUME Inv, Books, Inv', NEW c \in Calls, ReserveWallet(c) \/ ReserveGlobal(c)
  PROVE  Books'
<1>1. /\ call \in [Calls -> CallRec] /\ call[c] \in CallRec
      /\ held \in [Tx -> SUBSET Bucket] /\ bucket \in [Bucket -> Usage]
      /\ call[c].pc \in {"wallet", "global"} /\ call[c].answer = "none"
  BY DEF Inv, Typed, Fits, ReserveWallet, ReserveGlobal
<1>2. PICK b \in Bucket, limit \in Nat, next \in {"global", "insert"},
           reason \in {"WALLET_LIMIT", "GLOBAL_LIMIT"} :
        /\ ReserveBucket(c, b, limit, next, reason) /\ limit = Limit(b)
        /\ \/ call[c].pc = "wallet" /\ next = "global" /\ b = WalletOf(c)
           \/ call[c].pc = "global" /\ next = "insert" /\ b = GlobalOf(c)
  <2>1. CASE ReserveWallet(c)
    <3>1. /\ ReserveBucket(c, WalletOf(c), WalletLimit, "global", "WALLET_LIMIT")
          /\ call[c].pc = "wallet"
      BY <2>1 DEF ReserveWallet
    <3>2. Limit(WalletOf(c)) = WalletLimit /\ WalletOf(c) \in Bucket BY TwoBuckets
    <3>3. WalletLimit \in Nat BY IntakeAssumption DEF IntakeAssumption
    <3> QED BY <3>1, <3>2, <3>3
  <2>2. CASE ReserveGlobal(c)
    <3>1. /\ ReserveBucket(c, GlobalOf(c), GlobalLimit, "insert", "GLOBAL_LIMIT")
          /\ call[c].pc = "global"
      BY <2>2 DEF ReserveGlobal
    <3>2. Limit(GlobalOf(c)) = GlobalLimit /\ GlobalOf(c) \in Bucket BY TwoBuckets
    <3>3. GlobalLimit \in Nat BY IntakeAssumption DEF IntakeAssumption
    <3> QED BY <3>1, <3>2, <3>3
  <2> QED BY <2>1, <2>2
<1>3. UNCHANGED <<shadow, rec, bucket, kv, job>> BY <1>2 DEF ReserveBucket
<1>4. CASE /\ WithinLimit(b, limit) /\ Goto(c, next)
           /\ held' = [held EXCEPT ![<<"prepare", c>>] = @ \union {b}]
  <2>1. /\ call'[c] = [call[c] EXCEPT !.pc = next]
        /\ \A d \in Calls \ {c} : call'[d] = call[d]
    BY <1>1, <1>4 DEF Goto
  <2>2. /\ call'[c].pc = next /\ call'[c].counted = call[c].counted
        /\ call'[c].seen = call[c].seen /\ call'[c].answer = "none"
        /\ call'[c].ask = call[c].ask /\ call'[c].day = call[c].day
    BY <1>1, <2>1 DEF CallRec
  <2>3. /\ \A d \in Calls : WalletOf(d)' = WalletOf(d) /\ GlobalOf(d)' = GlobalOf(d)
        /\ Only(c)
    BY <1>3, <2>1, <2>2 DEF WalletOf, GlobalOf, Only
  <2>4. /\ held'[<<"prepare", c>>] = held[<<"prepare", c>>] \union {b}
        /\ \A d \in Calls \ {c} : held'[<<"prepare", d>>] = held[<<"prepare", d>>]
    BY <1>1, <1>4, TxOf
  <2>5. Locked'
    <3>1. held[<<"prepare", c>>] = IF next = "global" THEN {} ELSE {WalletOf(c)}
      BY <1>2 DEF Inv, PrepareHolds, Books, Locked
    <3>2. ASSUME NEW d \in Calls
          PROVE  /\ call'[d].pc = "global" => held'[<<"prepare", d>>] = {WalletOf(d)'}
                 /\ call'[d].pc = "insert"
                      => held'[<<"prepare", d>>] = {WalletOf(d)', GlobalOf(d)'}
      <4>1. CASE d = c
        <5>1. held'[<<"prepare", c>>] = IF next = "global" THEN {b} ELSE {WalletOf(c), b}
          BY <2>4, <3>1
        <5> QED BY <1>2, <2>2, <2>3, <4>1, <5>1
      <4>2. CASE d # c
        <5>1. /\ call[d].pc = "global" => held[<<"prepare", d>>] = {WalletOf(d)}
              /\ call[d].pc = "insert" => held[<<"prepare", d>>] = {WalletOf(d), GlobalOf(d)}
          BY DEF Books, Locked
        <5> QED BY <2>1, <2>3, <2>4, <4>2, <5>1
      <4> QED BY <4>1, <4>2
    <3>4. \A d \in Calls : b \notin held[<<"prepare", d>>]
      BY <1>2, TxOf DEF ReserveBucket, Unlocked
    <3>5. \A d, e \in Calls : d # e
            => held'[<<"prepare", d>>] \intersect held'[<<"prepare", e>>] = {}
      <4>1. \A d, e \in Calls : d # e
              => held[<<"prepare", d>>] \intersect held[<<"prepare", e>>] = {}
        BY DEF Books, Locked
      <4>2. \A d \in Calls : held'[<<"prepare", d>>] =
              held[<<"prepare", d>>] \union (IF d = c THEN {b} ELSE {})
        BY <2>4
      <4>3. ASSUME NEW d \in Calls, NEW e \in Calls, d # e
            PROVE  held'[<<"prepare", d>>] \intersect held'[<<"prepare", e>>] = {}
        <5>1. held[<<"prepare", d>>] \intersect held[<<"prepare", e>>] = {} BY <4>1, <4>3
        <5>2. CASE d = c BY <3>4, <4>2, <4>3, <5>1, <5>2
        <5>3. CASE e = c BY <3>4, <4>2, <4>3, <5>1, <5>3
        <5>4. CASE d # c /\ e # c BY <4>2, <5>1, <5>4
        <5> QED BY <5>2, <5>3, <5>4
      <4> QED BY <4>3
    <3>6. \A d \in Calls : \A q \in held'[<<"prepare", d>>] : WithinLimit(q, Limit(q))
      BY <1>2, <1>4, <2>4 DEF Books, Locked
    <3>7. \A d \in Calls : \A q \in held'[<<"prepare", d>>] : WithinLimit(q, Limit(q))'
      BY <1>3, <3>6 DEF WithinLimit, Limit
    <3> QED BY <3>2, <3>5, <3>7 DEF Locked
  <2>6. call'[c].seen \in [Counters -> Nat] BY <2>2 DEF Books, AllTallied, Tallied
  <2>7. /\ call[c].pc \in {"idle", "begin", "wallet", "global", "insert", "reread"}
        /\ call'[c].pc \in {"begin", "wallet", "global", "insert", "reread", "kvWallet", "done"}
    BY <1>1, <2>2
  <2> QED BY <1>3, <2>2, <2>3, <2>5, <2>6, <2>7, NothingCounted
<1>5. CASE Rollback(c) /\ Answer(c, reason)
  <2>1. /\ call'[c] = [call[c] EXCEPT !.pc = "done", !.seen = Unseen, !.answer = reason]
        /\ \A d \in Calls \ {c} : call'[d] = call[d]
    BY <1>1, <1>5 DEF Answer
  <2>2. /\ call'[c].pc = "done" /\ call'[c].counted = call[c].counted
        /\ call'[c].seen = Unseen /\ call'[c].answer = reason
    BY <1>1, <2>1 DEF CallRec
  <2>3. Only(c) BY <1>3, <2>1 DEF Only
  <2>4. /\ held'[<<"prepare", c>>] = {}
        /\ \A d \in Calls \ {c} : held'[<<"prepare", d>>] = held[<<"prepare", d>>]
    BY <1>1, <1>5, TxOf DEF Rollback
  <2>5. \A d \in Calls \ {c} : \A q \in held[<<"prepare", d>>] :
          bucket'[q].used <= bucket[q].used
    <3>1. ASSUME NEW d \in Calls \ {c}, NEW q \in held[<<"prepare", d>>]
          PROVE  bucket[q].used \in Int
      <4>1. q \in Bucket BY <1>1, TxOf
      <4> QED BY <1>1, <4>1 DEF Usage
    <3> QED BY <1>3, <3>1
  <2>6. Locked' BY <2>2, <2>3, <2>4, <2>5, LocksStay
  <2>7. call'[c].seen \in [Counters -> Nat] BY <2>2 DEF Unseen
  <2>8. call'[c].answer # "ok" BY <1>2, <2>2
  <2>9. call[c].pc \in {"idle", "begin", "wallet", "global", "insert", "reread"} BY <1>1
  <2> QED BY <1>3, <2>2, <2>3, <2>6, <2>7, <2>8, <2>9, NothingCounted
<1> QED BY <1>2, <1>4, <1>5 DEF ReserveBucket

\* The commit of a prepare: one more live reservation in the two rows it holds.
LEMMA InsertCounts ==
  ASSUME Inv, Books, Inv', NEW c \in Calls, Insert(c)
  PROVE  Books'
<1>1. /\ call \in [Calls -> CallRec] /\ call[c] \in CallRec
      /\ held \in [Tx -> SUBSET Bucket] /\ bucket \in [Bucket -> Usage]
      /\ rec \in [Calls -> RecRec]
      /\ call[c].pc = "insert" /\ call[c].answer = "none" /\ rec[c].quota = "none"
      /\ call[c].ask.op = "prepare" /\ UNCHANGED <<shadow, kv, job>>
  BY DEF Inv, Typed, Fits, Insert
<1>2. /\ held'[<<"prepare", c>>] = {}
      /\ \A d \in Calls \ {c} : held'[<<"prepare", d>>] = held[<<"prepare", d>>]
  BY <1>1, TxOf DEF Insert, Rollback
<1>3. call[c].seen \in [Counters -> Nat] /\ call[c].counted = {}
  BY <1>1 DEF Books, AllTallied, Tallied
<1>4. ASSUME NEW d \in Calls, NEW q \in held[<<"prepare", d>>]
      PROVE  q \in Bucket /\ bucket[q].used \in Int
  <2>1. q \in Bucket BY <1>1, TxOf
  <2> QED BY <1>1, <2>1 DEF Usage
<1>5. CASE Goto(c, "reread") /\ UNCHANGED <<rec, bucket>>
  <2>1. /\ call'[c] = [call[c] EXCEPT !.pc = "reread"]
        /\ \A d \in Calls \ {c} : call'[d] = call[d]
    BY <1>1, <1>5 DEF Goto
  <2>2. /\ call'[c].pc = "reread" /\ call'[c].counted = call[c].counted
        /\ call'[c].seen = call[c].seen /\ call'[c].answer = "none"
    BY <1>1, <2>1 DEF CallRec
  <2>3. Only(c) BY <1>1, <1>5, <2>1 DEF Only
  <2>4. \A d \in Calls \ {c} : \A q \in held[<<"prepare", d>>] :
          bucket'[q].used <= bucket[q].used
    BY <1>4, <1>5
  <2>5. Locked' BY <1>2, <2>2, <2>3, <2>4, LocksStay
  <2> QED BY <1>1, <1>3, <1>5, <2>2, <2>3, <2>5, NothingCounted
<1>6. CASE ~(Goto(c, "reread") /\ UNCHANGED <<rec, bucket>>)
  <2>1. /\ rec' = [rec EXCEPT ![c] = [quota |-> "reserved", ask |-> call[c].ask,
                                      day |-> call[c].day]]
        /\ bucket' = [b \in Bucket |->
             IF b \in held[<<"prepare", c>>] THEN Reserved(bucket[b]) ELSE bucket[b]]
        /\ call' = [call EXCEPT ![c].pc = "done", ![c].answer = "ok", ![c].research = c]
    BY <1>6 DEF Insert
  <2>2. /\ call'[c] = [call[c] EXCEPT !.pc = "done", !.answer = "ok", !.research = c]
        /\ \A d \in Calls \ {c} : call'[d] = call[d]
    BY <1>1, <2>1
  <2>3. /\ call'[c].pc = "done" /\ call'[c].counted = {} /\ call'[c].seen = call[c].seen
        /\ call'[c].ask = call[c].ask
    BY <1>1, <1>3, <2>2 DEF CallRec
  <2>4. /\ rec'[c].quota = "reserved" /\ rec'[c].ask = call[c].ask
        /\ rec'[c].day = call[c].day
        /\ \A d \in Calls \ {c} : rec'[d] = rec[d]
    BY <1>1, <2>1
  <2>5. Only(c) BY <1>1, <2>2, <2>4 DEF Only
  <2>6. held[<<"prepare", c>>] = {WalletOf(c), GlobalOf(c)} BY <1>1 DEF Books, Locked
  <2>7. BucketsOf(c)' = held[<<"prepare", c>>]
    BY <2>4, <2>6 DEF BucketsOf, WalletOf, GlobalOf
  <2>8. ASSUME NEW b \in Bucket
        PROVE  /\ b \in held[<<"prepare", c>>]
                  => /\ bucket'[b].reserved = bucket[b].reserved + 1
                     /\ bucket'[b].consumed = bucket[b].consumed
                     /\ bucket'[b].used = bucket[b].used + 1
               /\ b \notin held[<<"prepare", c>>] => bucket'[b] = bucket[b]
    <3>1. bucket[b] \in Usage BY <1>1
    <3> QED BY <2>1, <3>1 DEF Reserved, Usage
  <2>9. Locked'
    <3>1. ASSUME NEW d \in Calls \ {c}, NEW q \in held[<<"prepare", d>>]
          PROVE  bucket'[q].used <= bucket[q].used
      <4>1. q \notin held[<<"prepare", c>>] BY DEF Books, Locked
      <4> QED BY <1>4, <2>8, <4>1
    <3> QED BY <1>2, <2>3, <2>5, <3>1, LocksStay
  <2>10. Tallied(call[c])' BY <1>1, <1>3, <2>3 DEF Tallied
  <2>11. JobsReserve' BY <1>1, <2>4, <2>5 DEF Books, JobsReserve, Only
  <2>12. ASSUME NEW b \in Bucket
         PROVE  BucketFollows(c, b) /\ KvFollows(c, b) /\ StaysWithin(c, b)
    <3>1. bucket[b] \in Usage /\ kv[b] \in Int BY DEF Inv, Typed
    <3>2. /\ c \notin Live(b) /\ c \notin Consumed(b) /\ c \notin Consumed(b)'
          /\ c \in Live(b)' <=> b \in held[<<"prepare", c>>]
          /\ c \in Reserving(b)' <=> b \in held[<<"prepare", c>>]
      BY <1>1, <2>4, <2>7 DEF Live, Consumed, Reserving, In
    <3>3. /\ c \notin CountedIn(b, Kv) /\ c \notin CountedIn(b, Kv)'
          /\ c \notin CountedIn(b, Pg) /\ c \notin CountedIn(b, Pg)'
      BY <1>3, <2>3 DEF CountedIn
    <3>4. c \notin Places(b)' BY <1>1, <2>3 DEF Places, Started, Hopeful
    <3>5. bucket[b].used = bucket[b].reserved + bucket[b].consumed
      BY DEF Books, BucketsMatchRecords
    <3>6. BucketFollows(c, b)
      BY <2>8, <3>1, <3>2, <3>3, <3>5 DEF BucketFollows, One, Usage
    <3>7. KvFollows(c, b) BY <1>1, <3>1, <3>3 DEF KvFollows, One
    <3>8. StaysWithin(c, b)
      <4>1. CASE b \notin held[<<"prepare", c>>] BY <3>2, <3>4, <4>1 DEF StaysWithin
      <4>2. CASE b \in held[<<"prepare", c>>]
        <5>1. bucket[b].used + 1 <= Limit(b) BY <4>2 DEF Books, Locked, WithinLimit
        <5>2. bucket'[b].used <= Limit(b) BY <2>8, <4>2, <5>1
        <5> QED BY <3>4, <5>2 DEF StaysWithin
      <4> QED BY <4>1, <4>2
    <3> QED BY <3>6, <3>7, <3>8
  <2> QED BY <2>5, <2>9, <2>10, <2>11, <2>12, BooksStep
<1> QED BY <1>5, <1>6

LEMMA AtLeastOne ==
  ASSUME NEW S, IsFiniteSet(S), NEW x \in S
  PROVE  Cardinality(S) \in Nat \ {0}
BY FS_EmptySet, FS_CardinalityType

\* No counter is negative: each is the size of a set, or the sum of two.
LEMMA CountersAreNat ==
  ASSUME Inv, Books, NEW b \in Bucket
  PROVE  /\ bucket[b].reserved \in Nat /\ bucket[b].consumed \in Nat
         /\ bucket[b].used \in Nat /\ kv[b] \in Nat
         /\ bucket[b].used = bucket[b].reserved + bucket[b].consumed
         /\ Live(b) # {} => bucket[b].reserved # 0
         /\ CountedIn(b, Pg) # {} => bucket[b].consumed # 0
<1>1. IsFiniteSet(Active) /\ AllTallied BY DEF Books
<1>2. /\ Live(b) \subseteq Active /\ Consumed(b) \subseteq Active
      /\ CountedIn(b, Kv) \subseteq Active /\ CountedIn(b, Pg) \subseteq Active
  BY <1>1, AllAreActive
<1>3. /\ IsFiniteSet(Live(b)) /\ IsFiniteSet(Consumed(b))
      /\ IsFiniteSet(CountedIn(b, Kv)) /\ IsFiniteSet(CountedIn(b, Pg))
  BY <1>1, <1>2, Sizes
<1>4. /\ bucket[b].reserved = Cardinality(Live(b))
      /\ bucket[b].consumed = Cardinality(Consumed(b)) + Cardinality(CountedIn(b, Pg))
      /\ bucket[b].used = bucket[b].reserved + bucket[b].consumed
      /\ kv[b] = Cardinality(CountedIn(b, Kv))
  BY DEF Books, BucketsMatchRecords, KvMatches, Pg
<1>5. /\ Cardinality(Live(b)) \in Nat /\ Cardinality(Consumed(b)) \in Nat
      /\ Cardinality(CountedIn(b, Kv)) \in Nat /\ Cardinality(CountedIn(b, Pg)) \in Nat
  BY <1>3, FS_CardinalityType
<1>6. Live(b) # {} => Cardinality(Live(b)) \in Nat \ {0} BY <1>3, AtLeastOne
<1>7. CountedIn(b, Pg) # {} => Cardinality(CountedIn(b, Pg)) \in Nat \ {0}
  BY <1>3, AtLeastOne
<1> QED BY <1>4, <1>5, <1>6, <1>7

\* Where a call is counted: in its wallet's bucket by one counter, in the global one
\* by another.
LEMMA CountedWhere ==
  ASSUME NEW c \in Calls, NEW b
  PROVE  /\ c \in CountedIn(b, Kv) <=>
              \/ b = WalletOf(c) /\ "kvWallet" \in call[c].counted
              \/ b = GlobalOf(c) /\ "kvGlobal" \in call[c].counted
         /\ c \in CountedIn(b, Pg) <=>
              \/ b = WalletOf(c) /\ "pgWallet" \in call[c].counted
              \/ b = GlobalOf(c) /\ "pgGlobal" \in call[c].counted
<1>1. /\ BucketOf(c, "kvWallet") = WalletOf(c) /\ BucketOf(c, "kvGlobal") = GlobalOf(c)
      /\ BucketOf(c, "pgWallet") = WalletOf(c) /\ BucketOf(c, "pgGlobal") = GlobalOf(c)
  BY DEF BucketOf
<1> QED BY <1>1 DEF CountedIn, Kv, Pg

LEMMA CrashCounts ==
  ASSUME Inv, Books, Inv', NEW c \in Calls, CrashCall(c)
  PROVE  Books'
<1>1. /\ call \in [Calls -> CallRec] /\ call[c] \in CallRec
      /\ held \in [Tx -> SUBSET Bucket] /\ bucket \in [Bucket -> Usage]
      /\ call[c].pc # "done" /\ call[c].answer = "none"
      /\ UNCHANGED <<shadow, rec, bucket, kv, job>>
  BY DEF Inv, Typed, Fits, CrashCall
<1>2. /\ call'[c] = [call[c] EXCEPT !.pc = "crashed", !.seen = Unseen]
      /\ \A d \in Calls \ {c} : call'[d] = call[d]
  BY <1>1 DEF CrashCall
<1>3. /\ call'[c].pc = "crashed" /\ call'[c].counted = call[c].counted
      /\ call'[c].seen = Unseen /\ call'[c].answer = "none"
      /\ call'[c].ask = call[c].ask /\ call'[c].day = call[c].day
  BY <1>1, <1>2 DEF CallRec
<1>4. /\ held'[<<"prepare", c>>] = {}
      /\ \A d \in Calls \ {c} : held'[<<"prepare", d>>] = held[<<"prepare", d>>]
  BY <1>1, TxOf DEF CrashCall, Rollback
<1>5. Only(c) /\ WalletOf(c)' = WalletOf(c) /\ GlobalOf(c)' = GlobalOf(c)
  BY <1>1, <1>2, <1>3 DEF Only, WalletOf, GlobalOf
<1>6. Locked'
  <2>1. ASSUME NEW d \in Calls \ {c}, NEW q \in held[<<"prepare", d>>]
        PROVE  bucket'[q].used <= bucket[q].used
    <3>1. q \in Bucket BY <1>1, TxOf
    <3>2. bucket[q].used \in Int BY <1>1, <3>1 DEF Usage
    <3> QED BY <1>1, <3>2
  <2> QED BY <1>3, <1>4, <1>5, <2>1, LocksStay
<1>7. Tallied(call[c])'
  <2>1. ~shadow => call[c].counted \subseteq Kv BY DEF Books, AllTallied, Tallied
  <2>2. Unseen \in [Counters -> Nat] BY DEF Unseen
  <2> QED BY <1>1, <1>3, <2>1, <2>2 DEF Tallied
<1>8. JobsReserve' BY <1>1 DEF Books, JobsReserve
<1>9. \A b \in Bucket : c \notin Places(b)'
  BY <1>3 DEF Places, Started, Hopeful
<1> QED BY <1>1, <1>3, <1>5, <1>6, <1>7, <1>8, <1>9, CountsStay

\* A start that is admitted had its places already.
LEMMA CreateCounts ==
  ASSUME Inv, Books, Inv', NEW c \in Calls, Create(c)
  PROVE  Books'
<1>1. /\ call \in [Calls -> CallRec] /\ call[c] \in CallRec
      /\ held \in [Tx -> SUBSET Bucket] /\ bucket \in [Bucket -> Usage]
      /\ call[c].pc = "decide" /\ call[c].ask.op = "start" /\ Verdict(c) = "ok"
      /\ UNCHANGED <<shadow, rec, bucket, kv, held, job>>
  BY DEF Inv, Typed, Fits, Create, Quota
<1>2. /\ call'[c] = [call[c] EXCEPT !.pc = "done", !.seen = Unseen, !.answer = "ok"]
      /\ \A d \in Calls \ {c} : call'[d] = call[d]
  BY <1>1 DEF Create, Answer
<1>3. /\ call'[c].pc = "done" /\ call'[c].counted = call[c].counted
      /\ call'[c].seen = Unseen /\ call'[c].answer = "ok"
      /\ call'[c].ask = call[c].ask /\ call'[c].day = call[c].day
  BY <1>1, <1>2 DEF CallRec
<1>4. held[<<"prepare", c>>] = {} BY <1>1 DEF Inv, PrepareHolds
<1>5. Only(c) /\ WalletOf(c)' = WalletOf(c) /\ GlobalOf(c)' = GlobalOf(c)
  BY <1>1, <1>2, <1>3 DEF Only, WalletOf, GlobalOf
<1>6. Locked'
  <2>1. ASSUME NEW d \in Calls \ {c}, NEW q \in held[<<"prepare", d>>]
        PROVE  bucket'[q].used <= bucket[q].used
    <3>1. q \in Bucket BY <1>1, TxOf
    <3>2. bucket[q].used \in Int BY <1>1, <3>1 DEF Usage
    <3> QED BY <1>1, <3>2
  <2> QED BY <1>1, <1>3, <1>4, <1>5, <2>1, LocksStay
<1>7. call[c].counted = Kv \union Deciding /\ call[c].seen \in [Counters -> Nat]
  BY <1>1 DEF Books, AllTallied, Tallied
<1>8. Tallied(call[c])'
  <2>1. Unseen \in [Counters -> Nat] BY DEF Unseen
  <2>2. Deciding' = Deciding BY <1>1 DEF Deciding
  <2> QED BY <1>1, <1>3, <1>7, <2>1, <2>2 DEF Tallied, Deciding
<1>9. JobsReserve' BY <1>1 DEF Books, JobsReserve
<1>10. ASSUME NEW b \in Bucket, c \in Places(b)' PROVE c \in Places(b)
  <2>1. b \in {WalletOf(c), GlobalOf(c)}
    BY <1>3, <1>5, <1>10 DEF Places, Started, Hopeful
  <2>2. /\ shadow => /\ call[c].seen["pgWallet"] = call[c].seen["kvWallet"]
                     /\ call[c].seen["pgGlobal"] = call[c].seen["kvGlobal"]
        /\ ~(call[c].seen["kvWallet"] > WalletLimit)
        /\ ~(call[c].seen["kvGlobal"] > GlobalLimit)
    BY <1>1 DEF Verdict, ShadowAgrees, OverLimit
  <2>3. /\ call[c].seen["kvWallet"] \in Nat /\ call[c].seen["kvGlobal"] \in Nat
        /\ WalletLimit \in Nat /\ GlobalLimit \in Nat
    BY <1>7, IntakeAssumption DEF IntakeAssumption, Counters
  <2>4. /\ Limit(WalletOf(c)) = WalletLimit /\ Limit(GlobalOf(c)) = GlobalLimit
    BY TwoBuckets
  <2>5. PICK w \in Deciding, g \in Deciding :
          /\ BucketOf(c, w) = WalletOf(c) /\ call[c].seen[w] = call[c].seen["kvWallet"]
          /\ BucketOf(c, g) = GlobalOf(c) /\ call[c].seen[g] = call[c].seen["kvGlobal"]
    <3>1. CASE shadow
      <4>1. "pgWallet" \in Deciding /\ "pgGlobal" \in Deciding BY <3>1 DEF Deciding, Pg
      <4> QED BY <2>2, <3>1, <4>1 DEF BucketOf
    <3>2. CASE ~shadow
      <4>1. "kvWallet" \in Deciding /\ "kvGlobal" \in Deciding BY <3>2 DEF Deciding, Kv
      <4> QED BY <4>1 DEF BucketOf
    <3> QED BY <3>1, <3>2
  <2>6. \E n \in Deciding \intersect call[c].counted :
          BucketOf(c, n) = b /\ call[c].seen[n] <= Limit(b)
    <3>1. w \in call[c].counted /\ g \in call[c].counted BY <1>7, <2>5
    <3>2. call[c].seen[w] <= WalletLimit /\ call[c].seen[g] <= GlobalLimit
      BY <2>2, <2>3, <2>5
    <3> QED BY <2>1, <2>4, <2>5, <3>1, <3>2
  <2> QED BY <1>1, <2>6 DEF Places, Hopeful
<1> QED BY <1>1, <1>3, <1>5, <1>6, <1>8, <1>9, <1>10, CountsStay

\* What every step of a start leaves alone.
LEMMA StartKeepsLocks ==
  ASSUME Inv, Books, Inv', NEW c \in Calls,
         call[c].pc \in {"kvWallet", "kvGlobal", "shadow", "decide", "undo"},
         call'[c].pc \notin {"global", "insert"},
         \A d \in Calls \ {c} : call'[d] = call[d],
         call'[c].ask = call[c].ask, call'[c].day = call[c].day,
         UNCHANGED <<shadow, rec, held, job>>,
         \A b \in Bucket : bucket'[b].used <= bucket[b].used \/ Unlocked(b)
  PROVE  /\ Locked' /\ JobsReserve' /\ Only(c)
         /\ WalletOf(c)' = WalletOf(c) /\ GlobalOf(c)' = GlobalOf(c)
         /\ \A b : /\ c \in Live(b)' <=> c \in Live(b)
                   /\ c \in Consumed(b)' <=> c \in Consumed(b)
                   /\ c \in Reserving(b)' <=> c \in Reserving(b)
<1>1. held[<<"prepare", c>>] = {} BY DEF Inv, PrepareHolds
<1>2. Only(c) BY DEF Only
<1>3. Locked'
  <2>1. ASSUME NEW d \in Calls \ {c}, NEW b \in held[<<"prepare", d>>]
        PROVE  bucket'[b].used <= bucket[b].used
    <3>1. held \in [Tx -> SUBSET Bucket] BY DEF Inv, Typed
    <3>2. b \in Bucket /\ ~Unlocked(b) BY <3>1, TxOf DEF Unlocked
    <3> QED BY <3>2
  <2> QED BY <1>1, <1>2, <2>1, LocksStay
<1>4. JobsReserve' BY DEF Books, JobsReserve
<1>5. WalletOf(c)' = WalletOf(c) /\ GlobalOf(c)' = GlobalOf(c) BY DEF WalletOf, GlobalOf
<1>6. \A b : /\ c \in Live(b)' <=> c \in Live(b)
             /\ c \in Consumed(b)' <=> c \in Consumed(b)
             /\ c \in Reserving(b)' <=> c \in Reserving(b)
  BY DEF Live, Consumed, Reserving, In, BucketsOf
<1> QED BY <1>2, <1>3, <1>4, <1>5, <1>6

\* One more counter of the bucket b, and what the increment returned.
LEMMA OneMoreSeen ==
  ASSUME Inv, Books, Inv', NEW c \in Calls, NEW n \in Counters, NEW v \in Nat,
         call[c].pc \in {"kvWallet", "kvGlobal", "shadow"},
         call[c].ask.op = "start", n \notin call[c].counted,
         call'[c].counted = call[c].counted \union {n},
         call'[c].seen = [call[c].seen EXCEPT ![n] = v],
         call'[c].answer = "none", UNCHANGED shadow,
         WalletOf(c)' = WalletOf(c), GlobalOf(c)' = GlobalOf(c)
  PROVE  /\ call'[c].seen \in [Counters -> Nat]
         /\ \A b \in Bucket : c \in Places(b)'
              => \/ c \in Places(b)
                 \/ n \in Deciding /\ b = BucketOf(c, n) /\ v <= Limit(b)
<1>1. call[c].seen \in [Counters -> Nat] /\ call[c].counted \subseteq Counters
  BY DEF Books, AllTallied, Tallied, Inv, Typed, CallRec
<1>2. call'[c].seen \in [Counters -> Nat] BY <1>1
<1>3. ASSUME NEW b \in Bucket, c \in Places(b)'
      PROVE  c \in Places(b) \/ (n \in Deciding /\ b = BucketOf(c, n) /\ v <= Limit(b))
  <2>1. Deciding' = Deciding BY DEF Deciding
  <2>2. \A m : BucketOf(c, m)' = BucketOf(c, m) BY DEF BucketOf
  <2>3. PICK m \in Deciding : /\ m \in call'[c].counted /\ BucketOf(c, m) = b
                              /\ call'[c].seen[m] <= Limit(b)
    BY <1>3, <2>1, <2>2 DEF Places, Started, Hopeful, Limit
  <2>4. CASE m = n
    <3>1. call'[c].seen[n] = v BY <1>1
    <3> QED BY <2>3, <2>4, <3>1
  <2>5. CASE m # n
    <3>1. m \in call[c].counted /\ call'[c].seen[m] = call[c].seen[m]
      BY <1>1, <2>3, <2>5
    <3>2. call[c].pc # "kvWallet" BY <3>1 DEF Books, AllTallied, Tallied
    <3>3. m \in Deciding \intersect call[c].counted /\ call[c].seen[m] <= Limit(b)
      BY <2>3, <3>1
    <3>4. c \in Hopeful(b) BY <2>3, <3>2, <3>3 DEF Hopeful
    <3> QED BY <3>4 DEF Places
  <2> QED BY <2>4, <2>5
<1> QED BY <1>2, <1>3

LEMMA KvCounts ==
  ASSUME Inv, Books, Inv', NEW c \in Calls, CountWallet(c) \/ CountGlobal(c)
  PROVE  Books'
<1>1. /\ call \in [Calls -> CallRec] /\ call[c] \in CallRec
      /\ kv \in [Bucket -> Int] /\ bucket \in [Bucket -> Usage]
      /\ call[c].pc \in {"kvWallet", "kvGlobal"} /\ call[c].ask.op = "start"
      /\ call[c].answer = "none"
      /\ UNCHANGED <<shadow, rec, bucket, held, job>> /\ shadow \in BOOLEAN
  BY DEF Inv, Typed, Fits, CountWallet, CountGlobal, Counts, Books
<1>2. call[c].counted = IF call[c].pc = "kvWallet" THEN {} ELSE {"kvWallet"}
  BY <1>1 DEF Books, AllTallied, Tallied
<1>3. PICK n \in Kv, b \in Bucket, pc \in {"kvGlobal", "shadow", "decide"} :
        /\ Counts(c, n, b, pc) /\ b = BucketOf(c, n) /\ n \notin call[c].counted
        /\ \/ n = "kvWallet" /\ pc = "kvGlobal" /\ b = WalletOf(c)
           \/ n = "kvGlobal" /\ pc = (IF shadow THEN "shadow" ELSE "decide")
              /\ b = GlobalOf(c)
        /\ call[c].counted \union {n} = IF pc = "kvGlobal" THEN {"kvWallet"} ELSE Kv
  <2>1. CASE CountWallet(c)
    <3>1. Counts(c, "kvWallet", WalletOf(c), "kvGlobal") /\ call[c].pc = "kvWallet"
      BY <2>1 DEF CountWallet
    <3>2. WalletOf(c) = BucketOf(c, "kvWallet") /\ "kvWallet" \in Kv BY DEF BucketOf, Kv
    <3> QED BY <1>2, <3>1, <3>2, TwoBuckets
  <2>2. CASE CountGlobal(c)
    <3>1. PICK pc \in {"shadow", "decide"} :
            /\ Counts(c, "kvGlobal", GlobalOf(c), pc) /\ call[c].pc = "kvGlobal"
            /\ pc = IF shadow THEN "shadow" ELSE "decide"
      BY <2>2 DEF CountGlobal
    <3>2. GlobalOf(c) = BucketOf(c, "kvGlobal") /\ "kvGlobal" \in Kv BY DEF BucketOf, Kv
    <3>3. call[c].counted \union {"kvGlobal"} = Kv /\ "kvGlobal" \notin call[c].counted
      BY <1>2, <3>1 DEF Kv
    <3> QED BY <3>1, <3>2, <3>3, TwoBuckets
  <2> QED BY <2>1, <2>2
<1>4. PICK v \in Nat : v = kv[b] + 1 BY CountersAreNat
<1>5. /\ call'[c] = [call[c] EXCEPT !.pc = pc, !.seen = [call[c].seen EXCEPT ![n] = v],
                                    !.counted = call[c].counted \union {n}]
      /\ \A d \in Calls \ {c} : call'[d] = call[d]
      /\ kv' = [kv EXCEPT ![b] = v]
  <2>1. /\ call' = [call EXCEPT ![c].pc = pc, ![c].seen[n] = kv[b] + 1,
                                ![c].counted = @ \union {n}]
        /\ kv' = [kv EXCEPT ![b] = @ + 1]
    BY <1>3 DEF Counts
  <2> QED BY <1>1, <1>4, <2>1 DEF CallRec
<1>6. /\ call'[c].pc = pc /\ call'[c].counted = call[c].counted \union {n}
      /\ call'[c].seen = [call[c].seen EXCEPT ![n] = v] /\ call'[c].answer = "none"
      /\ call'[c].ask = call[c].ask /\ call'[c].day = call[c].day
  BY <1>1, <1>5 DEF CallRec
<1>7. \A q \in Bucket : bucket'[q].used <= bucket[q].used
  BY <1>1 DEF Usage
<1>8. /\ Locked' /\ JobsReserve' /\ Only(c)
      /\ WalletOf(c)' = WalletOf(c) /\ GlobalOf(c)' = GlobalOf(c)
      /\ \A q : /\ c \in Live(q)' <=> c \in Live(q)
                /\ c \in Consumed(q)' <=> c \in Consumed(q)
                /\ c \in Reserving(q)' <=> c \in Reserving(q)
  <2>1. call[c].pc \in {"kvWallet", "kvGlobal", "shadow", "decide", "undo"} BY <1>1
  <2>2. call'[c].pc \notin {"global", "insert"} BY <1>6
  <2> QED BY <1>1, <1>5, <1>6, <1>7, <2>1, <2>2, StartKeepsLocks
<1>9. /\ call'[c].seen \in [Counters -> Nat]
      /\ \A q \in Bucket : c \in Places(q)'
           => c \in Places(q) \/ (n \in Deciding /\ q = BucketOf(c, n) /\ v <= Limit(q))
  <2>1. n \in Counters BY DEF Kv, Counters
  <2>2. call[c].pc \in {"kvWallet", "kvGlobal", "shadow"} BY <1>1
  <2>3. UNCHANGED shadow /\ call[c].ask.op = "start" /\ n \notin call[c].counted
    BY <1>1, <1>3
  <2>4. WalletOf(c)' = WalletOf(c) /\ GlobalOf(c)' = GlobalOf(c) BY <1>8
  <2> QED BY <1>6, <2>1, <2>2, <2>3, <2>4, OneMoreSeen
<1>10. Tallied(call[c])'
  <2>1. call'[c].counted = IF pc = "kvGlobal" THEN {"kvWallet"} ELSE Kv BY <1>3, <1>6
  <2>2. pc = "shadow" => shadow BY <1>3
  <2>3. pc = "decide" => Deciding' = Kv BY <1>1, <1>3 DEF Deciding
  <2>4. {"kvWallet"} \subseteq Kv BY DEF Kv
  <2> QED BY <1>1, <1>6, <1>9, <2>1, <2>2, <2>3, <2>4 DEF Tallied
<1>11. ASSUME NEW q \in Bucket
       PROVE  BucketFollows(c, q) /\ KvFollows(c, q) /\ StaysWithin(c, q)
  <2>1. c \in CountedIn(q, Pg)' <=> c \in CountedIn(q, Pg)
    <3>1. \A m : BucketOf(c, m)' = BucketOf(c, m) BY <1>8 DEF BucketOf
    <3>2. Pg \intersect call'[c].counted = Pg \intersect call[c].counted
      BY <1>3, <1>6 DEF Kv, Pg
    <3> QED BY <3>1, <3>2 DEF CountedIn, Pg
  <2>2. BucketFollows(c, q)
    <3>1. bucket[q] \in Usage BY <1>1
    <3> QED BY <1>1, <1>8, <2>1, <3>1, CountersAreNat DEF BucketFollows, One, Usage
  <2>3. c \in CountedIn(q, Kv)' <=> c \in CountedIn(q, Kv) \/ q = b
    <3>1. \A m : BucketOf(c, m)' = BucketOf(c, m) BY <1>8 DEF BucketOf
    <3> QED BY <1>3, <1>6, <3>1 DEF CountedIn, Kv
  <2>4. c \notin CountedIn(b, Kv)
    BY <1>2, <1>3, CountedWhere, TwoBuckets
  <2>5. KvFollows(c, q)
    <3>1. kv[q] \in Int /\ kv[b] \in Int /\ kv'[q] = IF q = b THEN v ELSE kv[q]
      BY <1>1, <1>5
    <3> QED BY <1>4, <2>3, <2>4, <3>1 DEF KvFollows, One
  <2>6. StaysWithin(c, q)
    <3>1. CASE c \in Places(q)' => c \in Places(q) BY <1>8, <3>1 DEF StaysWithin
    <3>2. CASE n \in Deciding /\ q = BucketOf(c, n) /\ v <= Limit(q)
      <4>1. ~shadow BY <1>3, <3>2 DEF Deciding, Kv, Pg
      <4>2. kv'[q] = v BY <1>1, <1>3, <1>5, <3>2
      <4> QED BY <1>8, <3>2, <4>1, <4>2 DEF StaysWithin
    <3> QED BY <1>9, <3>1, <3>2
  <2> QED BY <2>2, <2>5, <2>6
<1> QED BY <1>8, <1>10, <1>11, BooksStep

LEMMA PgCounts ==
  ASSUME Inv, Books, Inv', NEW c \in Calls, NEW n \in Counters, CountShadow(c, n)
  PROVE  Books'
<1>1. /\ call \in [Calls -> CallRec] /\ call[c] \in CallRec
      /\ kv \in [Bucket -> Int] /\ bucket \in [Bucket -> Usage]
      /\ call[c].pc = "shadow" /\ call[c].ask.op = "start" /\ call[c].answer = "none"
      /\ n \in Pg /\ n \notin call[c].counted
      /\ UNCHANGED <<shadow, rec, kv, held, job>>
  BY DEF Inv, Typed, Fits, CountShadow, Pg
<1>2. shadow /\ Kv \subseteq call[c].counted /\ call[c].counted \subseteq Counters
  BY <1>1 DEF Books, AllTallied, Tallied, CallRec
<1>3. PICK b \in Bucket : b = BucketOf(c, n) BY TwoBuckets
<1>4. PICK v \in Nat : v = bucket[b].used + 1 BY CountersAreNat
<1>5. PICK pc \in {"shadow", "decide"} :
        pc = IF Counters \subseteq call[c].counted \union {n} THEN "decide" ELSE "shadow"
  OBVIOUS
<1>6. /\ call'[c] = [call[c] EXCEPT !.counted = call[c].counted \union {n},
                       !.seen = [call[c].seen EXCEPT ![n] = v], !.pc = pc]
      /\ \A d \in Calls \ {c} : call'[d] = call[d]
      /\ bucket' = [bucket EXCEPT ![b] = Incremented(bucket[b])] /\ Unlocked(b)
  <2>1. /\ call' = [call EXCEPT ![c].counted = @ \union {n},
                      ![c].seen[n] = bucket[b].used + 1, ![c].pc = pc]
        /\ bucket' = [bucket EXCEPT ![b] = Incremented(@)] /\ Unlocked(b)
    BY <1>3, <1>5 DEF CountShadow
  <2> QED BY <1>1, <1>4, <2>1 DEF CallRec
<1>7. /\ call'[c].pc = pc /\ call'[c].counted = call[c].counted \union {n}
      /\ call'[c].seen = [call[c].seen EXCEPT ![n] = v] /\ call'[c].answer = "none"
      /\ call'[c].ask = call[c].ask /\ call'[c].day = call[c].day
  BY <1>1, <1>6 DEF CallRec
<1>8. /\ bucket'[b].reserved = bucket[b].reserved
      /\ bucket'[b].consumed = bucket[b].consumed + 1 /\ bucket'[b].used = v
      /\ \A q \in Bucket \ {b} : bucket'[q] = bucket[q]
  <2>1. bucket[b] \in Usage BY <1>1
  <2>2. bucket'[b] = [bucket[b] EXCEPT !.consumed = bucket[b].consumed + 1,
                                       !.used = bucket[b].used + 1]
    BY <1>1, <1>6, <2>1 DEF Incremented, Usage
  <2> QED BY <1>1, <1>4, <1>6, <2>1, <2>2 DEF Usage
<1>9. \A q \in Bucket : bucket'[q].used <= bucket[q].used \/ Unlocked(q)
  <2>1. \A q \in Bucket : bucket[q].used \in Int BY <1>1 DEF Usage
  <2> QED BY <1>6, <1>8, <2>1
<1>10. /\ Locked' /\ JobsReserve' /\ Only(c)
       /\ WalletOf(c)' = WalletOf(c) /\ GlobalOf(c)' = GlobalOf(c)
       /\ \A q : /\ c \in Live(q)' <=> c \in Live(q)
                 /\ c \in Consumed(q)' <=> c \in Consumed(q)
                 /\ c \in Reserving(q)' <=> c \in Reserving(q)
  <2>1. call[c].pc \in {"kvWallet", "kvGlobal", "shadow", "decide", "undo"} BY <1>1
  <2>2. call'[c].pc \notin {"global", "insert"} BY <1>7
  <2> QED BY <1>1, <1>6, <1>7, <1>9, <2>1, <2>2, StartKeepsLocks
<1>11. /\ call'[c].seen \in [Counters -> Nat]
       /\ \A q \in Bucket : c \in Places(q)'
            => c \in Places(q) \/ (n \in Deciding /\ q = BucketOf(c, n) /\ v <= Limit(q))
  <2>1. call[c].pc \in {"kvWallet", "kvGlobal", "shadow"} BY <1>1
  <2>2. UNCHANGED shadow /\ call[c].ask.op = "start" /\ n \notin call[c].counted
    BY <1>1
  <2>3. WalletOf(c)' = WalletOf(c) /\ GlobalOf(c)' = GlobalOf(c) BY <1>10
  <2> QED BY <1>7, <2>1, <2>2, <2>3, OneMoreSeen
<1>12. Tallied(call[c])'
  <2>1. Deciding' = Pg BY <1>1, <1>2 DEF Deciding
  <2>2. Kv \union Pg = Counters BY DEF Kv, Pg, Counters
  <2>3. pc = "decide" => call'[c].counted = Counters BY <1>2, <1>5, <1>7
  <2>4. Kv \subseteq call'[c].counted BY <1>2, <1>7
  <2> QED BY <1>1, <1>2, <1>7, <1>11, <2>1, <2>2, <2>3, <2>4 DEF Tallied
<1>13. ASSUME NEW q \in Bucket
       PROVE  BucketFollows(c, q) /\ KvFollows(c, q) /\ StaysWithin(c, q)
  <2>1. \A m : BucketOf(c, m)' = BucketOf(c, m) BY <1>10 DEF BucketOf
  <2>2. c \in CountedIn(q, Kv)' <=> c \in CountedIn(q, Kv)
    <3>1. Kv \intersect call'[c].counted = Kv \intersect call[c].counted
      BY <1>1, <1>7 DEF Kv, Pg
    <3> QED BY <2>1, <3>1 DEF CountedIn, Kv
  <2>3. c \in CountedIn(q, Pg)' <=> c \in CountedIn(q, Pg) \/ q = b
    BY <1>1, <1>3, <1>7, <2>1 DEF CountedIn, Pg
  <2>4. c \notin CountedIn(b, Pg)
    BY <1>1, <1>3, CountedWhere, TwoBuckets DEF BucketOf, Pg
  <2>5. KvFollows(c, q)
    <3>1. kv[q] \in Int BY <1>1
    <3> QED BY <1>1, <2>2, <3>1 DEF KvFollows, One
  <2>6. BucketFollows(c, q)
    <3>1. /\ bucket[q].reserved \in Nat /\ bucket[q].consumed \in Nat
          /\ bucket[q].used = bucket[q].reserved + bucket[q].consumed
      BY CountersAreNat
    <3>2. CASE q = b
      <4>1. /\ bucket'[q].reserved = bucket[q].reserved
            /\ bucket'[q].consumed = bucket[q].consumed + 1
            /\ bucket'[q].used = bucket[q].used + 1
            /\ c \notin CountedIn(q, Pg) /\ c \in CountedIn(q, Pg)'
        BY <1>4, <1>8, <2>3, <2>4, <3>2
      <4> QED BY <1>10, <3>1, <4>1 DEF BucketFollows, One
    <3>3. CASE q # b
      BY <1>8, <1>10, <2>3, <3>1, <3>3 DEF BucketFollows, One
    <3> QED BY <3>2, <3>3
  <2>7. StaysWithin(c, q)
    <3>1. CASE c \in Places(q)' => c \in Places(q) BY <1>10, <3>1 DEF StaysWithin
    <3>2. CASE q = BucketOf(c, n) /\ v <= Limit(q)
      BY <1>2, <1>3, <1>8, <3>2 DEF StaysWithin
    <3> QED BY <1>11, <3>1, <3>2
  <2> QED BY <2>5, <2>6, <2>7
<1> QED BY <1>10, <1>12, <1>13, BooksStep

\* A refused start takes back a counter it had counted.
LEMMA UndoCounts ==
  ASSUME Inv, Books, Inv', NEW c \in Calls, NEW n \in Counters, Undo(c, n)
  PROVE  Books'
<1>1. /\ call \in [Calls -> CallRec] /\ call[c] \in CallRec
      /\ kv \in [Bucket -> Int] /\ bucket \in [Bucket -> Usage]
      /\ call[c].pc \in {"decide", "undo"} /\ call[c].ask.op = "start"
      /\ call[c].answer = "none" /\ n \in call[c].counted
      /\ UNCHANGED <<shadow, rec, held, job>>
  BY DEF Inv, Typed, Fits, Undo, TakenBack
<1>2. /\ call[c].seen \in [Counters -> Nat]
      /\ ~shadow => call[c].counted \subseteq Kv
      /\ Refused(call[c])
  <2>1. Verdict(c) # "ok" => Refused(call[c])
    BY DEF Verdict, Refused, ShadowAgrees, OverLimit
  <2>2. call[c].pc = "decide" => Verdict(c) # "ok" BY DEF Undo
  <2> QED BY <1>1, <2>1, <2>2 DEF Books, AllTallied, Tallied
<1>3. Verdict(c) # "ok"
  BY <1>2, IntakeAssumption
     DEF IntakeAssumption, Verdict, Refused, ShadowAgrees, OverLimit
<1>4. PICK b \in Bucket : b = BucketOf(c, n) BY TwoBuckets
<1>5. PICK pc \in {"done", "undo"}, a \in Answers, sn \in [Counters -> Nat] :
        /\ call' = [call EXCEPT ![c].counted = @ \ {n}, ![c].seen = sn,
                                ![c].answer = a, ![c].pc = pc]
        /\ a # "ok"
        /\ pc = "undo" => sn = call[c].seen
        /\ pc = "done" => call[c].counted = {n}
  <2>1. Unseen \in [Counters -> Nat] BY DEF Unseen
  <2>2. PICK v \in Answers : v = Verdict(c) BY DEF Verdict, Answers
  <2>3. CASE TakenBack(c) = {n}
    <3>1. call' = [call EXCEPT ![c].counted = @ \ {n}, ![c].seen = Unseen,
                               ![c].answer = v, ![c].pc = "done"]
      BY <2>2, <2>3 DEF Undo
    <3> QED BY <1>3, <2>1, <2>2, <2>3, <3>1 DEF TakenBack
  <2>4. CASE TakenBack(c) # {n}
    <3>1. PICK same \in [Counters -> Nat] : same = call[c].seen BY <1>2
    <3>2. call' = [call EXCEPT ![c].counted = @ \ {n}, ![c].seen = same,
                               ![c].answer = "none", ![c].pc = "undo"]
      <4>1. call' = [call EXCEPT ![c].counted = @ \ {n}, ![c].seen = call[c].seen,
                                 ![c].answer = "none", ![c].pc = "undo"]
        BY <1>1, <2>4 DEF Undo, CallRec
      <4> QED BY <3>1, <4>1
    <3>3. "none" \in Answers BY DEF Answers
    <3> QED BY <3>1, <3>2, <3>3
  <2> QED BY <2>3, <2>4
<1>6. /\ call'[c] = [call[c] EXCEPT !.counted = call[c].counted \ {n}, !.seen = sn,
                                    !.answer = a, !.pc = pc]
      /\ \A d \in Calls \ {c} : call'[d] = call[d]
  BY <1>1, <1>5
<1>7. /\ call'[c].pc = pc /\ call'[c].counted = call[c].counted \ {n}
      /\ call'[c].seen = sn /\ call'[c].answer = a
      /\ call'[c].ask = call[c].ask /\ call'[c].day = call[c].day
  BY <1>1, <1>6 DEF CallRec
<1>8. \A q \in Bucket : /\ bucket[q].reserved \in Nat /\ bucket[q].consumed \in Nat
                        /\ bucket[q].used = bucket[q].reserved + bucket[q].consumed
                        /\ bucket[q].used \in Nat /\ kv[q] \in Nat
                        /\ c \in CountedIn(q, Pg) => bucket[q].consumed # 0
  BY CountersAreNat
<1>9. PICK k \in {0, 1} :
        /\ k = 1 <=> n \in Kv
        /\ kv' = [kv EXCEPT ![b] = @ - k]
        /\ bucket'[b].reserved = bucket[b].reserved
        /\ bucket'[b].consumed = bucket[b].consumed - (1 - k)
        /\ bucket'[b].used = bucket[b].used - (1 - k)
        /\ \A q \in Bucket \ {b} : bucket'[q] = bucket[q]
  <2>1. CASE n \in Kv
    <3>1. kv' = [kv EXCEPT ![b] = @ - 1] /\ UNCHANGED bucket BY <1>4, <2>1 DEF Undo, Kv
    <3> QED BY <1>8, <2>1, <3>1
  <2>2. CASE n \notin Kv
    <3>1. UNCHANGED kv /\ bucket' = [bucket EXCEPT ![b] = Decremented(@)]
      BY <1>4, <2>2 DEF Undo, Kv
    <3>2. c \in CountedIn(b, Pg) BY <1>1, <1>4, <2>2 DEF CountedIn, Pg, Kv, Counters
    <3>3. bucket[b].consumed # 0 /\ bucket[b].used # 0 BY <1>8, <3>2
    <3>4. /\ Floor(bucket[b].consumed - 1) = bucket[b].consumed - 1
          /\ Floor(bucket[b].used - 1) = bucket[b].used - 1
      BY <1>8, <3>3 DEF Floor
    <3>5. bucket'[b] = [bucket[b] EXCEPT !.consumed = bucket[b].consumed - 1,
                                         !.used = bucket[b].used - 1]
      <4>1. bucket[b] \in Usage BY <1>1
      <4> QED BY <1>1, <3>1, <3>4, <4>1 DEF Decremented, Usage
    <3>6. /\ bucket'[b].reserved = bucket[b].reserved
          /\ bucket'[b].consumed = bucket[b].consumed - 1
          /\ bucket'[b].used = bucket[b].used - 1
          /\ \A q \in Bucket \ {b} : bucket'[q] = bucket[q]
      <4>1. bucket[b] \in Usage BY <1>1
      <4> QED BY <1>1, <3>1, <3>5, <4>1 DEF Usage
    <3>7. kv' = [kv EXCEPT ![b] = @ - 0]
      <4>1. kv[b] - 0 = kv[b] BY <1>8
      <4> QED BY <1>1, <3>1, <4>1
    <3> QED BY <2>2, <3>6, <3>7
  <2> QED BY <2>1, <2>2
<1>10. \A q \in Bucket : bucket'[q].used <= bucket[q].used \/ Unlocked(q)
  BY <1>8, <1>9
<1>11. /\ Locked' /\ JobsReserve' /\ Only(c)
       /\ WalletOf(c)' = WalletOf(c) /\ GlobalOf(c)' = GlobalOf(c)
       /\ \A q : /\ c \in Live(q)' <=> c \in Live(q)
                 /\ c \in Consumed(q)' <=> c \in Consumed(q)
                 /\ c \in Reserving(q)' <=> c \in Reserving(q)
  <2>1. call[c].pc \in {"kvWallet", "kvGlobal", "shadow", "decide", "undo"} BY <1>1
  <2>2. call'[c].pc \notin {"global", "insert"} BY <1>7
  <2> QED BY <1>1, <1>6, <1>7, <1>10, <2>1, <2>2, StartKeepsLocks
<1>12. Tallied(call[c])'
  <2>1. pc = "undo" => Refused(call[c])'
    <3>1. pc = "undo" => call'[c].seen = call[c].seen BY <1>5, <1>7
    <3> QED BY <1>1, <1>2, <3>1 DEF Refused
  <2>2. pc = "done" => call'[c].counted = {} BY <1>5, <1>7
  <2> QED BY <1>1, <1>2, <1>5, <1>7, <2>1, <2>2 DEF Tallied
<1>13. ASSUME NEW q \in Bucket
       PROVE  BucketFollows(c, q) /\ KvFollows(c, q) /\ StaysWithin(c, q)
  <2>1. \A m : BucketOf(c, m)' = BucketOf(c, m) BY <1>11 DEF BucketOf
  <2>2. /\ c \in CountedIn(q, Kv) <=> c \in CountedIn(q, Kv)' \/ (n \in Kv /\ q = b)
        /\ c \in CountedIn(q, Pg) <=> c \in CountedIn(q, Pg)' \/ (n \in Pg /\ q = b)
    BY <1>1, <1>4, <1>7, <2>1 DEF CountedIn, Kv, Pg
  <2>3. /\ n \in Kv => c \notin CountedIn(b, Kv)'
        /\ n \in Pg => c \notin CountedIn(b, Pg)'
    <3>1. /\ BucketOf(c, "kvWallet") # BucketOf(c, "kvGlobal")
          /\ BucketOf(c, "pgWallet") # BucketOf(c, "pgGlobal")
      BY TwoBuckets DEF BucketOf
    <3> QED BY <1>4, <1>7, <2>1, <3>1 DEF CountedIn, Kv, Pg
  <2>4. n \in Pg <=> n \notin Kv BY DEF Kv, Pg, Counters
  <2>5. KvFollows(c, q)
    <3>1. kv[q] \in Nat /\ kv'[q] = IF q = b THEN kv[q] - k ELSE kv[q] BY <1>1, <1>8, <1>9
    <3> QED BY <1>9, <2>2, <2>3, <3>1 DEF KvFollows, One
  <2>6. BucketFollows(c, q)
    <3>1. /\ bucket[q].reserved \in Nat /\ bucket[q].consumed \in Nat
          /\ bucket[q].used = bucket[q].reserved + bucket[q].consumed
      BY <1>8
    <3>2. CASE q = b
      BY <1>9, <1>11, <2>2, <2>3, <2>4, <3>1, <3>2 DEF BucketFollows, One
    <3>3. CASE q # b
      BY <1>9, <1>11, <2>2, <3>1, <3>3 DEF BucketFollows, One
    <3> QED BY <3>2, <3>3
  <2>7. c \notin Places(q)' BY <1>5, <1>7 DEF Places, Started, Hopeful
  <2> QED BY <1>11, <2>5, <2>6, <2>7 DEF StaysWithin
<1> QED BY <1>11, <1>12, <1>13, BooksStep

\* A job that only locks a bucket or gives up changes no count.
LEMMA JobCounts ==
  ASSUME Inv, Books, Inv', NEW r \in Calls,
         FinishRecord(r) \/ FinishWallet(r) \/ CrashFinish(r)
  PROVE  Books'
<1>1. /\ call' = call /\ rec' = rec /\ bucket' = bucket /\ kv' = kv /\ shadow' = shadow
      /\ job \in [Calls -> {"idle", "wallet", "global"}]
      /\ held \in [Tx -> SUBSET Bucket] /\ bucket \in [Bucket -> Usage]
  BY DEF Inv, Typed, FinishRecord, FinishWallet, CrashFinish
<1>2. \A d \in Calls : held'[<<"prepare", d>>] = held[<<"prepare", d>>]
  <2>1. \A h : held' = [held EXCEPT ![<<"finish", r>>] = h]
          => \A d \in Calls : held'[<<"prepare", d>>] = held[<<"prepare", d>>]
    BY <1>1, TxOf
  <2> QED BY <2>1 DEF FinishRecord, FinishWallet, CrashFinish
<1>3. JobsReserve'
  <2>1. \A s \in Calls \ {r} : job'[s] = job[s]
    BY <1>1 DEF FinishRecord, FinishWallet, CrashFinish
  <2>2. job'[r] # "idle" => rec[r].quota = "reserved"
    BY <1>1 DEF FinishRecord, FinishWallet, CrashFinish, Books, JobsReserve
  <2> QED BY <1>1, <2>1, <2>2 DEF Books, JobsReserve
<1>4. Locked'
  BY <1>1, <1>2 DEF Books, Locked, WalletOf, GlobalOf, WithinLimit, Limit
<1>5. /\ shadow' \in BOOLEAN /\ IsFiniteSet(Active') /\ AllTallied'
      /\ BucketsMatchRecords' /\ KvMatches' /\ PlacesFit'
  <2>1. Active' = Active /\ Deciding' = Deciding BY <1>1 DEF Active, Deciding
  <2>2. AllTallied'
    BY <1>1, <2>1 DEF Books, AllTallied, Tallied, Refused
  <2>3. \A c : WalletOf(c)' = WalletOf(c) /\ GlobalOf(c)' = GlobalOf(c)
               /\ BucketsOf(c)' = BucketsOf(c)
    BY <1>1 DEF WalletOf, GlobalOf, BucketsOf
  <2>4. \A c, n : BucketOf(c, n)' = BucketOf(c, n) BY <2>3 DEF BucketOf
  <2>5. \A b : /\ Live(b)' = Live(b) /\ Consumed(b)' = Consumed(b)
               /\ Reserving(b)' = Reserving(b)
    BY <1>1, <2>3 DEF Live, Consumed, In, Reserving
  <2>6. \A b, m : CountedIn(b, m)' = CountedIn(b, m) BY <1>1, <2>4 DEF CountedIn
  <2>7. \A b : Places(b)' = Places(b)
    BY <1>1, <2>1, <2>3, <2>4 DEF Places, Started, Hopeful, Limit
  <2>8. BucketsMatchRecords' BY <1>1, <2>5, <2>6 DEF Books, BucketsMatchRecords
  <2>9. KvMatches' BY <1>1, <2>6 DEF Books, KvMatches, Kv
  <2>10. PlacesFit' BY <1>1, <2>5, <2>7 DEF Books, PlacesFit, Limit
  <2> QED BY <1>1, <2>1, <2>2, <2>8, <2>9, <2>10 DEF Books
<1> QED BY <1>3, <1>4, <1>5 DEF Books

\* The end of a reservation: its two buckets hold it no longer, and one unit more of
\* what is used up if it is.
LEMMA FinishCounts ==
  ASSUME Inv, Books, Inv', NEW r \in Calls, FinishGlobal(r)
  PROVE  Books'
<1>1. /\ call \in [Calls -> CallRec] /\ rec \in [Calls -> RecRec] /\ rec[r] \in RecRec
      /\ held \in [Tx -> SUBSET Bucket] /\ bucket \in [Bucket -> Usage]
      /\ job \in [Calls -> {"idle", "wallet", "global"}]
      /\ rec[r].quota = "reserved" /\ call' = call /\ UNCHANGED <<shadow, kv>>
      /\ job' = [job EXCEPT ![r] = "idle"]
  BY DEF Inv, Typed, FinishGlobal, Books, JobsReserve
<1>2. call[r].pc = "done" BY <1>1 DEF Inv, Fits
<1>3. PICK to \in {"consumed", "released"} :
        /\ rec' = [rec EXCEPT ![r].quota = to]
        /\ bucket' = [b \in Bucket |->
             IF b \notin BucketsOf(r) THEN bucket[b]
             ELSE IF to = "consumed" THEN ConsumedReserved(bucket[b])
             ELSE ReleasedReserved(bucket[b])]
  BY DEF FinishGlobal
<1>4. /\ rec'[r].quota = to /\ BucketsOf(r)' = BucketsOf(r)
      /\ \A d \in Calls \ {r} : rec'[d] = rec[d]
  <2>1. rec'[r] = [rec[r] EXCEPT !.quota = to] BY <1>1, <1>3
  <2>2. rec'[r].quota = to /\ rec'[r].ask = rec[r].ask /\ rec'[r].day = rec[r].day
    BY <1>1, <2>1 DEF RecRec
  <2> QED BY <1>1, <1>3, <2>2 DEF BucketsOf
<1>5. Only(r) BY <1>1, <1>4 DEF Only
<1>6. held[<<"prepare", r>>] = {} BY <1>2 DEF Inv, PrepareHolds
<1>7. \A d \in Calls : held'[<<"prepare", d>>] = held[<<"prepare", d>>]
  BY <1>1, TxOf DEF FinishGlobal
<1>8. ASSUME NEW b \in Bucket
      PROVE  /\ bucket[b].reserved \in Nat /\ bucket[b].consumed \in Nat
             /\ bucket[b].used = bucket[b].reserved + bucket[b].consumed
             /\ b \in BucketsOf(r) => r \in Live(b) /\ bucket[b].reserved # 0
  <2>1. b \in BucketsOf(r) => r \in Live(b) BY <1>1 DEF Live, In
  <2> QED BY <2>1, CountersAreNat
<1>9. ASSUME NEW b \in Bucket
      PROVE  /\ b \in BucketsOf(r)
                => /\ bucket'[b].reserved = bucket[b].reserved - 1
                   /\ bucket'[b].consumed =
                        bucket[b].consumed + (IF to = "consumed" THEN 1 ELSE 0)
                   /\ bucket'[b].used =
                        bucket[b].used - (IF to = "consumed" THEN 0 ELSE 1)
             /\ b \notin BucketsOf(r) => bucket'[b] = bucket[b]
  <2>1. bucket[b] \in Usage BY <1>1
  <2>2. CASE b \in BucketsOf(r)
    <3>1. /\ Floor(bucket[b].reserved - 1) = bucket[b].reserved - 1
          /\ Floor(bucket[b].used - 1) = bucket[b].used - 1
      BY <1>8, <2>2 DEF Floor
    <3>2. CASE to = "consumed"
      <4>1. bucket'[b] = [bucket[b] EXCEPT !.reserved = bucket[b].reserved - 1,
                                           !.consumed = bucket[b].consumed + 1]
        BY <1>3, <2>1, <2>2, <3>1, <3>2 DEF ConsumedReserved, Usage
      <4> QED BY <1>8, <2>1, <2>2, <3>2, <4>1 DEF Usage
    <3>3. CASE to # "consumed"
      <4>1. bucket'[b] = [bucket[b] EXCEPT !.reserved = bucket[b].reserved - 1,
                                           !.used = bucket[b].used - 1]
        BY <1>3, <2>1, <2>2, <3>1, <3>3 DEF ReleasedReserved, Usage
      <4> QED BY <1>8, <2>1, <2>2, <3>3, <4>1 DEF Usage
    <3> QED BY <3>2, <3>3
  <2>3. CASE b \notin BucketsOf(r) BY <1>3, <2>3
  <2> QED BY <2>2, <2>3
<1>10. Locked'
  <2>1. ASSUME NEW d \in Calls \ {r}, NEW b \in held[<<"prepare", d>>]
        PROVE  bucket'[b].used <= bucket[b].used
    <3>1. b \in Bucket BY <1>1, TxOf
    <3>2. bucket[b].used \in Int BY <1>1, <3>1 DEF Usage
    <3> QED BY <1>9, <3>1, <3>2
  <2>2. call'[r].pc \notin {"global", "insert"} /\ held'[<<"prepare", r>>] = {}
    BY <1>1, <1>2, <1>6, <1>7
  <2> QED BY <1>5, <1>7, <2>1, <2>2, LocksStay
<1>11. Tallied(call[r])'
  <2>1. PICK x : x = call[r] /\ Tallied(x) /\ call'[r] = x
    BY <1>1 DEF Books, AllTallied
  <2>2. Tallied(x)' BY <1>1, <2>1 DEF Tallied, Refused, Deciding
  <2> QED BY <2>1, <2>2
<1>12. JobsReserve'
  <2>1. job'[r] = "idle" /\ \A s \in Calls \ {r} : job'[s] = job[s] BY <1>1
  <2> QED BY <1>4, <2>1 DEF Books, JobsReserve
<1>13. ASSUME NEW b \in Bucket
       PROVE  BucketFollows(r, b) /\ KvFollows(r, b) /\ StaysWithin(r, b)
  <2>1. kv[b] \in Int BY DEF Inv, Typed
  <2>2. /\ r \in Live(b) <=> b \in BucketsOf(r)
        /\ r \notin Live(b)' /\ r \notin Consumed(b)
        /\ r \in Consumed(b)' <=> b \in BucketsOf(r) /\ to = "consumed"
    BY <1>1, <1>4 DEF Live, Consumed, In
  <2>3. WalletOf(r)' = WalletOf(r) /\ GlobalOf(r)' = GlobalOf(r)
    BY <1>1 DEF WalletOf, GlobalOf
  <2>4. \A n : BucketOf(r, n)' = BucketOf(r, n) BY <2>3 DEF BucketOf
  <2>5. /\ r \in CountedIn(b, Kv)' <=> r \in CountedIn(b, Kv)
        /\ r \in CountedIn(b, Pg)' <=> r \in CountedIn(b, Pg)
    BY <1>1, <2>4 DEF CountedIn, Kv, Pg
  <2>6. BucketFollows(r, b)
    <3>1. CASE b \in BucketsOf(r)
      BY <1>8, <1>9, <2>2, <2>5, <3>1 DEF BucketFollows, One
    <3>2. CASE b \notin BucketsOf(r)
      BY <1>8, <1>9, <2>2, <2>5, <3>2 DEF BucketFollows, One
    <3> QED BY <3>1, <3>2
  <2>7. KvFollows(r, b) BY <1>1, <2>1, <2>5 DEF KvFollows, One
  <2>8. r \in Places(b)' => r \in Places(b)
    BY <1>1, <1>2, <2>3 DEF Places, Started, Hopeful
  <2>9. r \in Reserving(b)' => r \in Reserving(b) BY <2>2 DEF Reserving
  <2> QED BY <2>6, <2>7, <2>8, <2>9 DEF StaysWithin
<1> QED BY <1>5, <1>10, <1>11, <1>12, <1>13, BooksStep

--------------------------------------------------------------------------------
(* The theorems about the counts.                                                  *)

LEMMA BooksInit ==
  ASSUME Init, Inv
  PROVE  Books
<1>1. /\ \A c \in Calls : /\ call[c].pc = "idle" /\ call[c].seen = Unseen
                          /\ call[c].counted = {} /\ call[c].answer = "none"
                          /\ rec[c].quota = "none" /\ job[c] = "idle"
      /\ \A b \in Bucket : /\ bucket[b].reserved = 0 /\ bucket[b].consumed = 0
                           /\ bucket[b].used = 0 /\ kv[b] = 0
      /\ shadow \in BOOLEAN /\ \A t \in Tx : held[t] = {}
  BY DEF Init, NoRec
<1>2. Unseen \in [Counters -> Nat] BY DEF Unseen
<1>3. Active = {} BY <1>1 DEF Active
<1>4. AllTallied BY <1>1, <1>2 DEF AllTallied, Tallied
<1>5. JobsReserve BY <1>1 DEF JobsReserve
<1>6. Locked
  <2>1. \A c \in Calls : held[<<"prepare", c>>] = {} BY <1>1, TxOf
  <2> QED BY <1>1, <2>1 DEF Locked
<1>7. ASSUME NEW b
      PROVE  /\ Live(b) = {} /\ Consumed(b) = {} /\ Reserving(b) = {}
             /\ CountedIn(b, Kv) = {} /\ CountedIn(b, Pg) = {} /\ Places(b) = {}
  BY <1>1 DEF Live, Consumed, In, Reserving, CountedIn, Places, Started, Hopeful
<1>8. IsFiniteSet({}) /\ Cardinality({}) = 0 BY FS_EmptySet
<1>9. BucketsMatchRecords
  <2>1. ASSUME NEW b \in Bucket
        PROVE  /\ Cardinality(Live(b)) = 0 /\ Cardinality(Consumed(b)) = 0
               /\ Cardinality(CountedIn(b, Pg)) = 0
    BY <1>7, <1>8
  <2> QED BY <1>1, <2>1 DEF BucketsMatchRecords, Pg
<1>10. KvMatches BY <1>1, <1>7, <1>8 DEF KvMatches
<1>11. PlacesFit
  <2>1. ASSUME NEW b \in Bucket
        PROVE  /\ Cardinality(Reserving(b)) = 0 /\ Cardinality(Places(b)) = 0
               /\ 0 <= Limit(b)
    BY <1>7, <1>8, LimitsAreNat
  <2> QED BY <2>1 DEF PlacesFit
<1> QED BY <1>1, <1>3, <1>4, <1>5, <1>6, <1>8, <1>9, <1>10, <1>11 DEF Books

LEMMA BooksStay ==
  ASSUME Inv, Books, Midnight \/ UNCHANGED vars
  PROVE  Books'
<1>1. UNCHANGED <<shadow, call, rec, bucket, kv, held, job>>
  BY DEF Midnight, vars, Quota
<1>2. Active' = Active /\ Deciding' = Deciding BY <1>1 DEF Active, Deciding
<1>3. AllTallied' BY <1>1, <1>2 DEF Books, AllTallied, Tallied, Refused
<1>4. \A c : WalletOf(c)' = WalletOf(c) /\ GlobalOf(c)' = GlobalOf(c)
             /\ BucketsOf(c)' = BucketsOf(c)
  BY <1>1 DEF WalletOf, GlobalOf, BucketsOf
<1>5. \A c, n : BucketOf(c, n)' = BucketOf(c, n) BY <1>4 DEF BucketOf
<1>6. \A b : /\ Live(b)' = Live(b) /\ Consumed(b)' = Consumed(b)
             /\ Reserving(b)' = Reserving(b)
  BY <1>1, <1>4 DEF Live, Consumed, In, Reserving
<1>7. \A b, m : CountedIn(b, m)' = CountedIn(b, m) BY <1>1, <1>5 DEF CountedIn
<1>8. \A b : Places(b)' = Places(b)
  BY <1>1, <1>2, <1>4, <1>5 DEF Places, Started, Hopeful, Limit
<1>9. BucketsMatchRecords' BY <1>1, <1>6, <1>7 DEF Books, BucketsMatchRecords
<1>10. KvMatches' BY <1>1, <1>7 DEF Books, KvMatches, Kv
<1>11. PlacesFit' BY <1>1, <1>6, <1>8 DEF Books, PlacesFit, Limit
<1>12. JobsReserve' BY <1>1 DEF Books, JobsReserve
<1>13. Locked' BY <1>1, <1>4 DEF Books, Locked, WithinLimit, Limit
<1> QED BY <1>1, <1>2, <1>3, <1>9, <1>10, <1>11, <1>12, <1>13 DEF Books

LEMMA BooksInductive ==
  ASSUME Inv, Books, [Next]_vars
  PROVE  Books'
<1>1. Inv' BY InvStep
<1>2. CASE \E c \in Calls : Prepare(c)
  <2>1. PICK c \in Calls : Prepare(c) BY <1>2
  <2>2. CASE ArrivePrepare(c) \/ Begin(c) \/ Reread(c) BY <1>1, <2>2, LookupCounts
  <2>3. CASE ReserveWallet(c) \/ ReserveGlobal(c) BY <1>1, <2>3, ReserveCounts
  <2>4. CASE Insert(c) BY <1>1, <2>4, InsertCounts
  <2> QED BY <2>1, <2>2, <2>3, <2>4 DEF Prepare
<1>3. CASE \E c \in Calls : Start(c)
  <2>1. PICK c \in Calls : Start(c) BY <1>3
  <2>2. CASE ArriveStart(c) BY <1>1, <2>2, LookupCounts
  <2>3. CASE CountWallet(c) \/ CountGlobal(c) BY <1>1, <2>3, KvCounts
  <2>4. CASE Create(c) BY <1>1, <2>4, CreateCounts
  <2>5. CASE \E n \in Counters : CountShadow(c, n) BY <1>1, <2>5, PgCounts
  <2>6. CASE \E n \in Counters : Undo(c, n) BY <1>1, <2>6, UndoCounts
  <2> QED BY <2>1, <2>2, <2>3, <2>4, <2>5, <2>6 DEF Start
<1>4. CASE \E c \in Calls : CrashCall(c) BY <1>1, <1>4, CrashCounts
<1>5. CASE \E r \in Calls : FinishRecord(r) \/ FinishWallet(r) \/ CrashFinish(r)
  BY <1>1, <1>5, JobCounts
<1>6. CASE \E r \in Calls : FinishGlobal(r) BY <1>1, <1>6, FinishCounts
<1>7. CASE Midnight \/ UNCHANGED vars BY <1>7, BooksStay
<1> QED BY <1>2, <1>3, <1>4, <1>5, <1>6, <1>7 DEF Next, Finish

\* What was started is what is counted, when nothing is under way.
LEMMA CountedAsStarted ==
  ASSUME Inv, Books
  PROVE  CountersMatchStarts
<1> SUFFICES ASSUME \A c \in Calls : call[c].pc \in {"idle", "done"}, NEW b \in Bucket
             PROVE  kv[b] = Cardinality(Started(b))
  BY DEF CountersMatchStarts
<1>1. ASSUME NEW c \in Calls PROVE c \in Started(b) <=> c \in CountedIn(b, Kv)
  <2>1. Tallied(call[c]) /\ Fits(c, call[c]) BY DEF Books, AllTallied, Inv
  <2>2. CASE call[c].ask.op = "start" /\ call[c].answer = "ok"
    <3>1. "kvWallet" \in call[c].counted /\ "kvGlobal" \in call[c].counted
      BY <2>1, <2>2 DEF Tallied, Fits, Kv
    <3> QED BY <2>2, <3>1, CountedWhere DEF Started
  <2>3. CASE ~(call[c].ask.op = "start" /\ call[c].answer = "ok")
    <3>1. call[c].counted = {} BY <2>1, <2>3 DEF Tallied
    <3> QED BY <2>3, <3>1 DEF Started, CountedIn
  <2> QED BY <2>2, <2>3
<1>2. Started(b) = CountedIn(b, Kv) BY <1>1 DEF Started, CountedIn
<1> QED BY <1>2 DEF Books, KvMatches

\* The rows of the quota table and the counters of the key-value store say what the
\* research rows say, whatever transactions were rolled back, raced, crashed or crossed
\* midnight, and a refused start gives back all it took
\* (createFundingWithQuotaReservation, consumeQuota and finishQuotaReservation).
THEOREM CountsStayTrue ==
  ASSUME \E a \in Asks : TRUE
  PROVE  Spec => []CountsAreTrue
<1>1. Init => Inv /\ Books BY InvInit, BooksInit
<1>2. Inv /\ Books /\ [Next]_vars => Inv' /\ Books' BY InvStep, BooksInductive
<1>3. Inv /\ Books => CountsAreTrue BY CountedAsStarted DEF CountsAreTrue, Books
<1> QED BY <1>1, <1>2, <1>3, PTL DEF Spec

\* No more research a day than the limits allow, for a wallet and for all: the place of
\* a start is taken before it is admitted, and a prepare holds its rows from the upsert
\* that found room to its commit.
THEOREM NobodyExceedsTheLimit ==
  ASSUME \E a \in Asks : TRUE
  PROVE  Spec => []DailyLimit
<1>1. Init => Inv /\ Books BY InvInit, BooksInit
<1>2. Inv /\ Books /\ [Next]_vars => Inv' /\ Books' BY InvStep, BooksInductive
<1>3. ASSUME Inv, Books PROVE DailyLimit
  <2> SUFFICES ASSUME NEW b \in Bucket
               PROVE  IF shadow
                      THEN Cardinality(Live(b) \union Consumed(b))
                             + Cardinality(Started(b)) <= Limit(b)
                      ELSE /\ Cardinality(Live(b) \union Consumed(b)) <= Limit(b)
                           /\ Cardinality(Started(b)) <= Limit(b)
    BY DEF DailyLimit
  <2>1. IsFiniteSet(Active) /\ AllTallied BY <1>3 DEF Books
  <2>2. Reserving(b) \subseteq Active /\ Places(b) \subseteq Active
    BY <1>3, <2>1, AllAreActive DEF Deciding
  <2>3. IsFiniteSet(Reserving(b)) /\ IsFiniteSet(Places(b)) BY <2>1, <2>2, Sizes
  <2>4. Started(b) \subseteq Places(b) BY DEF Places
  <2>5. /\ Cardinality(Started(b)) \in Nat /\ Cardinality(Places(b)) \in Nat
        /\ Cardinality(Started(b)) <= Cardinality(Places(b))
        /\ Cardinality(Reserving(b)) \in Nat
    BY <2>3, <2>4, Sizes
  <2>6. Limit(b) \in Nat BY LimitsAreNat
  <2>7. IF shadow THEN Cardinality(Reserving(b)) + Cardinality(Places(b)) <= Limit(b)
        ELSE Cardinality(Reserving(b)) <= Limit(b) /\ Cardinality(Places(b)) <= Limit(b)
    BY <1>3 DEF Books, PlacesFit
  <2> QED BY <2>5, <2>6, <2>7 DEF Reserving
<1> QED BY <1>1, <1>2, <1>3, PTL DEF Spec

\* Every variable keeps its type; above all, no counter of the quota falls below zero, so
\* that the floor of a decrement never hides one that was not counted.
THEOREM IntakeIsTyped ==
  ASSUME \E a \in Asks : TRUE
  PROVE  Spec => []TypeOK
<1>1. Init => Inv /\ Books BY InvInit, BooksInit
<1>2. Inv /\ Books /\ [Next]_vars => Inv' /\ Books' BY InvStep, BooksInductive
<1>3. ASSUME Inv, Books PROVE TypeOK
  <2>1. ASSUME NEW b \in Bucket
        PROVE  bucket[b] \in [consumed : Nat, reserved : Nat, used : Nat]
    <3>1. bucket[b] \in Usage BY <1>3 DEF Inv, Typed
    <3>2. /\ bucket[b].reserved \in Nat /\ bucket[b].consumed \in Nat
          /\ bucket[b].used \in Nat
      BY <1>3, CountersAreNat
    <3> QED BY <3>1, <3>2 DEF Usage
  <2>2. ASSUME NEW c \in Calls
        PROVE  call[c] \in [pc : Pcs, ask : Asks, day : Days, seen : [Counters -> Nat],
                            counted : SUBSET Counters, research : Calls, answer : Answers]
    <3>1. call[c] \in CallRec BY <1>3 DEF Inv, Typed
    <3>2. call[c].seen \in [Counters -> Nat] BY <1>3 DEF Books, AllTallied, Tallied
    <3> QED BY <3>1, <3>2 DEF CallRec
  <2>3. /\ day \in Days /\ shadow \in BOOLEAN /\ rec \in [Calls -> RecRec]
        /\ held \in [Tx -> SUBSET Bucket] /\ job \in [Calls -> {"idle", "wallet", "global"}]
        /\ kv \in [Bucket -> Int] /\ call \in [Calls -> CallRec]
        /\ bucket \in [Bucket -> Usage]
    BY <1>3 DEF Inv, Typed, Books
  <2>4. call \in [Calls -> [pc : Pcs, ask : Asks, day : Days, seen : [Counters -> Nat],
                            counted : SUBSET Counters, research : Calls, answer : Answers]]
    BY <2>2, <2>3
  <2>5. bucket \in [Bucket -> [consumed : Nat, reserved : Nat, used : Nat]]
    BY <2>1, <2>3
  <2> QED BY <2>3, <2>4, <2>5 DEF TypeOK, Pcs, RecRec
<1> QED BY <1>1, <1>2, <1>3, PTL DEF Spec

================================================================================
