--------------------------- MODULE WorkflowOutbox ---------------------------
(* The durable workflow queue: the workflow_outbox table, the callers that      *)
(* enqueue operations, the operator that recovers parked ones, and the worker   *)
(* processes that run processDueWorkflowOperations over it. What a handler does *)
(* with its operation is left open here: it may renew, checkpoint, record a     *)
(* broadcast, complete, give the lease back, return or throw, in any order.     *)
EXTENDS OutboxRow, FiniteSets

CONSTANTS
  Keys,          \* operation keys; numbers, because the scan sorts by key
  Workers,       \* worker processes
  OwnerOf,       \* the workerId each one runs under
  Producer,      \* the leaseOwner of enqueuing callers
  Limit,         \* batch limit of a scan
  MaxAttempts, BackoffBase, BackoffMax,
  Synchronous,   \* TRUE: memory repository; FALSE: Postgres repository
  MaxStall,      \* longest time between the read and the write of one claim,
                 \* a worker's or a producer's
  MaxClock, MaxToken   \* bounds of the exploration

ASSUME OutboxAssumption ==
  /\ Keys \subseteq Nat /\ Keys # {}
  /\ OwnerOf \in [Workers -> Owners] /\ Producer \in Owners
  /\ Limit \in Nat /\ MaxAttempts \in Nat \ {0}
  /\ BackoffBase \in Nat /\ BackoffMax \in Nat
  /\ Synchronous \in BOOLEAN
  /\ MaxStall \in Nat /\ MaxClock \in Nat /\ MaxToken \in Nat

VARIABLES
  row,     \* the table
  clock,   \* wall clock
  asked,   \* per key: the row a producer's claim has read, and when (Postgres)
  pc,      \* per worker: "idle" | "loop" | "write" | "handle"
  due,     \* the rest of its batch: [key, next] as listed
  began,   \* `now` of its pass, sampled once at the start
  call     \* the operation of the current iteration: its key, the row the
           \* worker read (after the claim: the row it was given), and the time
           \* of its last step

vars  == <<row, clock, asked, pc, due, began, call>>
local == <<pc, due, began, call>>

Entry  == [key : Keys, next : Nat]
Call   == [key : Keys, op : Row, at : Nat]
NoCall == [key |-> CHOOSE k \in Keys : TRUE, op |-> Absent, at |-> 0]
Read   == [op : Row, at : Nat]
NoRead == [op |-> Absent, at |-> 0]

TypeOK ==
  /\ row \in [Keys -> Row]
  /\ clock \in Nat \ {0}
  /\ asked \in [Keys -> Read]
  /\ pc \in [Workers -> {"idle", "loop", "write", "handle"}]
  /\ due \in [Workers -> SUBSET Entry]
  /\ began \in [Workers -> Nat]
  /\ call \in [Workers -> Call]

Init ==
  /\ row = [k \in Keys |-> Absent]
  /\ clock = 1
  /\ asked = [k \in Keys |-> NoRead]
  /\ pc = [w \in Workers |-> "idle"]
  /\ due = [w \in Workers |-> {}]
  /\ began = [w \in Workers |-> 0]
  /\ call = [w \in Workers |-> NoCall]

-----------------------------------------------------------------------------
\* A Date() taken by w after its last step. In memory nothing runs between the
\* sample and its use; against Postgres the statement may reach the database
\* any time later.
Samples(w) == IF Synchronous THEN {clock} ELSE call[w].at..clock
Stamp      == IF Synchronous THEN 0 ELSE clock

\* retryDelayMs
RetryDelay(attempts) ==
  LET d == BackoffBase * 2 ^ (attempts - 1)
  IN  IF d \in 0..BackoffMax THEN d ELSE BackoffMax

\* Scan order: nextAttemptAt, then operationKey.
Before(e, f) == e.next < f.next \/ (e.next = f.next /\ e.key < f.key)

\* The rows LIMIT applies to. Postgres drops the terminal ones only afterwards.
Listed(k) == IF Synchronous THEN Due(row[k], clock)
             ELSE /\ row[k].phase # "absent"
                  /\ row[k].next <= clock /\ row[k].lease <= clock
Entries   == {[key |-> k, next |-> row[k].next] : k \in {k \in Keys : Listed(k)}}
FirstOf(S) == {e \in S : Cardinality({f \in S : Before(f, e)}) < Limit}
ListDue    == {e \in FirstOf(Entries) : row[e.key].phase \in Live}

\* A conditional UPDATE by the holder of the current operation.
Mutate(w, now, r) ==
  /\ pc[w] = "handle"
  /\ CanMutate(row[call[w].key], call[w].op.token, now)
  /\ row' = [row EXCEPT ![call[w].key] = r]
  /\ UNCHANGED <<clock, asked, due, began>>

Continue(w)    == pc' = pc /\ call' = [call EXCEPT ![w].at = Stamp]
NextInBatch(w) == /\ pc' = [pc EXCEPT ![w] = "loop"]
                  /\ call' = [call EXCEPT ![w] = NoCall]
-----------------------------------------------------------------------------
\* claimOperation by a producer (the API, or a handler that enqueues the next
\* stage). In Postgres it reads the row, samples `now` and writes later; at most
\* one producer at a time is between the two for one key. In memory nothing runs
\* in between.
Seen(k)       == IF Synchronous THEN row[k] ELSE asked[k].op
AskSamples(k) == IF Synchronous THEN {clock}
                 ELSE IF asked[k].at = 0 THEN {} ELSE asked[k].at..clock

Ask(k) ==
  /\ ~Synchronous /\ asked[k].at = 0
  /\ asked' = [asked EXCEPT ![k] = [op |-> row[k], at |-> clock]]
  /\ UNCHANGED <<row, clock, local>>

Answered(k, r) == /\ row' = [row EXCEPT ![k] = r]
                  /\ asked' = [asked EXCEPT ![k] = NoRead]
                  /\ UNCHANGED <<clock, local>>

\* The operation was unknown, and the insert meets no conflict.
Enqueue(k) ==
  /\ Seen(k).phase = "absent" /\ row[k].phase = "absent"
  /\ \E now \in AskSamples(k) : Answered(k, Inserted(Producer, now))

\* It existed and was due, and is due at the conditional UPDATE: the producer
\* takes the lease, with the fence that follows the one it read.
Reenqueue(k) ==
  /\ Seen(k).token < MaxToken
  /\ \E now \in AskSamples(k) :
       /\ CanClaim(Seen(k), now) /\ CanClaim(row[k], now)
       /\ Answered(k, Reclaimed(row[k], Seen(k), Producer, now))

\* One of the tests failed and the answer is `existing`; or the caller died.
Decline(k) ==
  /\ asked[k].at > 0
  /\ asked' = [asked EXCEPT ![k] = NoRead]
  /\ UNCHANGED <<row, clock, local>>

\* recoverManualOperation: requeue, or mark_closed with accepted evidence.
Recover(k) ==
  /\ row[k].phase = "manual"
  /\ \E phase \in {"queued", "succeeded"} :
       row' = [row EXCEPT ![k] = Recovered(row[k], phase, clock)]
  /\ UNCHANGED <<clock, asked, local>>

\* processDueWorkflowOperations: sample `now`, list what is due.
Scan(w) ==
  /\ pc[w] = "idle"
  /\ pc' = [pc EXCEPT ![w] = "loop"]
  /\ began' = [began EXCEPT ![w] = clock]
  /\ due' = [due EXCEPT ![w] = ListDue]
  /\ UNCHANGED <<row, clock, asked, call>>

\* The pass is over; or the process dies and its leases stay until they expire.
Leave(w) == /\ pc' = [pc EXCEPT ![w] = "idle"]
            /\ due' = [due EXCEPT ![w] = {}]
            /\ began' = [began EXCEPT ![w] = 0]
            /\ call' = [call EXCEPT ![w] = NoCall]
            /\ UNCHANGED <<row, clock, asked>>

EndOfBatch(w) == pc[w] = "loop" /\ due[w] = {} /\ Leave(w)
Crash(w)      == pc[w] # "idle" /\ Leave(w)

\* The next listed operation: claimOperation reads its row.
Take(w) ==
  /\ pc[w] = "loop"
  /\ \E e \in due[w] :
       /\ \A f \in due[w] : f = e \/ Before(e, f)
       /\ due' = [due EXCEPT ![w] = @ \ {e}]
       /\ call' = [call EXCEPT ![w] =
                     [key |-> e.key, op |-> row[e.key], at |-> Stamp]]
  /\ pc' = [pc EXCEPT ![w] = "write"]
  /\ UNCHANGED <<row, clock, asked, began>>

\* The claim test is made on the row that was read and again, with the same
\* `now`, by the conditional UPDATE; the new fence is computed from the row that
\* was read. In memory nothing runs between the read and the write.
RowRead(w) == IF Synchronous THEN row[call[w].key] ELSE call[w].op
\* Fault: the WHERE clause does not repeat the test.
ClaimableWhenRead(w, now) == CanClaim(RowRead(w), now)
Claimable(w, now) == CanClaim(RowRead(w), now) /\ CanClaim(row[call[w].key], now)

Claim(w) ==
  LET k == call[w].key IN
  /\ pc[w] = "write" /\ RowRead(w).token < MaxToken
  /\ \E now \in Samples(w) :
       LET got == Reclaimed(row[k], RowRead(w), OwnerOf[w], now)
       IN  /\ Claimable(w, now)
           /\ row' = [row EXCEPT ![k] = got]
           /\ call' = [call EXCEPT ![w] = [key |-> k, op |-> got, at |-> Stamp]]
  /\ pc' = [pc EXCEPT ![w] = "handle"]
  /\ UNCHANGED <<clock, asked, due, began>>

Skip(w) ==
  /\ pc[w] = "write"
  /\ \E now \in Samples(w) : ~Claimable(w, now)
  /\ NextInBatch(w)
  /\ UNCHANGED <<row, clock, asked, due, began>>
-----------------------------------------------------------------------------
\* What handlers do through the repository. A write whose test fails changes
\* nothing; the handler then goes on, returns or throws.
Renew(w) ==
  /\ row[call[w].key].owner = OwnerOf[w]
  /\ \E now \in Samples(w) : Mutate(w, now, Renewed(row[call[w].key], now))
  /\ Continue(w)

Checkpoint(w) ==
  /\ \E now \in Samples(w) : Mutate(w, now, Checkpointed(row[call[w].key]))
  /\ Continue(w)

RecordBroadcast(w) ==
  /\ \E now \in Samples(w) : Mutate(w, now, Broadcast(row[call[w].key]))
  /\ Continue(w)

Complete(w) ==
  /\ \E now \in Samples(w) : Mutate(w, now, Completed(row[call[w].key]))
  /\ Continue(w)

\* The activation worker gives its own lease back and returns.
GiveBack(w) ==
  /\ \E now \in Samples(w) :
       Mutate(w, now, Released(row[call[w].key], "queued", now + BackoffBase))
  /\ NextInBatch(w)

\* The handler is done; or it threw and lost its lease before the catch block.
Return(w) ==
  /\ pc[w] = "handle"
  /\ NextInBatch(w)
  /\ UNCHANGED <<row, clock, asked, due, began>>

\* Fault: the attempt that is about to be made is counted too.
FailedEarly(w) ==
  IF call[w].op.attempts + 1 >= MaxAttempts
  THEN Released(row[call[w].key], "manual", began[w])
  ELSE Released(row[call[w].key], "queued",
                began[w] + RetryDelay(call[w].op.attempts))

\* The catch block: park the operation when its attempts are used up, else
\* queue it again, counted from the start of the pass.
Failed(w) ==
  IF call[w].op.attempts >= MaxAttempts
  THEN Released(row[call[w].key], "manual", began[w])
  ELSE Released(row[call[w].key], "queued",
                began[w] + RetryDelay(call[w].op.attempts))

\* Fault: the catch block releases the operation by key, without its fence.
ThrowUnfenced(w) ==
  /\ pc[w] = "handle" /\ row[call[w].key].phase \in Live
  /\ row' = [row EXCEPT ![call[w].key] = Failed(w)]
  /\ UNCHANGED <<clock, asked, due, began>>
  /\ NextInBatch(w)

Throw(w) == /\ \E now \in Samples(w) : Mutate(w, now, Failed(w))
            /\ NextInBatch(w)

\* MaxStall bounds, against Postgres, the gap between a claim's read and write.
Tick ==
  /\ clock < MaxClock
  /\ \A w \in Workers :
       pc[w] = "write" /\ ~Synchronous => clock < call[w].at + MaxStall
  /\ \A k \in Keys : asked[k].at > 0 => clock < asked[k].at + MaxStall
  /\ clock' = clock + 1
  /\ UNCHANGED <<row, asked, local>>

Producers   == \E k \in Keys : \/ Ask(k) \/ Enqueue(k) \/ Reenqueue(k) \/ Decline(k)
                              \/ Recover(k)
Handling(w) == \/ Renew(w) \/ Checkpoint(w) \/ RecordBroadcast(w) \/ Complete(w)
               \/ GiveBack(w) \/ Return(w) \/ Throw(w)
Worker(w)   == \/ Scan(w) \/ EndOfBatch(w) \/ Take(w) \/ Claim(w) \/ Skip(w)
               \/ Handling(w) \/ Crash(w)

Next == Producers \/ (\E w \in Workers : Worker(w)) \/ Tick

Spec == Init /\ [][Next]_vars
-----------------------------------------------------------------------------
\* w can still write the row of the operation it is handling.
Holds(w, k) == /\ pc[w] = "handle" /\ call[w].key = k
               /\ CanMutate(row[k], call[w].op.token, clock)

\* Mutual exclusion of execution rights: two workers never both pass the fence of
\* one operation, whatever leases ran out and were taken over in between.
OneHolder ==
  \A k \in Keys : \A v, w \in Workers : Holds(v, k) /\ Holds(w, k) => v = w

\* The fencing token of an operation never goes back: a holder that was
\* superseded can never find its own token on the row again.
FencesNeverFall == [][\A k \in Keys : row'[k].token >= row[k].token]_vars

\* Every claim a worker wins gets a token no earlier claim of the operation had
\* (the token names the claim: all workers may run under one workerId).
ClaimsAreFenced ==
  [][\A w \in Workers :
       pc[w] = "write" /\ pc'[w] = "handle"
         => call'[w].op.token > row[call[w].key].token]_vars

\* A running lease is never taken, not even by a worker with the same workerId: a
\* worker starts to handle an operation, and an operation changes its fence or its
\* owner, only when it is due at that moment, although the claim tests a clock
\* sampled earlier and a row read earlier. (Two workers that read one row would
\* take it under one owner and one token; so their claims are looked at too.)
NoPreemption ==
  [][/\ \A w \in Workers :
          pc[w] = "write" /\ pc'[w] = "handle" => Due(row[call[w].key], clock)
     /\ \A k \in Keys :
          \/ row'[k].token # row[k].token
          \/ row'[k].owner \notin {row[k].owner, "nobody"}
            => row[k].phase = "absent" \/ Due(row[k], clock)]_vars

\* What succeeded stays exactly as it is: no late holder, scan, producer or
\* operator reopens a completed operation.
SucceededIsFinal ==
  [][\A k \in Keys : row[k].phase = "succeeded" => row'[k] = row[k]]_vars

\* Only an operation that was handed out MaxAttempts times is parked for manual
\* recovery; the first of these is the enqueuing call itself.
ParkedIsExhausted ==
  \A k \in Keys : row[k].phase = "manual" => row[k].attempts >= MaxAttempts

Status(r) == IF r.phase \in Live THEN "open" ELSE r.phase
GrantOf(w) == IF pc[w] = "handle" THEN <<call[w].key, call[w].op.token>> ELSE <<>>

\* The promise of the queue: leases, expiry, stale holders, crashes, retries and
\* recovery amount to grants under rising fences.
Promise == INSTANCE FencedOperations WITH
  status <- [k \in Keys |-> Status(row[k])],
  fence  <- [k \in Keys |-> row[k].token],
  grant  <- [w \in Workers |-> GrantOf(w)]

\* The memory repository and the worker loop implement it: a worker that lost its
\* lease, in whatever way and however late it wakes up, ends nothing.
KeepsPromise == Promise!Spec
=============================================================================
