--------------------------- MODULE PaymentSettlement ---------------------------
(* Payments of a research that has no escrow. Agents, one per process that streams *)
(* the research, record payment intents in tx_log; the end of an agent starts a   *)
(* settlement of what is pending, and passes of retryResearchSettlements take up   *)
(* failed and abandoned ones. A settlement is a row of payment_settlement, one per *)
(* research, and a transaction that anchors its entries. Beside them, callers of a *)
(* paid API record and anchor single entries, under an Idempotency-Key.            *)
EXTENDS Integers, Sequences, FiniteSets

CONSTANTS
  Agents, Retriers, Payers,   \* processes: agents, retry passes, paid calls
  IntentsOf,   \* the request ids an agent's model calls may have
  Directs,     \* the Idempotency-Keys of paid calls
  Casts,       \* which processes take part in one exploration
  MaxSends     \* transactions of one exploration

Workers == Agents \union Retriers
Intents == UNION {IntentsOf[a] : a \in Agents}
Ids     == Intents \union Directs

ASSUME PaymentAssumption ==
  /\ IntentsOf \in [Agents -> SUBSET Ids] /\ Intents \intersect Directs = {}
  /\ Casts \subseteq SUBSET (Workers \union Payers) /\ MaxSends \in Nat

VARIABLES
  mode,      \* ARC_RECEIPT_MODE
  cast,      \* the processes that take part
  status,    \* of the research
  log,       \* tx_log: [status, hash], hash 0 is null
  row,       \* payment_settlement: [status, ids, hash, manual]
  chain,     \* transactions sent: [items, ok, told: the sender learnt its hash]
  wk,        \* agents and retry passes
  pay        \* paid calls: [pc, id, hash]

vars == <<mode, cast, status, log, row, chain, wk, pay>>

Hash      == 0..MaxSends
LogStatus == {"absent", "pending", "mock", "confirmed", "failed"}
Row       == [status : {"absent", "broadcasting", "confirmed", "failed"},
              ids : SUBSET Intents, hash : Hash, manual : BOOLEAN]
NoRow     == [status |-> "absent", ids |-> {}, hash |-> 0, manual |-> FALSE]
Steps     == {"idle", "run", "list", "claim", "find", "reclaim", "existing", "send",
              "fail", "markFailed", "receipt", "confirm", "mark", "manual", "persisted",
              "reconcile", "listed", "retry", "sweep", "lost", "done", "dead"}
Idle      == [pc |-> "idle", ids |-> {}, seen |-> NoRow, hash |-> 0, from |-> "absent",
              old |-> FALSE]

TypeOK ==
  /\ mode \in {"mock", "arc"} /\ cast \in Casts
  /\ status \in {"running", "completed", "failed", "cancelled"}
  /\ log \in [Ids -> [status : LogStatus, hash : Hash]]
  /\ row \in Row
  /\ chain \in Seq([items : SUBSET Ids, ok : BOOLEAN, told : BOOLEAN])
  /\ Len(chain) <= MaxSends
  /\ wk \in [Workers ->
       [pc : Steps, ids : SUBSET Intents,   \* the entries it is settling
        seen : Row, hash : Hash,            \* the row it read; the hash it was told
        from : {"absent", "broadcasting", "failed"},   \* status as the pass listed it
        old : BOOLEAN]]                     \* not written since the cutoff of its pass
  /\ pay \in [Payers ->
       [pc : {"idle", "send", "confirm", "fail", "ok", "failed", "pending", "conflict", "dead"},
        id : Ids, hash : Hash]]

Init ==
  /\ mode \in {"mock", "arc"} /\ cast \in Casts
  /\ status = "running"
  /\ log = [i \in Ids |-> [status |-> "absent", hash |-> 0]]
  /\ row = NoRow /\ chain = <<>>
  /\ wk = [w \in Workers |-> Idle]
  /\ pay = [p \in Payers |-> [pc |-> "idle", id |-> CHOOSE i \in Ids : TRUE, hash |-> 0]]
-----------------------------------------------------------------------------
Pending == {i \in Intents : log[i].status = "pending"}
\* Fault: one page of them, which is too short.
ShortPage(ids) == {i \in ids : \A j \in ids : i = CHOOSE k \in ids : TRUE}
\* The pages have 200 rows (500 in settlementEntries), and an agent makes at most
\* MAX_PAID_TOOL_CALLS = 3 paid calls: a page has all of them.
Page(ids) == ids

\* Fault: a failed settlement is sent again although its hash is known.
AnyFailed(r) == r.status = "failed" /\ ~r.manual
\* autoRetryableFailedCondition
AutoRetryable(r) == r.status = "failed" /\ ~r.manual /\ r.hash = 0

\* A pass goes on with the confirmed rows when it is done with the others.
After(w) == IF wk[w].from = "absent" THEN "done" ELSE "sweep"

Goto(w, pc)   == wk' = [wk EXCEPT ![w].pc = pc]
Holding(w, r, pc) == wk' = [wk EXCEPT ![w].pc = pc, ![w].seen = r]
\* An UPDATE of the settlement row by w makes it recent for every pass.
Update(w, r, next) ==
  /\ row' = r
  /\ wk' = [u \in Workers |-> IF u = w THEN [next EXCEPT !.old = FALSE]
                              ELSE [wk[u] EXCEPT !.old = FALSE]]

\* Fault: the entries that were claimed first stay those of the row.
ClaimedFirst(r, ids) == [status |-> "broadcasting", ids |-> r.ids \union ids, hash |-> 0,
                         manual |-> FALSE]
Claimed(r, ids) == [status |-> "broadcasting", ids |-> ids, hash |-> 0, manual |-> FALSE]

\* markResearchSettlementConfirmed and -Failed write every entry, whatever its status.
MarkLog(ids, st, h) ==
  log' = [i \in Ids |-> IF i \in ids THEN [status |-> st, hash |-> h] ELSE log[i]]

\* Fault: a status the readers do not know.
BookedPaid == "paid"
Booked == IF mode = "mock" THEN "mock" ELSE "confirmed"
-----------------------------------------------------------------------------
\* runResearchAgent, as far as payments go. The claim of the runner is kept in the
\* memory of a process, so every process may run one.
AgentStarts(a) == /\ a \in cast /\ wk[a].pc = "idle" /\ status = "running"
                  /\ Goto(a, "run")
                  /\ UNCHANGED <<mode, cast, status, log, row, chain, pay>>

\* recordResearchPaymentIntent: an id whose entry exists returns it.
Intend(a) == /\ wk[a].pc = "run"
             /\ \E i \in IntentsOf[a] :
                  /\ log[i].status = "absent"
                  /\ log' = [log EXCEPT ![i].status = "pending"]
             /\ UNCHANGED <<mode, cast, status, row, chain, wk, pay>>

\* completeIfRunning, or the catch block: who ends the research settles, unless it
\* failed before it called any tool, and so does an agent whose research was cancelled,
\* if the abort reached it.
AgentEnds(a) ==
  /\ wk[a].pc = "run"
  /\ \/ status = "running" /\ status' \in {"completed", "failed"} /\ Goto(a, "list")
     \/ /\ status = "running" /\ status' = "failed"
        /\ \A i \in IntentsOf[a] : log[i].status = "absent"
        /\ Goto(a, "lost")
     \/ status = "cancelled" /\ UNCHANGED status /\ (Goto(a, "list") \/ Goto(a, "lost"))
     \/ status \in {"completed", "failed"} /\ UNCHANGED status /\ Goto(a, "lost")
  /\ UNCHANGED <<mode, cast, log, row, chain, pay>>

CancelRoute == /\ status = "running" /\ status' = "cancelled"
               /\ UNCHANGED <<mode, cast, log, row, chain, wk, pay>>

\* settleResearchPayments: what is pending ...
ListPending(w) ==
  /\ wk[w].pc = "list"
  /\ wk' = [wk EXCEPT ![w].pc = IF Pending = {} THEN "done" ELSE "claim",
                      ![w].ids = Page(Pending)]
  /\ UNCHANGED <<mode, cast, status, log, row, chain, pay>>

\* ... claimResearchSettlement: the insert, else a read, else an update on condition.
ClaimInsert(w) ==
  /\ wk[w].pc = "claim"
  /\ IF row.status = "absent"
     THEN Update(w, Claimed(row, wk[w].ids), [wk[w] EXCEPT !.pc = "send"])
     ELSE Goto(w, "find") /\ UNCHANGED row
  /\ UNCHANGED <<mode, cast, status, log, chain, pay>>

ClaimFind(w) ==
  /\ wk[w].pc = "find"
  /\ Holding(w, row, IF AutoRetryable(row) THEN "reclaim" ELSE "existing")
  /\ UNCHANGED <<mode, cast, status, log, row, chain, pay>>

ClaimUpdate(w) ==
  /\ wk[w].pc = "reclaim"
  /\ IF AutoRetryable(row)
     THEN Update(w, Claimed(row, wk[w].ids), [wk[w] EXCEPT !.pc = "send", !.seen = NoRow])
     ELSE Goto(w, "existing") /\ UNCHANGED row
  /\ UNCHANGED <<mode, cast, status, log, chain, pay>>

\* What an existing settlement, as it was read, calls for.
Existing(w) ==
  /\ wk[w].pc = "existing"
  /\ LET s == wk[w].seen IN
       wk' = CASE s.status = "failed" /\ ~s.manual /\ s.hash # 0 ->
                    [wk EXCEPT ![w].pc = "manual"]
               [] s.status = "confirmed" -> [wk EXCEPT ![w].pc = "reconcile"]
               [] s.status = "broadcasting" /\ s.hash # 0 ->
                    [wk EXCEPT ![w].pc = "persisted", ![w].ids = s.ids]
               [] OTHER -> [wk EXCEPT ![w] = [Idle EXCEPT !.pc = "done"]]
  /\ UNCHANGED <<mode, cast, status, log, row, chain, pay>>
-----------------------------------------------------------------------------
\* recordArcPayload: accepted and found in a block, reverted, or not seen there in
\* time; or the call fails, before the node has the transaction or after.
Sent(items, ok, told) == chain' = Append(chain, [items |-> items, ok |-> ok, told |-> told])
Send(w) ==
  /\ wk[w].pc = "send"
  /\ \/ /\ Len(chain) < MaxSends /\ Sent(wk[w].ids, TRUE, TRUE)
        /\ wk' = [wk EXCEPT ![w].pc = "receipt", ![w].hash = Len(chain) + 1]
     \/ /\ Len(chain) < MaxSends /\ mode = "arc"
        /\ \E ok \in BOOLEAN : Sent(wk[w].ids, ok, TRUE)
        /\ wk' = [wk EXCEPT ![w].pc = "fail", ![w].hash = Len(chain) + 1]
     \/ /\ Len(chain) < MaxSends /\ mode = "arc"
        /\ Sent(wk[w].ids, TRUE, FALSE) /\ Goto(w, "fail")
     \/ mode = "arc" /\ Goto(w, "fail") /\ UNCHANGED chain
  /\ UNCHANGED <<mode, cast, status, log, row, pay>>

\* failSettlement with the hash the error carries; then the entries.
FailRow(w) ==
  /\ wk[w].pc = "fail"
  /\ Update(w, [row EXCEPT !.status = "failed", !.hash = wk[w].hash, !.manual = FALSE],
            [wk[w] EXCEPT !.pc = "markFailed"])
  /\ UNCHANGED <<mode, cast, status, log, chain, pay>>
MarkFailed(w) ==
  /\ wk[w].pc = "markFailed" /\ MarkLog(wk[w].ids, "failed", wk[w].hash)
  /\ wk' = [wk EXCEPT ![w] = [Idle EXCEPT !.pc = After(w)]]
  /\ UNCHANGED <<mode, cast, status, row, chain, pay>>

\* recordSettlementReceipt keeps the status; confirmSettlement does not look at it.
RecordReceipt(w) ==
  /\ wk[w].pc = "receipt"
  /\ Update(w, [row EXCEPT !.hash = wk[w].hash, !.manual = FALSE],
            [wk[w] EXCEPT !.pc = "confirm"])
  /\ UNCHANGED <<mode, cast, status, log, chain, pay>>
ConfirmRow(w) ==
  /\ wk[w].pc = "confirm"
  /\ Update(w, [row EXCEPT !.status = "confirmed", !.hash = wk[w].hash, !.manual = FALSE],
            [wk[w] EXCEPT !.pc = "mark"])
  /\ UNCHANGED <<mode, cast, status, log, chain, pay>>
\* The entries take the status of the receipt; of a persisted one, "confirmed".
MarkConfirmed(w) ==
  /\ wk[w].pc = "mark"
  /\ MarkLog(wk[w].ids, IF wk[w].seen = NoRow THEN Booked ELSE "confirmed", wk[w].hash)
  /\ wk' = [wk EXCEPT ![w] = [Idle EXCEPT !.pc = After(w)]]
  /\ UNCHANGED <<mode, cast, status, row, chain, pay>>

\* confirmSettlementFromPersistedReceipt: without a hash, a person has to look.
Persisted(w) ==
  /\ wk[w].pc = "persisted"
  /\ IF wk[w].seen.hash = 0 THEN Goto(w, "manual")
     ELSE wk' = [wk EXCEPT ![w].pc = "confirm", ![w].hash = wk[w].seen.hash]
  /\ UNCHANGED <<mode, cast, status, log, row, chain, pay>>
\* markSettlementNeedsManualRecovery writes the hash as it was read.
NeedsManual(w) ==
  /\ wk[w].pc = "manual"
  /\ Update(w, [row EXCEPT !.status = "failed", !.hash = wk[w].seen.hash, !.manual = TRUE],
            [Idle EXCEPT !.pc = After(w)])
  /\ UNCHANGED <<mode, cast, status, log, chain, pay>>

\* reconcileResearchSettlement: the row is read again, and it throws if it is not
\* confirmed any more.
Reconcile(w) ==
  /\ wk[w].pc = "reconcile"
  /\ IF row.status = "confirmed" /\ row.hash # 0
     THEN wk' = [wk EXCEPT ![w].pc = "mark", ![w].ids = row.ids, ![w].seen = row,
                           ![w].hash = row.hash]
     ELSE wk' = [wk EXCEPT ![w] = [Idle EXCEPT !.pc = "done"]]
  /\ UNCHANGED <<mode, cast, status, log, row, chain, pay>>
-----------------------------------------------------------------------------
\* retryResearchSettlements: failed rows that may be sent again, and broadcasts whose
\* row was not written since the cutoff.
RetryList(w) ==
  /\ w \in cast /\ wk[w].pc = "idle"
  /\ \E old \in BOOLEAN :
       LET listed == AutoRetryable(row) \/ (row.status = "broadcasting" /\ old) IN
       wk' = [wk EXCEPT ![w].pc = IF listed THEN "listed" ELSE "sweep",
                        ![w].from = IF listed THEN row.status ELSE "absent",
                        ![w].old = listed /\ old]
  /\ UNCHANGED <<mode, cast, status, log, row, chain, pay>>

\* claimRetryableSettlement: a read, and an update on condition.
RetryFind(w) ==
  /\ wk[w].pc = "listed"
  /\ Holding(w, row, IF row.status = "failed" /\ ~AutoRetryable(row) THEN "sweep" ELSE "retry")
  /\ UNCHANGED <<mode, cast, status, log, row, chain, pay>>

Retryable(w, r) == AutoRetryable(r) \/ (r.status = "broadcasting" /\ wk[w].old)
Retaken(r, seen) == IF seen.status = "failed" THEN Claimed(r, r.ids)
                    ELSE [r EXCEPT !.status = "broadcasting", !.manual = FALSE]
RetryClaim(w) ==
  /\ wk[w].pc = "retry"
  /\ IF Retryable(w, row)
     THEN LET r == Retaken(row, wk[w].seen)
              broadcasts == wk[w].from = "failed"
          IN  Update(w, r, [wk[w] EXCEPT !.ids = r.ids, !.seen = IF broadcasts THEN NoRow ELSE r,
                              !.pc = IF broadcasts THEN "send" ELSE "persisted"])
     ELSE /\ Goto(w, IF wk[w].seen.status = "confirmed" THEN "reconcile" ELSE "sweep")
          /\ UNCHANGED row
  /\ UNCHANGED <<mode, cast, status, log, chain, pay>>

\* The confirmed rows whose entries do not say so.
NeedsReconcile == \E i \in row.ids : log[i] # [status |-> "confirmed", hash |-> row.hash]
Sweep(w) ==
  /\ wk[w].pc = "sweep"
  /\ IF row.status = "confirmed" /\ row.hash # 0 /\ NeedsReconcile
     THEN wk' = [wk EXCEPT ![w].pc = "reconcile", ![w].from = "absent"]
     ELSE wk' = [wk EXCEPT ![w] = [Idle EXCEPT !.pc = "done"]]
  /\ UNCHANGED <<mode, cast, status, log, row, chain, pay>>
\* The next pass.
RetryAgain(w) == /\ w \in Retriers /\ wk[w].pc \in {"done", "dead"} /\ wk' = [wk EXCEPT ![w] = Idle]
                 /\ UNCHANGED <<mode, cast, status, log, row, chain, pay>>
-----------------------------------------------------------------------------
\* recordPaymentReceipt of a paid call: claimRequest, then the transaction, then
\* updateReceipt. The scope of an id is who uses it: a research's intents, or one API.
PayClaim(p) ==
  /\ p \in cast /\ pay[p].pc = "idle"
  /\ \E i \in Ids :
       LET st == log[i].status IN
       IF st = "absent"
       THEN /\ i \in Directs
            /\ log' = [log EXCEPT ![i].status = "pending"]
            /\ pay' = [pay EXCEPT ![p].pc = "send", ![p].id = i]
       ELSE /\ UNCHANGED log
            /\ pay' = [pay EXCEPT ![p].id = i, ![p].pc =
                 CASE i \in Intents -> "conflict" [] st = "pending" -> "pending"
                   [] st = "failed" -> "failed"   [] OTHER -> "ok"]
  /\ UNCHANGED <<mode, cast, status, row, chain, wk>>

PaySend(p) ==
  /\ pay[p].pc = "send"
  /\ \/ /\ Len(chain) < MaxSends /\ Sent({pay[p].id}, TRUE, TRUE)
        /\ pay' = [pay EXCEPT ![p].pc = "confirm", ![p].hash = Len(chain) + 1]
     \/ /\ Len(chain) < MaxSends /\ mode = "arc"
        /\ \E ok \in BOOLEAN : Sent({pay[p].id}, ok, TRUE)
        /\ pay' = [pay EXCEPT ![p].pc = "fail", ![p].hash = Len(chain) + 1]
     \/ /\ Len(chain) < MaxSends /\ mode = "arc" /\ Sent({pay[p].id}, TRUE, FALSE)
        /\ pay' = [pay EXCEPT ![p].pc = "fail"]
     \/ mode = "arc" /\ pay' = [pay EXCEPT ![p].pc = "fail"] /\ UNCHANGED chain
  /\ UNCHANGED <<mode, cast, status, log, row, wk>>

\* The catch block also takes up a receipt that could not be written: the error of the
\* database carries no hash.
PayRecord(p) ==
  /\ pay[p].pc \in {"confirm", "fail"}
  /\ \E ok \in BOOLEAN :
       /\ ok => pay[p].pc = "confirm"
       /\ MarkLog({pay[p].id}, IF ok THEN Booked ELSE "failed",
                  IF ~ok /\ pay[p].pc = "confirm" THEN 0 ELSE pay[p].hash)
       /\ pay' = [pay EXCEPT ![p].pc = IF ok THEN "ok" ELSE "failed"]
  /\ UNCHANGED <<mode, cast, status, row, chain, wk>>

\* A process dies; what it awaited is never seen. So does a failed database call end
\* a settlement: nothing catches it.
Crash(w) == /\ wk[w].pc \notin {"idle", "lost", "done", "dead"}
            /\ wk' = [wk EXCEPT ![w] = [Idle EXCEPT !.pc = "dead"]]
            /\ UNCHANGED <<mode, cast, status, log, row, chain, pay>>
CrashPayer(p) == /\ pay[p].pc \in {"send", "confirm", "fail"}
                 /\ pay' = [pay EXCEPT ![p].pc = "dead"]
                 /\ UNCHANGED <<mode, cast, status, log, row, chain, wk>>

Agent(a)  == AgentStarts(a) \/ Intend(a) \/ AgentEnds(a) \/ ListPending(a)
             \/ ClaimInsert(a) \/ ClaimFind(a) \/ ClaimUpdate(a) \/ Existing(a)
Settle(w) == \/ Send(w) \/ FailRow(w) \/ MarkFailed(w) \/ RecordReceipt(w)
             \/ ConfirmRow(w) \/ MarkConfirmed(w) \/ Persisted(w) \/ NeedsManual(w)
             \/ Reconcile(w) \/ Crash(w)
Retry(w)  == RetryList(w) \/ RetryFind(w) \/ RetryClaim(w) \/ Sweep(w) \/ RetryAgain(w)
Pay(p)    == PayClaim(p) \/ PaySend(p) \/ PayRecord(p) \/ CrashPayer(p)

Next == \/ \E a \in Agents : Agent(a)
        \/ \E w \in Workers : Settle(w)
        \/ \E w \in Retriers : Retry(w)
        \/ \E p \in Payers : Pay(p)
        \/ CancelRoute

Spec == Init /\ [][Next]_vars
-----------------------------------------------------------------------------
\* Two workers, a crash or a lost answer never anchor a research twice once somebody
\* was told the hash of its transaction; and nobody anchors an entry of a paid call
\* twice at all.
NoRebroadcast ==
  \A i, j \in DOMAIN chain : i < j
    => /\ chain[i].told /\ chain[i].items \subseteq Intents => ~(chain[j].items \subseteq Intents)
       /\ ~(\E d \in Directs : chain[i].items = {d} /\ chain[j].items = {d})

\* At most one worker is between the claim of the settlement and the answer of the
\* chain, whatever was declared stale in between.
Sending == {w \in Workers : wk[w].pc \in {"send", "receipt", "fail"}}
OneSender == Cardinality(Sending) <= 1

\* Both: the anchors of a research do not race, and are not repeated.
AnchoredOnce == NoRebroadcast /\ OneSender

\* What is shown as paid was paid: an entry that is booked carries the hash of a
\* transaction that succeeded and that lists it, and so does the settlement row for
\* exactly its entries.
BooksMatchChain ==
  /\ \A i \in Ids : log[i].status \in {"mock", "confirmed"}
       => log[i].hash # 0 /\ chain[log[i].hash].ok /\ i \in chain[log[i].hash].items
  /\ row.status = "confirmed"
       => row.hash # 0 /\ chain[row.hash].ok /\ chain[row.hash].items = row.ids

\* The settlement of a lone agent forgets nothing: after it, unless its process died,
\* no intent is pending, and a failed one is in the row that retry passes look at.
LoneAgentForgetsNothing ==
  \A a \in Agents :
    wk[a].pc = "done" /\ (\A b \in Agents \ {a} : wk[b].pc = "idle")
      => Pending = {} /\ \A i \in Intents : log[i].status = "failed" => i \in row.ids
=============================================================================
