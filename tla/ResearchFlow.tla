----------------------------- MODULE ResearchFlow -----------------------------
(* One escrow-funded research from its prepared record to the close of its      *)
(* finances: the record, its five outbox operations, the workers that handle    *)
(* them, the funding-expiry job, the buyer's start and cancel, the operator's   *)
(* recovery, and what they see of the chain. The outbox is taken as what        *)
(* WorkflowOutbox shows of it: an operation has at most one holder that passes  *)
(* the fence, leases end at any time, and the fence equals the number of claims.*)
EXTENDS Naturals, ResearchLifecycle

CONSTANTS
  Workers,
  MaxAttempts,
  AgentOwnsStatus,  \* TRUE: runResearchAgent, which writes the status itself;
                    \* FALSE: an agent that only yields events
  PaysEscrow,       \* the agent runs with an escrow payment context
  Recoverable,      \* the operations the operator requeues
  MaxClaims         \* bound of the exploration: claims of each operation

ASSUME FlowAssumption ==
  /\ MaxAttempts \in Nat \ {0}
  /\ AgentOwnsStatus \in BOOLEAN /\ PaysEscrow \in BOOLEAN

VARIABLES
  life,      \* the research record
  quota,     \* its share of the quota bucket: [reserved, used]
  op,        \* outbox rows by operation type
  intent,    \* its payment intent: "none" | "pending" | "confirmed"
  chain,     \* external. The escrow: "none" | "funded" | "active"
  sent,      \* external. An activation transaction is in the mempool
  paid,      \* external. The settlement batch was executed
  time,      \* against the funding deadline: "before" | "at" | "after"
  wk,        \* worker processes
  expiry,    \* the funding-expiry job
  rescue     \* the operator's recovery request

vars   == <<life, quota, op, intent, chain, sent, paid, time, wk, expiry, rescue>>
ledger == <<quota, intent>>
world  == <<chain, sent, paid, time>>
jobs   == <<expiry, rescue>>

Types  == {"ACTIVATE", "RUN", "SETTLE", "RECONCILE", "CLOSE"}
Op     == [phase : {"absent", "live", "succeeded", "manual"}, fence : Nat,
           leased : BOOLEAN, tx : BOOLEAN]
NoOp   == [phase |-> "absent", fence |-> 0, leased |-> FALSE, tx |-> FALSE]

Steps  == {"idle", "start", "throw", "manual", "park", "finish",
           "probe", "submit", "record", "confirm", "finalize",
           "fail_run", "checkpoint", "agent", "pay", "report", "close",
           "submit_batch", "mark", "record_batch", "enqueue_close"}
Worker == [pc : Steps, type : Types, op : Op, seen : Life, owed : BOOLEAN]
Resting == [pc |-> "idle", type |-> "ACTIVATE", op |-> NoOp, seen |-> Prepared,
            owed |-> FALSE]
NoCheck   == [pc |-> "idle", seen |-> Prepared]
NoRequest == [pc |-> "idle", seen |-> Prepared, to |-> "closing"]

TypeOK ==
  /\ life \in Life /\ quota \in [reserved : 0..1, used : 0..1]
  /\ op \in [Types -> Op] /\ intent \in {"none", "pending", "confirmed"}
  /\ chain \in {"none", "funded", "active"} /\ sent \in BOOLEAN
  /\ paid \in BOOLEAN /\ time \in {"before", "at", "after"}
  /\ wk \in [Workers -> Worker]
  /\ expiry \in [pc : {"idle", "ask", "start", "expire"}, seen : Life]
  /\ rescue \in [pc : {"idle", "read", "cas"}, seen : Life,
                 to : {"closing", "closed"}]

\* prepare has created the record and reserved its quota.
Init ==
  /\ life = Prepared /\ quota = [reserved |-> 1, used |-> 0]
  /\ op = [t \in Types |-> NoOp] /\ intent = "none"
  /\ chain = "none" /\ sent = FALSE /\ paid = FALSE /\ time = "before"
  /\ wk = [w \in Workers |-> Resting]
  /\ expiry = NoCheck /\ rescue = NoRequest

-----------------------------------------------------------------------------
\* claimOperation by a caller that enqueues.
Claimable(t) == /\ op[t].phase = "live" /\ ~op[t].leased
                /\ op[t].fence < MaxClaims[t]
Taken(o)     == [o EXCEPT !.fence = @ + 1, !.leased = TRUE]
Enqueued(t)  == IF op[t].phase = "absent"
                THEN [NoOp EXCEPT !.phase = "live", !.fence = 1, !.leased = TRUE]
                ELSE IF Claimable(t) THEN Taken(op[t]) ELSE op[t]
Enqueue(S)   == op' = [t \in Types |-> IF t \in S THEN Enqueued(t) ELSE op[t]]

\* Fault: the record is not compared.
CanMoveUnseen(expected, patch) == Allowed(expected, patch)

\* The conditional update of the whole record: all four dimensions are compared.
CanMove(expected, patch) == life = expected /\ Allowed(life, patch)
Move(patch)              == life' = Patched(life, patch)

\* Faults: the record is not compared; the status is written without the
\* finalization; the closing operations are left out.
CanSettleFundingUnseen(expected, patch) == Allowed(expected, patch)
FinishAlone(status, S) == /\ life' = Patched(life, [status |-> status,
                                                    finalization |-> "closing"])
                          /\ S # {} /\ UNCHANGED op
WriteStatusAlone(status) == life' = [life EXCEPT !.status = status]

\* completeFundingExpiry: the record, its quota and RUN in one transaction.
CanSettleFunding(expected, patch) ==
  /\ CanMove(expected, patch)
  /\ life.quota \in {"reserved", "activating"}
Activated == [status |-> "running", activation |-> "active",
              finalization |-> "open", quota |-> "consumed"]
Lapsed    == [status |-> "funding_expired", activation |-> "expired",
              quota |-> "released"]

StartRunning ==
  /\ Move(Activated) /\ Enqueue({"RUN"})
  /\ quota' = [reserved |-> quota.reserved - 1, used |-> quota.used + 1]

\* requestFinalization: the record and its closing operations in one transaction.
Ending(status) == [status |-> status, finalization |-> "closing"]
Finish(status, S) == Move(Ending(status)) /\ Enqueue(S)

\* updateStatusIfCurrent and completeIfRunning write the status alone.
WriteStatus(status) ==
  life' = [life EXCEPT !.status = status, !.finalization = "closing"]

\* The fence test of every write to the operation of w.
Holds(w) == LET o == op[wk[w].type]
            IN  o.phase = "live" /\ o.leased /\ o.fence = wk[w].op.fence
Rest(w)       == wk' = [wk EXCEPT ![w] = Resting]
Goto(w, pc)   == wk' = [wk EXCEPT ![w] =
                          IF pc = "idle" THEN Resting ELSE [@ EXCEPT !.pc = pc]]
Step(w, t, pc) == wk[w].type = t /\ wk[w].pc = pc
Write(w, field, value) == op' = [op EXCEPT ![wk[w].type][field] = value]

-----------------------------------------------------------------------------
\* What the outside answers: never wrong, and silent as long as it likes.
\* confirmActivation finds no activation; or finds one, or cannot tell.
Confirmations == IF chain = "active" THEN {"active", "unknown"}
                 ELSE IF sent /\ time # "after" THEN {"unknown"}
                 ELSE {"not_active", "unknown"}
\* reconcileActivation says not_active only once no activation can take effect.
Reconciliations == IF chain = "active" THEN {"active", "unknown"}
                   ELSE IF time = "after" THEN {"not_active", "unknown"}
                   ELSE {"unknown"}
\* recoverSettlement
Recoveries == {"unknown"} \union (IF paid THEN {"processed"} ELSE {"absent"})

Tick == /\ time # "after" /\ time' = IF time = "before" THEN "at" ELSE "after"
        /\ UNCHANGED <<life, ledger, op, chain, sent, paid, wk, jobs>>

\* The buyer funds the escrow and the record is marked funded.
Fund == /\ life = Prepared /\ chain = "none" /\ time = "before"
        /\ Move([activation |-> "funded"]) /\ chain' = "funded"
        /\ UNCHANGED <<ledger, op, sent, paid, time, wk, jobs>>

\* activate on chain: up to and including the deadline.
Land == /\ sent /\ chain = "funded" /\ time # "after"
        /\ chain' = "active"
        /\ UNCHANGED <<life, ledger, op, sent, paid, time, wk, jobs>>

-----------------------------------------------------------------------------
\* POST /api/research/start
Start ==
  /\ CanMove([Prepared EXCEPT !.activation = "funded"],
             [activation |-> "activating", quota |-> "activating"])
  /\ time = "before"
  /\ Move([activation |-> "activating", quota |-> "activating"])
  /\ Enqueue({"ACTIVATE"})
  /\ UNCHANGED <<ledger, world, wk, jobs>>

\* POST /api/research/[id]/cancel
Cancel ==
  /\ life.status = "running"
  /\ IF life = Open THEN Finish("cancelled", {"CLOSE"})
     ELSE WriteStatus("cancelled") /\ UNCHANGED op
  /\ UNCHANGED <<ledger, world, wk, jobs>>

\* handleFundingExpiry: read the record, ask the chain, write if nothing changed.
ExpiryRead ==
  /\ expiry.pc = "idle" /\ life.status = "funding" /\ time # "before"
  /\ expiry' = [pc |-> "ask", seen |-> life]
  /\ UNCHANGED <<life, ledger, op, world, wk, rescue>>

ExpiryAsk ==
  /\ expiry.pc = "ask"
  /\ \E answer \in Reconciliations :
       expiry' =
         CASE answer = "not_active" -> [expiry EXCEPT !.pc = "expire"]
           [] answer = "active" /\ expiry.seen.activation = "activating"
                                /\ expiry.seen.quota = "activating"
                -> [expiry EXCEPT !.pc = "start"]
           [] OTHER -> NoCheck
  /\ UNCHANGED <<life, ledger, op, world, wk, rescue>>

ExpiryWrite ==
  /\ expiry' = NoCheck
  /\ \/ /\ expiry.pc = "start"
        /\ IF CanSettleFunding(expiry.seen, Activated)
           THEN StartRunning ELSE UNCHANGED <<life, quota, op>>
     \/ /\ expiry.pc = "expire"
        /\ IF CanSettleFunding(expiry.seen, Lapsed)
           THEN Move(Lapsed) /\ quota' = [quota EXCEPT !.reserved = @ - 1]
           ELSE UNCHANGED <<life, quota>>
        /\ UNCHANGED op
  /\ UNCHANGED <<intent, world, wk, rescue>>

\* recoverManualWorkflowOperation: the row, then a read of the record, then its
\* update. mark_closed needs a CLOSE with a recorded transaction.
Recover(t) ==
  /\ rescue.pc = "idle" /\ t \in Recoverable /\ op[t].phase = "manual"
  /\ \E to \in {"closing", "closed"} :
       /\ to = "closed" => t = "CLOSE" /\ op[t].tx
       /\ op' = [op EXCEPT ![t].phase =
                   IF to = "closing" THEN "live" ELSE "succeeded"]
       /\ rescue' = [rescue EXCEPT !.pc = "read", !.to = to]
  /\ UNCHANGED <<life, ledger, world, wk, expiry>>

RecoverRead ==
  /\ rescue.pc = "read" /\ rescue' = [rescue EXCEPT !.pc = "cas", !.seen = life]
  /\ UNCHANGED <<life, ledger, op, world, wk, expiry>>

RecoverWrite ==
  /\ rescue.pc = "cas" /\ rescue' = NoRequest
  /\ IF CanMove(rescue.seen, [finalization |-> rescue.to])
     THEN Move([finalization |-> rescue.to]) ELSE UNCHANGED life
  /\ UNCHANGED <<ledger, op, world, wk, expiry>>
-----------------------------------------------------------------------------
\* processDueWorkflowOperations: claim, dispatch, and the catch block.
LeaseEnds(t) ==
  /\ op[t].leased /\ op' = [op EXCEPT ![t].leased = FALSE]
  /\ UNCHANGED <<life, ledger, world, wk, jobs>>

Claim(w) ==
  /\ wk[w].pc = "idle"
  /\ \E t \in Types :
       /\ Claimable(t)
       /\ op' = [op EXCEPT ![t] = Taken(op[t])]
       /\ wk' = [wk EXCEPT ![w] = [Resting EXCEPT !.pc = "start", !.type = t,
                                                  !.op = Taken(op[t])]]
  /\ UNCHANGED <<life, ledger, world, jobs>>

\* A database error in a handler; a worker process that dies.
Fault(w) ==
  /\ wk[w].pc \notin {"idle", "throw", "manual", "park"} /\ Goto(w, "throw")
  /\ UNCHANGED <<life, ledger, op, world, jobs>>
Crash(w) ==
  /\ wk[w].pc # "idle" /\ Rest(w)
  /\ UNCHANGED <<life, ledger, op, world, jobs>>

Throw(w) ==
  /\ wk[w].pc = "throw"
  /\ IF ~Holds(w) THEN Rest(w) /\ UNCHANGED op
     ELSE IF wk[w].op.fence >= MaxAttempts
     THEN /\ op' = [op EXCEPT ![wk[w].type].phase = "manual",
                              ![wk[w].type].leased = FALSE]
          /\ Goto(w, "manual")
     ELSE Write(w, "leased", FALSE) /\ Rest(w)
  /\ UNCHANGED <<life, ledger, world, jobs>>

\* onManual: read the record, then update it.
Manual(w) ==
  /\ wk[w].pc = "manual"
  /\ IF life.finalization = "closing"
     THEN wk' = [wk EXCEPT ![w].pc = "park", ![w].seen = life] ELSE Rest(w)
  /\ UNCHANGED <<life, ledger, op, world, jobs>>
Park(w) ==
  /\ wk[w].pc = "park" /\ Rest(w)
  /\ IF CanMove(wk[w].seen, [finalization |-> "manual"])
     THEN Move([finalization |-> "manual"]) ELSE UNCHANGED life
  /\ UNCHANGED <<ledger, op, world, jobs>>

\* complete
Complete(w) ==
  /\ wk[w].pc = "finish" /\ Rest(w)
  /\ IF Holds(w)
     THEN op' = [op EXCEPT ![wk[w].type].phase = "succeeded",
                           ![wk[w].type].leased = FALSE]
     ELSE UNCHANGED op
  /\ UNCHANGED <<life, ledger, world, jobs>>
-----------------------------------------------------------------------------
\* ACTIVATE: processActivationOperation
Activating == life.status = "funding" /\ life.activation = "activating"
                                      /\ life.quota = "activating"
AlreadyActive == /\ life.activation = "active" /\ life.quota = "consumed"
                 /\ \/ life.status = "running" /\ life.finalization = "open"
                       /\ op["RUN"].phase # "absent"
                    \/ life.status = "cancelled" /\ life.finalization = "closing"

ActivateStart(w) ==
  /\ Step(w, "ACTIVATE", "start")
  /\ IF Activating
     THEN wk' = [wk EXCEPT ![w].seen = life,
                           ![w].pc = IF wk[w].op.tx THEN "confirm" ELSE "probe"]
     ELSE Goto(w, IF AlreadyActive THEN "finish" ELSE "idle")
  /\ UNCHANGED <<life, ledger, op, world, jobs>>

Probe(w) ==
  /\ wk[w].pc = "probe"
  /\ \E answer \in Confirmations :
       Goto(w, CASE answer = "active"     -> "finalize"
                 [] answer = "not_active" -> "submit"
                 [] OTHER                 -> "idle")
  /\ UNCHANGED <<life, ledger, op, world, jobs>>

\* The transaction goes out; or there is no payload or the broadcast fails, and
\* the lease is given back.
SubmitActivation(w) ==
  /\ wk[w].pc = "submit"
  /\ \/ sent' = TRUE /\ Goto(w, "record") /\ UNCHANGED op
     \/ /\ IF Holds(w) THEN Write(w, "leased", FALSE) ELSE UNCHANGED op
        /\ Rest(w) /\ UNCHANGED sent
  /\ UNCHANGED <<life, ledger, chain, paid, time, jobs>>

RecordActivation(w) ==
  /\ wk[w].pc = "record"
  /\ IF Holds(w) THEN Write(w, "tx", TRUE) /\ Goto(w, "confirm")
     ELSE UNCHANGED op /\ Rest(w)
  /\ UNCHANGED <<life, ledger, world, jobs>>

\* Fault: a broadcast counts as a confirmation.
ConfirmSent(w) ==
  /\ wk[w].pc = "confirm" /\ Goto(w, "finalize")
  /\ UNCHANGED <<life, ledger, op, world, jobs>>

Confirm(w) ==
  /\ wk[w].pc = "confirm"
  /\ \E answer \in Confirmations :
       Goto(w, IF answer = "active" THEN "finalize" ELSE "idle")
  /\ UNCHANGED <<life, ledger, op, world, jobs>>

FinalizeActivation(w) ==
  /\ wk[w].pc = "finalize"
  /\ IF CanSettleFunding(wk[w].seen, Activated)
     THEN StartRunning /\ Goto(w, "finish")
     ELSE UNCHANGED <<life, quota, op>> /\ Rest(w)
  /\ UNCHANGED <<intent, world, jobs>>
-----------------------------------------------------------------------------
\* RUN: processClaimedRunOperation. A reclaimed run with an intent is not rerun.
RunStart(w) ==
  /\ Step(w, "RUN", "start")
  /\ IF ~Holds(w) THEN Rest(w)
     ELSE Goto(w, IF wk[w].op.fence > 1 /\ intent # "none"
                  THEN "fail_run" ELSE "checkpoint")
  /\ UNCHANGED <<life, ledger, op, world, jobs>>

FailReclaimedRun(w) ==
  /\ wk[w].pc = "fail_run"
  /\ IF CanMove(Open, Ending("failed"))
     THEN Finish("failed", {"CLOSE"}) /\ Goto(w, "finish")
     ELSE UNCHANGED <<life, op>> /\ Rest(w)
  /\ UNCHANGED <<ledger, world, jobs>>

Checkpoint(w) ==
  /\ wk[w].pc = "checkpoint"
  /\ IF Holds(w) THEN Goto(w, "agent") ELSE Rest(w)
  /\ UNCHANGED <<life, ledger, op, world, jobs>>

\* Between two events of the agent the worker looks at its lease.
Stale(w) ==
  /\ wk[w].pc = "agent" /\ ~Holds(w) /\ Rest(w)
  /\ UNCHANGED <<life, ledger, op, world, jobs>>

\* The agent: executeTool asks whether an intent is allowed, then records it
\* (once per tool ordinal).
AskToPay(w) ==
  /\ wk[w].pc = "agent" /\ PaysEscrow /\ Holds(w) /\ life = Open
  /\ Goto(w, "pay")
  /\ UNCHANGED <<life, ledger, op, world, jobs>>

Pay(w) ==
  /\ wk[w].pc = "pay" /\ Goto(w, "agent")
  /\ intent' = IF intent = "none" THEN "pending" ELSE intent
  /\ UNCHANGED <<life, quota, op, world, jobs>>

\* The agent ends with an error event, or without a final one.
AgentFails(w) ==
  /\ wk[w].pc = "agent" /\ Goto(w, "finish")
  /\ IF AgentOwnsStatus /\ life.status = "running"
     THEN \E status \in {"failed", "cancelled"} : WriteStatus(status)
     ELSE UNCHANGED life
  /\ UNCHANGED <<ledger, op, world, jobs>>

\* The agent has its report.
AgentReports(w) ==
  /\ wk[w].pc = "agent"
  /\ IF AgentOwnsStatus
     THEN IF life.status = "running"
          THEN WriteStatus("completed") /\ Goto(w, "report")
          ELSE UNCHANGED life /\ Goto(w, "finish")
     ELSE UNCHANGED life /\ Goto(w, "report")
  /\ UNCHANGED <<ledger, op, world, jobs>>

\* finalizeResearchReport: read the record and its intents, then write.
Report(w) ==
  /\ wk[w].pc = "report"
  /\ IF Holds(w)
     THEN wk' = [wk EXCEPT ![w].seen = life, ![w].owed = (intent # "none"),
                           ![w].pc = IF life = Open THEN "close" ELSE "finish"]
     ELSE Rest(w)
  /\ UNCHANGED <<life, ledger, op, world, jobs>>

CloseReport(w) ==
  /\ wk[w].pc = "close"
  /\ IF CanMove(wk[w].seen, Ending("completed"))
     THEN /\ Finish("completed", {"CLOSE"} \union
                      (IF wk[w].owed THEN {"SETTLE", "RECONCILE"} ELSE {}))
          /\ Goto(w, "finish")
     ELSE UNCHANGED <<life, op>> /\ Rest(w)
  /\ UNCHANGED <<ledger, world, jobs>>
-----------------------------------------------------------------------------
\* SETTLE and RECONCILE: processSettlementOperation; past the escrow's expiry it
\* throws. CLOSE has no handler: it throws.
\* Fault: a batch found on chain is recorded without confirming its intents.
SettleStartUnmarked(w) ==
  /\ wk[w].pc = "start" /\ wk[w].type \in {"SETTLE", "RECONCILE"}
  /\ \E answer \in Recoveries \union {"expired"} :
       Goto(w, CASE answer = "processed" -> "record_batch"
                 [] answer = "absent" /\ wk[w].type = "SETTLE" -> "submit_batch"
                 [] OTHER -> "throw")
  /\ UNCHANGED <<life, ledger, op, world, jobs>>

SettleStart(w) ==
  /\ wk[w].pc = "start" /\ wk[w].type \in {"SETTLE", "RECONCILE"}
  /\ \E answer \in Recoveries \union {"expired"} :
       Goto(w, CASE answer = "processed" -> "mark"
                 [] answer = "absent" /\ wk[w].type = "SETTLE" -> "submit_batch"
                 [] OTHER -> "throw")
  /\ UNCHANGED <<life, ledger, op, world, jobs>>

CloseStart(w) ==
  /\ Step(w, "CLOSE", "start") /\ Goto(w, "throw")
  /\ UNCHANGED <<life, ledger, op, world, jobs>>

\* settleEscrowResearchPayments: the pending intents go into one batch.
SubmitBatch(w) ==
  /\ wk[w].pc = "submit_batch" /\ intent = "pending" /\ ~paid
  /\ paid' = TRUE /\ Goto(w, "mark")
  /\ UNCHANGED <<life, ledger, op, chain, sent, time, jobs>>

MarkConfirmed(w) ==
  /\ wk[w].pc = "mark" /\ Goto(w, "record_batch")
  /\ intent' = IF intent = "pending" THEN "confirmed" ELSE intent
  /\ UNCHANGED <<life, quota, op, world, jobs>>

RecordBatch(w) ==
  /\ wk[w].pc = "record_batch"
  /\ IF Holds(w) THEN Write(w, "tx", TRUE) /\ Goto(w, "enqueue_close")
     ELSE UNCHANGED op /\ Goto(w, "throw")
  /\ UNCHANGED <<life, ledger, world, jobs>>

EnqueueClose(w) ==
  /\ wk[w].pc = "enqueue_close" /\ Enqueue({"CLOSE"}) /\ Goto(w, "finish")
  /\ UNCHANGED <<life, ledger, world, jobs>>
-----------------------------------------------------------------------------
Api      == Start \/ Cancel
Expiry   == ExpiryRead \/ ExpiryAsk \/ ExpiryWrite
Operator == (\E t \in Types : Recover(t)) \/ RecoverRead \/ RecoverWrite
Outside  == Tick \/ Fund \/ Land
Common(w)     == \/ Claim(w) \/ Fault(w) \/ Crash(w) \/ Throw(w) \/ Manual(w)
                 \/ Park(w) \/ Complete(w)
Activation(w) == \/ ActivateStart(w) \/ Probe(w) \/ SubmitActivation(w)
                 \/ RecordActivation(w) \/ Confirm(w) \/ FinalizeActivation(w)
Run(w)        == \/ RunStart(w) \/ FailReclaimedRun(w) \/ Checkpoint(w)
                 \/ Stale(w) \/ AskToPay(w) \/ Pay(w) \/ AgentFails(w)
                 \/ AgentReports(w) \/ Report(w) \/ CloseReport(w)
Settlement(w) == \/ SettleStart(w) \/ SubmitBatch(w) \/ MarkConfirmed(w)
                 \/ RecordBatch(w) \/ EnqueueClose(w) \/ CloseStart(w)

Next == \/ Api \/ Expiry \/ Operator \/ Outside
        \/ \E t \in Types : LeaseEnds(t)
        \/ \E w \in Workers : Common(w) \/ Activation(w) \/ Run(w) \/ Settlement(w)

Spec == Init /\ [][Next]_vars
-----------------------------------------------------------------------------
Ended == {"completed", "failed", "cancelled", "funding_expired"}

\* The combinations of the four dimensions that design.md (Decision 7) allows.
\* They come from four separate tables and from writes that bypass the tables.
LegalTuples ==
  \/ life = Prepared
  \/ life = [Prepared EXCEPT !.activation = "funded"]
  \/ life = [Prepared EXCEPT !.activation = "activating", !.quota = "activating"]
  \/ life = Patched(Prepared, Lapsed)
  \/ life = Open
  \/ /\ life.status \in {"completed", "failed", "cancelled"}
     /\ life.activation = "active" /\ life.quota = "consumed"
     /\ life.finalization \in {"closing", "manual", "closed"}

\* The reservation of a research is consumed or released exactly once, whichever
\* of the activation workers and the expiry job decides, and the record says so.
QuotaSettledOnce ==
  /\ quota.reserved = IF life.quota \in {"reserved", "activating"} THEN 1 ELSE 0
  /\ quota.used = IF life.quota = "consumed" THEN 1 ELSE 0

\* The agent is only ever scheduled for an escrow that is active on chain and a
\* quota that was consumed for it.
RunIsFunded == op["RUN"].phase # "absent" => chain = "active" /\ quota.used = 1

\* A research that runs has its RUN operation: activation and enqueueing are one.
RunningHasRun == life.status = "running" => op["RUN"].phase # "absent"

\* No research is declared expired while its escrow is, or can still become,
\* active with the buyer's money in it.
ExpiredIsUnfunded == life.status = "funding_expired" => chain # "active"

\* Record, quota, chain and RUN operation agree on whether the research is on: three
\* deciders, each of which sees a part of it at another moment.
OnMeansFunded == RunIsFunded /\ RunningHasRun /\ ExpiredIsUnfunded

\* A research whose finances are being closed has the CLOSE operation that returns
\* the buyer's money, whichever of run, cancel and reclaim ended it.
ClosingHasClose ==
  life.finalization \in {"closing", "manual"} => op["CLOSE"].phase # "absent"

\* A SETTLE or RECONCILE is only reported as succeeded when the batch is on chain,
\* the intent is booked as paid, and CLOSE is there.
SettledIsPaid ==
  \A t \in {"SETTLE", "RECONCILE"} :
    op[t].phase = "succeeded"
      => paid /\ intent = "confirmed" /\ op["CLOSE"].phase # "absent"

\* An ended research keeps its outcome: a late report does not overwrite a cancel,
\* nor a late expiry a run.
OutcomeIsFinal == [][life.status \in Ended => life'.status = life.status]_vars
=============================================================================
