# Arc Lepton: TLA+ models, model checking and proofs

Arc Lepton sells research reports. A buyer prepares a research, funds it with USDC in
an escrow contract of its own, and an agent then works on it, paying data providers
per request. When the agent is done (or the buyer cancels, or time runs out) the
payments are settled in a batch and the rest goes back to the buyer. The same code
runs without escrow ("legacy" or "mock-backed" research): the request of the reader
runs the agent, and the payments of a research are anchored in one transaction.

What makes it hard is that many parties write the state of one research: the page in
the buyer's browser, HTTP routes, worker processes started by cron deliveries, the
chain, and an operator. They do so with leases that run out, conditional updates on a
record read earlier, answers that get lost, and transactions whose outcome may be
unknown for a while.

This directory holds TLA+ models of that machinery, TLC configurations that check
them on small instances, and TLAPS proofs for all instances. `PROJECT.json` lists
every run, theorem, hazard and finding and maps each definition to the lines it
translates.

    tlc -workers 2 -config Outbox_memory.cfg MCWorkflowOutbox.tla
    tlapm WorkflowOutboxProofs.tla

## Inventory of the system

| Component | State | Operations | What must hold | Module |
|---|---|---|---|---|
| **Workflow outbox** `lib/db/workflow-outbox-repo*.ts`, `lib/research/workflow-worker.ts` | rows by operation key: phase, lease, fencing token, attempts, next attempt | claim, renew, checkpoint, record broadcast, fail and release, complete, list due, operator recovery; the dispatch loop with retry and parking | one holder at a time; what succeeded stays; only exhausted operations are parked | `WorkflowOutbox` |
| **Research record** `lib/db/research-repo*.ts` | status, activation phase, finalization state, quota state | begin activation, complete funding expiry, request finalization, lifecycle transitions | only legal combinations; an outcome is final | `ResearchFlow` |
| **Activation, expiry, run and settlement workers** `lib/research/*-worker.ts`, `funding-expiry.ts`, `finalization.ts` | what they read before an await | probe, broadcast, confirm, expire, run, end, settle, book, queue CLOSE | quota consumed or released once; nothing runs that is not funded; "succeeded" means paid | `ResearchFlow` |
| **Escrow contract** `contracts/src/escrow` | state, spent, processed requests and settlements | activate, settleBatch, close, cancelUnactivated, refundExpired, recoverExcess | budget, each request paid once, every exit returns everything | `ResearchEscrow` |
| **Prepare, start without escrow, quota** `lib/research/prepare.ts`, `lib/db/research-quota-repo*.ts`, `lib/rate-limit/research-quota.ts` | idempotency keys, quota rows, counters of the key-value store | prepare, start, consume or release a reservation | one research per key; daily limits; no deadlock between transactions | `ResearchIntake` |
| **Payment log and settlement** `lib/x402`, `lib/db/tx-log-repo*.ts`, `payment-settlement-repo*.ts` | payment intents and paid calls, one settlement row per research | record, claim, broadcast, persist the hash, confirm, retry, reconcile, mark manual | anchored once; booked means anchored; nothing forgotten | `PaymentSettlement` |
| **Event log, bus, SSE** `lib/agent/event-bus.ts`, `research-event-repo*.ts`, stream route, the event part of `run-worker.ts` | log entries with cursors and dedupe keys, terminal checkpoint, one bus per process | append, publish, checkpoint, replay, subscribe, reconnect, cancel, forget | one ordered log; readers see what is recorded, and catch up | `ResearchEvents` |
| **Factory, Registry, deployment** `contracts/src/factory`, `registry`, `contracts/script`, `rpc-deployment-verifier.mjs` | roles on two contracts, binding, sources, vouchers; the reads of the verifier | deploy, bind, hand over, grant, revoke, renounce, pause, createAndFund, verify | roles that were verified stay apart; money waits for the hand-over; an administrator is left; a passed check is true | `DeploymentRoles` |
| **Funding page** `app/research/ResearchPageClient.tsx` | the page's step and intent, localStorage, wallet, session | prepare, approve, create and fund, sign, start, reload, resume | one research per page load; a start names its funding; a funding all pages show is not lost | `FundingClient` |
| **Canonical keys, liabilities** `contracts/src/canonical`, `lib/escrow` | none | keys, hashes, deadlines, certificates | | in part in `ResearchEscrow` |
| Login, amounts, statistics and follow-ups, migrations, deployment manifests and gates | | | | not modelled |

### How they interact

The **page** calls prepare (`ResearchIntake`), sends createAndFund to the factory
(`DeploymentRoles`), and asks for the start. The start and everything after it is
`ResearchFlow`, whose operations live in the **outbox** (`WorkflowOutbox`) and whose
money lives in the **escrow** (`ResearchEscrow`). A run writes the **event log** and the
bus that readers follow (`ResearchEvents`). Without escrow, the run belongs to the
request of its reader and its end starts the **settlement** (`PaymentSettlement`).

Modules are composed by what one shows of the other: `ResearchFlow` takes the outbox as
fences, leases and claims; `ResearchEscrow` takes registry and factory as a listing and a
set of roles; `FundingClient` takes server and chain as records and escrows. Where one
module promises what another uses, the promise is checked there (the fence in
`outbox_memory`, `QuotaSettledOnce` beside `CountsAreTrue`).

### What is hard here

* *Leases and fences.* Two workers, an enqueuing caller and an operator write one row.
  Against Postgres a claim is a SELECT and a later conditional UPDATE.
* *State read before an await.* Activation, expiry, finalization, recovery, the agent's
  payment permission, the retry pass of the settlement and the handlers of the page all
  read, wait for the chain, the wallet or the database, and then write.
* *Unknown outcomes.* A broadcast may have reached the mempool or not; a request may have
  been served although its answer was lost; a settlement may have been mined before the
  worker that sent it died.
* *Several writers of an end.* Agent, run worker, cancel route and reclaim all end a
  research, only some of the ways queue the operations that pay and refund, and each
  tells its readers.
* *Several places for one truth.* The log and the bus of each process; the counters and
  their shadow; the roles of two contracts; localStorage and the tabs that share it.
* *Money at boundaries.* Donations push the balance above the budget; the last instant
  of an authorization is the first instant of the public refund.

## The modules

    OutboxRow                one row, and the functions both repositories compute on it
      WorkflowOutbox         the table, producers, operator, dispatch loop
        MCWorkflowOutbox     instances
        WorkflowOutboxProofs theorems
    FencedOperations         what the queue promises; WorkflowOutbox implements it
    ResearchLifecycle        the four transition tables
      ResearchFlow           one research from funding to close, with all its actors
        MCResearchFlow       instances
        ResearchFlowProofs   theorems: funding, quota, outcome; legal records, CLOSE
                             queued, settled is paid
    ResearchEscrow           the contract; MCResearchEscrow, ResearchEscrowProofs
    ResearchIntake           prepare, start, quota; MCResearchIntake, ResearchIntakeProofs
    PaymentSettlement        payments without escrow; MCPaymentSettlement,
                             PaymentSettlementProofs
    ResearchEvents           log, buses, readers; MCResearchEvents, ResearchEventsProofs
    DeploymentRoles          two contracts, scripts, verifier; MCDeploymentRoles,
                             DeploymentRolesProofs
    FundingClient            the page; MCFundingClient, FundingClientProofs

In each module a definition marked `Fault` is a changed copy of a definition beside it: it
is used by no specification and stands for a bug that the property named in
`PROJECT.json` ("mutants") would catch.

### WorkflowOutbox: the durable queue

`row` is the table. A worker is at `pc` "idle", "loop" (between two operations of its
batch), "write" (claimOperation has read the row and not yet written it) or "handle"
(the handler runs). `call` holds the operation object the handler was given: its fencing
token is what later writes are compared with. `began` is the `now` that
`processDueWorkflowOperations` samples once and uses for every retry of the pass.

`Synchronous` chooses the repository. In memory, nothing runs between the read and the
write of a claim. Against Postgres (`Synchronous = FALSE`) every statement takes a
`Date()` that may be older than the moment it reaches the database (`Samples`), the
claim recomputes the fence from the row it *read*, and the UPDATE tests phase, due time
and lease of the row it *finds* (`Claimable`). A producer's claim is the same two steps:
`asked` is the row it has read (`Ask`) before it inserts, re-claims or declines; at most
one producer a key stands between the two, a bound of the model. What a handler does is left open: any
sequence of renew, checkpoint, broadcast, complete, give back, return, throw, and a
crash at any point. This is more than any handler in the code does, so the properties
hold for each of them.

Abstracted: hashes, digests, error texts, transaction coordinates; keys are numbers
because the scan breaks ties by key; null and expired leases are both "not running".

### FencedOperations: what the queue promises

An operation is absent, open, parked or succeeded; it is granted under rising fences,
only the newest grant finishes or parks it, and it is parked only after `MaxAttempts`
grants. There are no leases, clocks, batches or retries in it. `KeepsPromise` maps a row
to its status and fencing token and a worker in "handle" to its grant, and says that
`WorkflowOutbox` implements it. It holds for the memory repository. Against Postgres it
does not: the fence can fall, see the divergences below.

### ResearchFlow: one research and everyone who writes it

State: the record `life`, its share of the `quota` bucket, the five outbox rows `op`,
one payment `intent` (so a later second one, which SETTLE and RECONCILE take up with the
rest of a list, `settlement-worker.ts:168` and `218-231`, is not seen), what happened on `chain` (escrow funded or active, an activation
`sent`, the batch `paid`), the `time` against the funding deadline (before, at, after),
the worker processes `wk`, the `expiry` job and the operator's `rescue` request. Each
of these actors has a program counter, and a step ends wherever the code awaits
something that another actor can change. A transaction of `research-repo-pg.ts` that
writes record, quota and outbox together is one step (`StartRunning`, `Finish`).

The outbox appears as what `WorkflowOutbox` shows of it: the fence of an operation
equals the number of its claims and at most one worker passes it; leases end at any
time, so no clock is needed. With Postgres that holds for claims that stall less than
half a lease (`outbox_postgres`). A claim that stalls longer than a lease between its
SELECT and its UPDATE can be given the token of the previous holder, and what that would
do to a research is outside this module.

The chain answers truthfully and as late as it likes (`Confirmations`,
`Reconciliations`, `Recoveries` always contain "unknown"), and says "not active" only
when no activation can land any more, as the callers document. The worker route at this
commit wires most of these to stubs that throw or say unknown; the model also lets them
answer, since the handlers contain the code for each answer.

Three constants name the configuration. `AgentOwnsStatus`: the agent of this repository
writes the end of the research itself; FALSE is an agent that only yields events, the
contract `run-worker.ts` is written for. `PaysEscrow`: the agent has an escrow payment
context (the worker route passes none). `Recoverable`: what the operator requeues.

### ResearchEscrow: the contract

A transaction is one step and a revert is a step that is not enabled. State variables
are those of the contract; `bal`, `given`, `now`, `listing`, `roles` and `paused` are
the token, the clock and the two other contracts as the escrow sees them. Signatures are
assumed valid, so an authorization is what the contract compares: caller, issue time,
deadline, certified liabilities. Token transfers are exact, as for USDC. Batches,
deadlines, certificates and callers are chosen freely, so a step of the model is any
call that does not revert.

### ResearchIntake: how a research comes into being

Calls are HTTP requests and a research is named after the call that made it. `prepare`
is one Postgres transaction: it looks its key up, updates the quota row of the wallet
and that of all wallets (each update takes a row lock that is kept to the end, `held`),
and inserts the research; a unique index decides between twins, and the loser rolls back
and reads again. `start` of a backend without escrow counts in the key-value store, and
with `shadow` also in Postgres, up to four counters one after the other, and takes back
what it counted when it is refused. `job` is the transaction with which a worker consumes
or releases a reservation, on the same two rows. Midnight falls anywhere, and a `Mortal`
process may die anywhere.

Left out: the memory repository, whose `createFundingWithQuotaReservation` awaits between
lookup and reservation; the expiry of counters (a key names its day); the deadlock
detector of Postgres (the property is that it is not needed).

### PaymentSettlement: payments without an escrow

`log` is tx_log, `row` the settlement of the research, `chain` the transactions sent,
each with the entries it lists, whether it succeeded, and whether its sender learnt the
hash. Agents create intents and start a settlement when they end; retry passes list
failed and abandoned rows; both then go through the same steps (claim, send, persist the
hash, confirm the row, book the entries), each a step of its own, with a crash after any.
A broadcast may succeed, fail, or succeed although the call failed. Payers are paid calls
that record and anchor one entry under their Idempotency-Key; an entry whose receipt
cannot be written is marked failed without its hash. The claim of a runner is kept per
process, so two agents of one research may run. The queries read pages of 200 and 500
entries; an agent makes at most three paid calls (`MAX_PAID_TOOL_CALLS`), so the pages are
taken to hold all there are.

### ResearchEvents: log, buses and readers

In "escrow" mode a RUN worker appends each event of its agent to the log in the steps the
repository takes (look for a twin by dedupe key, read the two maxima that give the cursor,
insert and look what became of it), then publishes it on the bus of its own process, and
ends with the terminal checkpoint. A lease may end meanwhile and a second run begin, in
the same process or another; if the first recorded a payment intent the second only fails
the research (`FailReclaimed`, possible for every later run, as events do not show the
intents). A reader replays after its Last-Event-ID, reads the
checkpoint, subscribes, and may be dropped and come back to another process. In "direct"
mode the bus is all there is: the request of the first reader runs the agent, later ones
are sent the history and follow. Cancellation writes the record, then tells the bus of
its own process. Left out: the limit of 500 entries of a replay.

### DeploymentRoles: two contracts, their scripts and the verifier

A step is a transaction. `member` holds the roles of both contracts, with OpenZeppelin's
rules and the checks each contract makes on the other; `script` is the core script, its
resumption or the hand-over, which may stop before any of its transactions and be run
again, and which the simulation of forge refuses when one of its transactions would
revert. A role may be granted, revoked or renounced by hand before the binding too, where the
Registry asks nobody. `log` and `past` are the role events and sealed blocks, and `check` the verifier,
each of whose reads happens at the block that is final by then; it passes only when
every read and the replay of the events up to the manifest's block agree.

Left out: code hashes of USDC and of the escrow clones. Two reductions are explained where
they are made: the verifier starts when the chain has done its steps, since it sees
final blocks only and the chain does not see it, and is not combined with funding.

### FundingClient: the page

A handler of `ResearchPageClient.tsx` runs from one await to the next in one step; what
it uses from its closure is the page as it was at the click (`who`, `intent`). `store` is
localStorage, one for all tabs. `rec`, `escrow`, `allowance` and `txs` are server and
chain as the page sees them: a transaction may be mined late, revert, or be sent by
another account than the one that was checked. A tab may be closed (`Close`) and another
opened at any time. No code of the repository writes the activation phase "funded", which
the start route requires; `MarkFunded`, external, takes it to be written for funded escrows
only. Editing topic and budget is left out;
the chain id is folded into a wallet that is connected or not; all budgets are equal.

## What the runs check

| Run | Instance | Shows |
|---|---|---|
| `outbox_memory` | 2 workers under one worker id, 2 keys, batch of 1, lease 2, 3 attempts, clock to 5, fence to 5 | the queue implements `FencedOperations`; parking only when exhausted |
| `outbox_postgres` | 2 workers, 1 key, lease 3, stalls of at most 1, 3 attempts, clock to 7, fence to 3 | one holder, and no claim or new fence while a lease runs, although both workers have one worker id, for claims that stall less than half a lease |
| `flow_shipped` | 2 workers, shipped agent, 3 claims of ACTIVATE and RUN, 2 of the closing operations, operator requeues closing operations | legal combinations, quota settled once, only funded research runs, nothing active expires, outcomes are final |
| `flow_settle` | 1 worker that may crash or fail anywhere, paying agent that only yields events, no operator | a settled operation is paid and booked; every end has CLOSE |
| `flow_no_close` | 1 worker, the shipped agent | finding 1 |
| `escrow` | budget 3, two requests, two settlement keys, donations up to 2, one Registry update, role changes, pause | books agree, requests paid once, exits return all, money only to listed payouts, the escrow ends empty |
| `intake` | 3 calls: twins on one key with the same or another topic, or a start, and a competitor; limits 2 and 2; 2 days; one process that may die | counts are true, daily limits, one research per key, no cycle of row locks |
| `payments` | 2 agents and a retry pass; 1 agent and 2 passes; 1 agent and 2 paid calls with one key; 2 transactions | anchored once, one sender at a time, booked is anchored, a lone agent leaves nothing pending |
| `events` | 2 runs in 1 or 2 processes, a reader, 2 events a run; in direct mode a restart | the log is one ordered run; cursors of readers are in the log, the ends they are told in the record; readers catch up |
| `deployment` | 8 accounts and a payout, 3 scripts, 2 changes by hand of the roles of one more account, 3 vouchers, blocks of at most 6 events | an administrator is left, money waits for the whole hand-over, a passed check is true at its block, and the separation it found lasts |
| `funding_client` | 2 accounts, 2 researches, 2 tabs, 2 transactions, 2 loads, 1 switch of account | one research per load, starts are funded, a funding that all open pages show is kept |
| `funding_stuck` | the same with 1 transaction and no switch | finding 2 |

`CHECK_DEADLOCK FALSE` is set throughout: every instance stops when its clock, claims,
calls or budget are used up, and the real system may rest as well (a research that has
ended has nothing more to do).

### The bounds, and why they are enough

* *Outbox.* Two keys are what it takes for the batch limit of 1 to leave one out; the
  second key only competes (`SecondKeyOnce`). Two workers give a takeover: the first claim
  is the enqueuing call, the second a worker's or another call's, the third takes it over,
  and with the memory repository there are two more. With
  `MaxAttempts = 3` the first attempt of a worker may be retried and the second parks. The
  clock lets a lease be taken, expire, be taken again and run. The Postgres instance uses
  one key, since rows interact only through the limit, and one producer at a time. The
  theorems drop these bounds but the last.
* *Flow.* One research: records interact only through quota limits and batch order,
  which `ResearchIntake` and `WorkflowOutbox` have. One intent: the code asks whether
  there is *any*. Time has three values because the code compares with one deadline (`<`
  and `>=`), and the chain with `<=`. Three claims allow a first run, a reclaim and a
  stale holder of each; `MaxAttempts = 2` lets operations be parked and requeued within
  them. `flow_settle` uses one worker, because the settlement chain already interleaves
  with leases, crashes and reclaims there; both its properties are theorems for any
  number of workers.
* *Escrow.* Budget 3 with items of 1 and 2 lets batches fit exactly, fit only together
  with a donation, and not fit. Two requests under two settlement keys cover repetition
  of either key. One Registry update gives an item whose snapshot is stale.
* *Intake.* Three calls fill limits of two. The twins meet on the key and on the wallet
  row, the competitor on the row of all wallets or, as a start, on the wallet's. Two days
  let a call begin before midnight and end after it.
* *Payments.* Two transactions are a broadcast and the rebroadcast that must not be. The
  casts are the pairs that meet: agent and agent, pass and pass, pass and agent, call and
  call.
* *Events.* Two runs make a takeover; two events a run give a log that can have a gap or
  be out of order. One reader is enough as readers do not see each other. The restart is
  in direct mode; in escrow mode a restart is a run that takes no further step, a dropped
  stream and a forgotten bus, which are all there.
* *Deployment.* Each role has one account of its own. By hand, roles are given to and
  taken from the final funding signer, and anybody may renounce; one such account is enough
  for two roles in one hand, and the theorems have any accounts and any grants. Three
  scripts are a stopped one, its resumption and a rerun. A deployment and its hand-over write
  ten events, so blocks of six always split the hand-over, and shorter blocks are there as
  well: one is sealed whenever no script is sending. Role events are fetched two blocks at
  a time, so a check late enough needs a second fetch.
* *Funding page.* Two tabs and two researches share one localStorage. An allowance may be
  there from the start, so two transactions are an approval and a createAndFund, one that
  reverts and one that succeeds, or a createAndFund and a cancellation.

### Fairness

Safety runs assume none. `escrow` assumes weak fairness of `Tick` (blocks are produced)
and of `refundExpired` and `recoverExcess`, which anyone may call and the buyer has every
reason to; none of settler, governance, buyer-only calls or workers. `NothingIsStuck`
holds for finitely many donations (`MaxGift`): someone who donates for ever keeps a
balance in a closed escrow for ever, which is no loss to the buyer.

`events` assumes weak fairness of the handlers and runs (awaits come back), of the claim
of a due operation (cron), of the end of a lease and of a stream (`maxDuration`), of the
reader's reconnection (`EventSource`) and of the second half of a cancellation. Nothing is
assumed of crashes, cancellations and the cleanup of buses: they may happen or not.

## What is proved

TLAPS checks every proof below to the last leaf. Each theorem holds for every value of
the constants that satisfies the named assumptions (`LeaseAssumption`,
`OutboxAssumption`, `FlowAssumption`, `EscrowAssumption`, `IntakeAssumption`,
`PaymentAssumption`, `EventsAssumption`, `DeploymentAssumption`, `ClientAssumption`:
naturals, Booleans, nonzero limits, typed functions, names that are not members), so for
any number of workers, keys, calls, accounts, processes, readers, tabs, requests and any
budget. The bounds of the explorations (`MaxClock`, `MaxToken`, `MaxClaims`, `MaxTime`,
`MaxGift`, `MaxSends`, `MaxOps`, `MaxScripts`, `MaxActs`, `BlockSize`, `MaxTx`,
`MaxLoads`, `MaxSwitches`, `LastDay`, `MaxRuns`, `MaxEvents`, `MaxFaults`) are arbitrary
there.

**The queue** (`WorkflowOutboxProofs`). `TypeCorrect`; `CompletionIsFinal` and
`LeasesHold` (no claim of a worker or producer, under one owner or several, while a lease
runs) for either repository;
`ParkingIsExhaustion` for either; `MutualExclusion`, `MemoryFences` and
`QueueKeepsPromise` for the memory repository (`Synchronous`), because against Postgres
the second is false. Two workers may share a worker id, so mutual exclusion rests on
fences: the inductive invariant (`FencedInv`) adds that no handler carries a fence above
that of its row and that no two handlers of one key carry the same. Neither half is
inductive without the other: a claim's fence is fresh only because all others are at most
the row's. `StepShape` first reduces the actions to three shapes: no worker starts to
handle, an enqueue, a claim. Parking rests on `Counted`: on every row, and on every copy a
worker has of one, the attempts are the fence. `QueueKeepsPromise` is the refinement: each
step of the queue is a step of `FencedOperations` or leaves status, fence and grants alone.

**Funding and outcome** (`ResearchFlowProofs`). `FlowTypeCorrect` and `QuotaOnce` are
proved together (`Typed`): `quota.reserved - 1` is a natural number only because the
record still says "reserved" or "activating". `OnIsFunded` (with its parts `FundedRun`,
`RunIsQueued`, `ExpiryIsSafe`) and `OutcomeHolds` come from `FundedInv`, which adds
`Knowledge`: what a worker about to finalize, or an expiry job about to write, has learned
from the chain earlier still holds when it writes. An activation stays active; a "not
active" answer comes only after the deadline, when nothing can land any more. Most steps
disturb none of this; they are shown to satisfy `Quiet` and preserve the invariant by that
alone.

**Closing** (`ResearchFlowProofs`). `LegalRecord` assumes that the operator requeues
closing operations only, `CloseIsQueued` also that the agent leaves the end of a run to
the run worker. Both assumptions are needed: finding 1 and the third divergence below are
what happens without them. `ClosingInv` adds that closing operations, and a recovery under
way, exist only for ended research, and that the settlement steps are reached from SETTLE
and RECONCILE only, since `enqueue_close` creates a CLOSE. `SettlementIsPayment` assumes
neither: `PaidInv` says of every program counter how far the batch must have come (paid
before "mark", booked before "record_batch", CLOSE queued before "finish"), and these three
are never undone.

**The contract** (`ResearchEscrowProofs`). `Solvency` (of the budget too), `ExitsReturnAll`,
`CloseIsFinal` and `EachRequestOnce`. `Sound` ties spent, balance and donations; the
budget is not implied by the balance, because donations raise the balance. `Registered`
says that whatever a batch pays was marked as processed. `WhatIsSpentIsPaid`,
`PayeesAreListed` and `EscrowIsTyped` assume that items and people are finitely many, as
words of fixed width are. Their invariant (`Audited`) counts what was spent twice: as the
total of the settled items and as what the payees hold. A batch adds the same sum to both,
since its total is the sum of its payees' shares. Totals are folds, in an order that is not
specified; that they add up in any order is shown with the smallest counterexample: among
the subsets of a finite set that falsify a formula one contains no other.

**Intake** (`ResearchIntakeProofs`, assuming that there is something to ask for).
`TwinsShareAResearch`: the invariant is that a research is named after its call, that the
call which made one is done, and that a call remembers a research of its own key.
`LocksAreOrdered`: no set of transactions waits in a circle, because whoever still wants a
row wants that of all wallets and holds only a wallet's, or holds nothing; who holds the
row of all wallets wants nothing more. `CountsStayTrue`, `NobodyExceedsTheLimit` and
`IntakeIsTyped` come from one invariant (`Books`): each counter, of the database and of the
key-value store, is the size of a set of calls: those whose record holds or consumed a
reservation, those that have raised the counter and not given it back. A step moves one
call, so no counter falls below zero. And whoever may still be admitted already has its
place below the limit: a prepare by the rows it holds until it commits, a start by
having raised its counter and seen it within the limit.

**Payments** (`PaymentSettlementProofs`, assuming that there is an entry).
`PaymentsTypeCorrect`, `BooksAreBacked`, `NothingIsRepeated` and, if no agent is also a
retry pass, `LoneAgentLeavesNothing`. The settlement row is not
a lock: it may be taken by a retry while its worker still runs. What protects the anchor is
that a row can be sent again only from "failed", without a hash and without the manual
mark, and that only a worker whose own transaction failed without a hash writes such a row.
The invariant says so for the row, for every copy of it that a worker has read (`seen`,
`from`), and for the workers between claim and answer, of which there is at most one. For the last
one, `LoneInv` says that an agent which is alone finds no row when it claims, so the row's
entries are all there are, and that whoever holds entries of a settlement holds the row's.

**Events** (`ResearchEventsProofs`, for any processes, readers, runs, events and restarts).
`TypeCorrect`, `LogInOrder` and `ReadersToldTheRecord`. The log has no lock: a run looks
for its twin, reads two maxima, inserts. The invariant (`Core`) says that there is a k such
that the log holds the events 1 to k in order (`LogTo`) and every run, with a lease or
without, is at most one event ahead of it (`RunTo`): if the event a run is writing is
missing, the cursor it computed is above the whole log, and if it is there, the unique key
turns the insert into a lookup. So only the next event is ever inserted. The record only
leaves "running" once, which is why what a bus, a run, the checkpoint or a reader already
says of the end stays true. In direct mode (`Direct`) the reader whose request runs the
agent owns that run alone and never follows a bus, so only publishing touches what the
followers were sent.

**Deployment** (`DeploymentRolesProofs`). `ScriptsKeepAnAdministrator` assumes nothing of
the accounts: `Scripted` says that a hand-over runs only on bound contracts, as its sixth
transaction would otherwise revert in the simulation, and `Governed` that it revokes a role
only after it granted it to a successor, who is another account. The other three assume that
no final role is the deployer's (`FinalRolesAreOthers`), and `VerifiedSeparationLasts` that
they differ from each other (`FinalRolesAreApart`); `normalizeRoles` of
`deployment-preflight-gate.mjs` checks both. `MoneyWaitsForTheHandOver`: the gate of
createAndFund asks that the deployer has no role, and `HandOverInv` says how far the
transactions must have come when it has none: all grants come before the revocations, and
the Registry's administrator is revoked last. `VerifiedSeparationLasts`: roles can be mixed
before the binding, but a passed verification is true of its block (`VerdictIsTrue`), where
each role has its one member; there somebody is source administrator, so the Registry is
bound, and from then on each contract asks the other before it grants (`StaysApart`).
`VerdictIsTrue` needs the deployer to be apart: otherwise a deployer who gives a role back
between two reads could pass as its member in the one and as nobody in the other. `Recorded` says
that the last event of an account in the log tells whether it has the role, now and at the
end of each sealed block, and that no event is older than its contract. That the replay, a
fold over the log, computes just this is again shown by the smallest counterexample, and
that the chunks of `eth_getLogs` cover the range is arithmetic. `Shown` says that replays
that agreed still agree when the verifier passes.

**The page** (`FundingClientProofs`). `ClientTypeCorrect`, `StartsHaveFunding`,
`LoadHasOneResearch` and `StoredFundingIsKept`. A page
resumes what another tab stored, so the invariant is about intents wherever they are: an
intent travels whole, and its hash names a createAndFund of its own research in the store,
in every page, in every request. The rest relates records to escrows: a record that was
funded has an escrow, and an escrow never goes back to none. `LoadsOk` says that what a load
had made is under the key its page still holds, unless that page follows a running
research, and such a page asks for nothing until it is loaded again. `StoredFundingIsKept` holds from any state in which every open page shows the stored
intent, a page with a hash being past the funding, where no handler replaces the intent
(`PagesPast`): so every page stores what it shows, a closed page stores nothing, and one that
is opened shows what is stored. Nothing is claimed while a page is left behind; see the
divergences.

## Findings

Each is a violation run in `PROJECT.json`, with the sentence of the repository that the
code disagrees with.

1. `flow_no_close`: the shipped agent ends the research before the run worker can; the
   record is closing and no CLOSE operation exists.
2. `funding_stuck`: a refused approval or funding transaction, or a failed read of the
   allowance, leaves the page in a step that offers no action, and a reload restores it.

### Other divergences met while modelling

The models have these behaviours; no run is spent on them. They are why some properties
are stated with an assumption, or not at all.

* Against Postgres the fencing token can fall: it is computed from the row that was
  selected and the UPDATE does not compare it (`workflow-outbox-repo-pg.ts:45`;
  `design.md:135` calls it monotonic). If a claim stalls longer than a lease, two workers
  can carry the same token; the stalls of `outbox_postgres` are bounded to exclude that.
* Cancel and the reclaimed run close a research that owes a payment without queueing
  SETTLE (`run-worker.ts:180`), and an intent can be inserted after the closing barrier,
  because its permission is read earlier and is not part of the insert
  (`research-agent.ts:340`); see `onchain-research-escrow/spec.md:202` and `219`.
* Requeueing a parked ACTIVATE or RUN puts the record into "closing" while it is still
  waiting for funding or running (`workflow-worker.ts:283`; `design.md:157`).
* A batch still settles in the block whose timestamp is the expiry
  (`ResearchEscrowEip712.sol:242`; `spec.md:141`).
* A start without escrow counts in the key-value store, and creates its research later: a
  crash between the two keeps the count, where the quota spec asks for one transaction.
* The mock settlement diverges from `openspec/specs/arc-payment-receipts/spec.md:49`, `54`
  and `72` (`payment-settlement.ts:338`, `430`). Two agents of one research can run, each
  within the whole budget, and the later intents of the one that loses the claim stay
  pending; a claim of a failed row overwrites its list of entries. Nothing in this
  repository calls `retryResearchSettlements`, so no progress is claimed for it.
* A reader of an escrow research that another process cancels, or whose run dies between
  record and terminal event, is never told the end (`stream/route.ts:173`,
  `cancel/route.ts:79`; `research-agent-engine/spec.md:148`): `ReadersCatchUp` is about the
  log, not about the end. A terminal checkpoint at or below the reader's cursor closes the
  stream without an event.
* A run that took over publishes its own event under the cursor of the different event an
  earlier run logged under the same ordinal (`run-worker.ts:83-95`): a client can be told
  "final" under a cursor that holds a note. If that run loses its lease before the
  checkpoint, and the next one finds the research ended, the operation is completed with the
  end neither in the log nor in a checkpoint, against
  `research-agent-engine/spec.md:121-122`. `ReadersSeeTheRecord` is therefore about cursors
  and about the record, not about the entry under a cursor.
* Before `bindFactory` the Registry makes any account administrator unasked, one with a role
  of the Factory as well (`DataSourceRegistry.sol:178`; against `design.md:115` and `180`).
  The separation rests on the verification and on the funding gate instead, hence
  `VerifiedRolesStayApart` and `FundedAfterHandOver`.
* A tab opened before the funding stores its own step over the funding transaction that
  another tab had stored (`ResearchPageClient.tsx:691` and every other handler), and a reload
  offers to fund again, against `research-web-ui/spec.md:31-32`. `FundingIsKept` therefore
  speaks of the time when all open pages show what is stored.
* A run that is reclaimed after a payment intent fails the research without an event or a
  checkpoint (`run-worker.ts:163`), so its readers are not told.
* When a hand-over stops between the revocations of factory and registry, its rerun is
  refused by the simulation; only the Registry's administrators can finish it, and funding
  stays closed until then.
* The page does not look at the status of a receipt: it asks for the start of a research
  whose createAndFund reverted, and the route does not look the transaction up
  (`ActivatedIsFunded` rests on `MarkFunded` alone). It sends createAndFund from
  the account that is connected after the allowance was read, and may lose a hash when it
  dies between broadcast and store.

## Only model-checked

* Liveness: `NothingIsStuck`, `ReadersCatchUp`. Fairness and ENABLED are beyond the prover.
* Mutual exclusion against Postgres when stalls are shorter than half a lease.

## Not modelled

* Login: with a shared key-value store a nonce is consumed by one operation on one key and
  a session is a signed token; the page's module takes the session as the account that is
  signed in.
* Amounts, keys and hashes: pure functions, which the models use by what they decide.
* Statistics, follow-ups, listings, downloads, the live view and the dashboards: text and
  counters after the fact.
* Migrations, deployment manifests, authorization drafts and gates: files validated or
  executed once, in order, without state.
* In the modelled parts: the `cancelRequestedAt` branch of the activation worker, which no
  route can reach while a research is still funding; the nonces of the escrow, since an
  escrow is activated and closed at most once; the content of reports, events and payloads;
  prompts, tools and budget arithmetic of the agent. `settleResearchPayments` takes a
  research of either backend; the module is used for those without escrow.

What the share of the code that is mapped leaves out is mostly the tests and validators of
the deployment scripts and the rendering of the pages.
