---------------------------- MODULE ResearchEscrow ----------------------------
(* ResearchEscrow.sol: the clone that holds the money of one research, from the  *)
(* end of createAndFund on. A transaction is one step: a revert is a step that   *)
(* is not enabled. USDC is external and moves exact amounts; signatures are      *)
(* valid, so what is left of an authorization is what the contract compares. The *)
(* nonces are left out: an escrow is activated and closed once.                   *)
EXTENDS Integers, FiniteSets, FiniteSetsExt

CONSTANTS
  Items,        \* settlement items: [request, source, revision, payout, max, amount]
  Settlements,  \* settlement keys
  Sources,
  Callers,      \* addresses that send transactions
  Payees,       \* other addresses
  Buyer, Signer,       \* buyer; plannedIntentSigner
  Budget, Cutoff, ExpiresAt, Lifetime, MaxBatch,
  FirstListing, \* the Registry at the start
  Listings,     \* what SOURCE_ADMIN may list a source as: [payout, max, active]
  FirstRoles, Grants,  \* roles at the start; those that governance may flip
  MaxTime, MaxGift, MaxRevision   \* bounds of the exploration

Roles    == {"intent", "settler", "other"}
People   == Payees \union Callers \union {Buyer, Signer}
Escrow   == "escrow"
Accounts == People \union {Escrow}
Requests == {i.request : i \in Items}

ASSUME EscrowAssumption ==
  /\ Items \subseteq [request : Requests, source : Sources, revision : Nat,
                      payout : People, max : Nat, amount : Nat]
  /\ Budget \in Nat \ {0} /\ Lifetime \in Nat /\ MaxBatch \in Nat
  /\ Cutoff \in Nat \ {0} /\ ExpiresAt \in Nat /\ Cutoff < ExpiresAt
  /\ Listings \subseteq [payout : People, max : Nat, active : BOOLEAN]
  /\ FirstListing \in [Sources -> [revision : Nat, payout : People, max : Nat,
                                   active : BOOLEAN]]
  /\ FirstRoles \in [People -> SUBSET Roles] /\ Grants \subseteq People \X Roles
  /\ Escrow \notin People
  /\ MaxTime \in Nat /\ MaxGift \in Nat /\ MaxRevision \in Nat

VARIABLES
  state,     \* "Funded" | "Active" | "Closed"
  spent,
  result,    \* processedSettlementKey and its result: the items settled under it
  done,      \* processedRequestKey
  refund,    \* [budget, excess]
  bal,       \* external: USDC balances
  given,     \* external: USDC sent to the escrow from outside, in total
  now,       \* block.timestamp
  listing,   \* the Registry
  roles,     \* roles held in Factory and Registry
  paused     \* creation and activation pause of the Factory

vars  == <<state, spent, result, done, refund, bal, given, now, listing, roles, paused>>
books == <<spent, result, done>>
world == <<given, now, listing, roles, paused>>

TypeOK ==
  /\ state \in {"Funded", "Active", "Closed"}
  /\ spent \in Nat
  /\ result \in [Settlements -> SUBSET Items]
  /\ done \subseteq Requests
  /\ refund \in [budget : Nat, excess : Nat]
  /\ bal \in [Accounts -> Nat] /\ given \in Nat /\ now \in Nat
  /\ listing \in [Sources -> [revision : Nat, payout : People, max : Nat,
                              active : BOOLEAN]]
  /\ roles \in [People -> SUBSET Roles] /\ paused \in BOOLEAN

\* initialize, and the transfer of exactly the budget.
Init ==
  /\ state = "Funded" /\ spent = 0 /\ done = {}
  /\ result = [k \in Settlements |-> {}]
  /\ refund = [budget |-> 0, excess |-> 0]
  /\ bal = [a \in Accounts |-> IF a = Escrow THEN Budget ELSE 0]
  /\ given = 0 /\ now = 1 /\ listing = FirstListing /\ roles = FirstRoles
  /\ paused = FALSE

accountedBalance == Budget - spent

-----------------------------------------------------------------------------
\* activate, sent by anyone with the buyer's authorization: at or before its
\* deadline, which is not after the cutoff.
Live(deadline)         == now <= deadline
_requireValidIntentSigner == Signer # Buyer /\ roles[Signer] = {"intent"}
_requireCleanActivationAccounting ==
  spent = 0 /\ accountedBalance = Budget /\ bal[Escrow] >= Budget

Activate(deadline) ==
  /\ state = "Funded" /\ ~paused
  /\ Live(deadline) /\ deadline <= Cutoff /\ Live(Cutoff)
  /\ _requireCleanActivationAccounting /\ _requireValidIntentSigner
  /\ state' = "Active"
  /\ UNCHANGED <<books, refund, bal, world>>

\* The whole balance goes to the buyer.
Pay(to, amount) == bal' = [bal EXCEPT ![Escrow] = @ - amount, ![to] = @ + amount]

CancelUnactivated(caller) ==
  /\ caller = Buyer /\ state = "Funded"
  /\ state' = "Closed" /\ refund' = [refund EXCEPT !.budget = bal[Escrow]]
  /\ Pay(Buyer, bal[Escrow])
  /\ UNCHANGED <<books, world>>

\* Faults: the excess has the wrong sign; only the budget is returned.
CloseUnderflowing ==
  /\ state' = "Closed" /\ Pay(Buyer, bal[Escrow])
  /\ refund' = [budget |-> accountedBalance, excess |-> accountedBalance - bal[Escrow]]
  /\ UNCHANGED <<books, world>>
CloseBudgetOnly ==
  /\ state' = "Closed" /\ Pay(Buyer, accountedBalance)
  /\ refund' = [budget |-> accountedBalance, excess |-> bal[Escrow] - accountedBalance]
  /\ UNCHANGED <<books, world>>

\* _recordRefundsForCurrentBalance and _transferRecordedBalance
CloseAndRefund ==
  /\ bal[Escrow] >= accountedBalance
  /\ state' = "Closed"
  /\ refund' = [budget |-> accountedBalance, excess |-> bal[Escrow] - accountedBalance]
  /\ Pay(Buyer, bal[Escrow])
  /\ UNCHANGED <<books, world>>

\* Fault: a paused Factory blocks the exit.
RefundUnlessPaused ==
  /\ now >= ExpiresAt /\ state # "Closed" /\ ~paused /\ CloseAndRefund

RefundExpired ==
  /\ now >= ExpiresAt /\ state # "Closed" /\ CloseAndRefund

\* Fault: excess is recovered before the close.
RecoverAnyTime ==
  /\ bal[Escrow] >= 1 /\ Pay(Buyer, bal[Escrow])
  /\ UNCHANGED <<state, books, refund, world>>

RecoverExcess ==
  /\ state = "Closed" /\ bal[Escrow] >= 1
  /\ Pay(Buyer, bal[Escrow])
  /\ UNCHANGED <<state, books, refund, world>>
-----------------------------------------------------------------------------
\* isAuthorizationWindowLive
Window(issued, deadline) ==
  /\ issued <= deadline /\ deadline - issued <= Lifetime
  /\ deadline <= ExpiresAt /\ issued <= now /\ now <= deadline
Authorized(caller, issued, deadline) ==
  /\ "settler" \in roles[caller] /\ Window(issued, deadline)
  /\ Signer # caller /\ _requireValidIntentSigner

\* Fault: the snapshot is compared by revision, not by payout.
ListedByRevision(i) ==
  /\ listing[i.source].active /\ i.revision = listing[i.source].revision
  /\ i.max = listing[i.source].max /\ i.amount # 0 /\ i.amount <= i.max
  /\ i.payout # Buyer /\ roles[i.payout] = {}

\* _validateSettlementItems: the item is what the Registry lists now, and its
\* payout is neither the buyer nor anyone with a role.
Listed(i) ==
  /\ listing[i.source].active /\ i.revision = listing[i.source].revision
  /\ i.payout = listing[i.source].payout /\ i.max = listing[i.source].max
  /\ i.amount # 0 /\ i.amount <= i.max
  /\ i.payout # Buyer /\ roles[i.payout] = {}

Total(batch) == MapThenSumSet(LAMBDA i : i.amount, batch)
Share(batch, a) == Total({i \in batch : i.payout = a})

\* spent + total <= initialBudget, in checked arithmetic.
WithinBudget(total)  == total \in 0..accountedBalance

\* Faults: only one of the two keys is looked up.
FreshKey(k, batch)      == result[k] = {}
FreshRequests(k, batch) == \A i \in batch : i.request \notin done
\* Neither the settlement key nor a request key was processed.
Fresh(k, batch) == result[k] = {} /\ \A i \in batch : i.request \notin done

SettleBatch(caller, k, batch, issued, deadline) ==
  /\ state = "Active" /\ Authorized(caller, issued, deadline)
  /\ batch # {} /\ Cardinality(batch) <= MaxBatch
  /\ \A i, j \in batch : i.request = j.request => i = j
  /\ \A i \in batch : Listed(i)
  /\ WithinBudget(Total(batch)) /\ Fresh(k, batch)
  /\ bal[Escrow] >= Total(batch)
  /\ spent' = spent + Total(batch)
  /\ result' = [result EXCEPT ![k] = batch]
  /\ done' = done \union {i.request : i \in batch}
  /\ bal' = [a \in Accounts |-> IF a = Escrow THEN bal[a] - Total(batch)
                                ELSE bal[a] + Share(batch, a)]
  /\ UNCHANGED <<state, refund, world>>

\* A liability the intent signer certified as paid: [request, amount, key].
_requirePaidLiabilitiesSettled(paid) ==
  \A l \in paid : l.request \in done /\ result[l.key] # {}

Close(caller, paid, issued, deadline) ==
  /\ state = "Active" /\ Authorized(caller, issued, deadline)
  /\ _requirePaidLiabilitiesSettled(paid)
  /\ \A l, m \in paid : l.request = m.request => l = m
  /\ MapThenSumSet(LAMBDA l : l.amount, paid) = spent
  /\ CloseAndRefund
-----------------------------------------------------------------------------
\* Outside: time, transfers to the escrow, the Registry, governance.
Tick == /\ now < MaxTime /\ now' = now + 1
        /\ UNCHANGED <<state, books, refund, bal, given, listing, roles, paused>>

Give == /\ given < MaxGift /\ given' = given + 1
        /\ bal' = [bal EXCEPT ![Escrow] = @ + 1]
        /\ UNCHANGED <<state, books, refund, now, listing, roles, paused>>

UpdateSource(s, l) ==
  /\ listing[s].revision < MaxRevision
  /\ listing' = [listing EXCEPT ![s] =
       [revision |-> @.revision + 1, payout |-> l.payout, max |-> l.max,
        active |-> l.active]]
  /\ UNCHANGED <<state, books, refund, bal, given, now, roles, paused>>

Govern ==
  /\ \/ paused' = ~paused /\ UNCHANGED roles
     \/ /\ \E g \in Grants :
             roles' = [roles EXCEPT ![g[1]] =
                         IF g[2] \in @ THEN @ \ {g[2]} ELSE @ \union {g[2]}]
        /\ UNCHANGED paused
  /\ UNCHANGED <<state, books, refund, bal, given, now, listing>>

Times     == 1..ExpiresAt
Batches   == {b \in SUBSET Items : b # {} /\ Cardinality(b) <= MaxBatch}
Certificates ==
  UNION {{{[request |-> r, amount |-> f[r].amount, key |-> f[r].key] : r \in R} :
            f \in [R -> [amount : 1..Budget, key : Settlements]]} :
         R \in SUBSET Requests}

Transaction ==
  \/ RefundExpired \/ RecoverExcess
  \/ \E d \in Times : Activate(d)
  \/ \E c \in Callers :
       \/ CancelUnactivated(c)
       \/ \E t, d \in Times :
            \/ \E k \in Settlements, b \in Batches : SettleBatch(c, k, b, t, d)
            \/ \E paid \in Certificates : Close(c, paid, t, d)

Outside == \/ Tick \/ Give \/ Govern
           \/ \E s \in Sources, l \in Listings : UpdateSource(s, l)

Next == Transaction \/ Outside
Spec == Init /\ [][Next]_vars

\* Blocks keep coming, and the two exits are open to anyone.
FairSpec == Spec /\ WF_vars(Tick) /\ WF_vars(RefundExpired) /\ WF_vars(RecoverExcess)
-----------------------------------------------------------------------------
\* Until it closes, the escrow holds at least what it still accounts for: no
\* settlement, donation or recovery eats into the rest of the budget. Nor do
\* donations widen the budget: all batches together stay within it.
Solvent == state # "Closed" => bal[Escrow] >= accountedBalance
BudgetRespected == spent <= Budget
BooksBalance == Solvent /\ BudgetRespected

\* A request is paid in one batch at most, whatever settlement keys it is
\* submitted under.
PaidOnce == \A k, l \in Settlements : \A i \in result[k], j \in result[l] :
              i.request = j.request => k = l /\ i = j

\* The three accounts of a payment agree: the spent counter, the results kept per
\* settlement key, and what the payees hold.
SpentIsPaid ==
  /\ spent = Total(UNION {result[k] : k \in Settlements})
  /\ spent = MapThenSumSet(LAMBDA a : bal[a], People \ {Buyer})

\* Whichever of the three exits closes the escrow, it leaves nothing behind and
\* the buyer receives all of it, as recorded.
ExitReturnsAll ==
  [][state # "Closed" /\ state' = "Closed"
       => /\ bal'[Escrow] = 0 /\ bal'[Buyer] = bal[Buyer] + bal[Escrow]
          /\ refund'.budget + refund'.excess = bal[Escrow]]_vars

\* A closed escrow stays closed, with its books and refunds as they were.
ClosedIsFinal == [][state = "Closed" => UNCHANGED <<state, books, refund>>]_vars

\* Money leaves only to the buyer or to the payout an active source lists at that
\* moment, and never to an address that holds a project role.
MoneyGoesToListed ==
  [][\A p \in People \ {Buyer} : bal'[p] # bal[p]
       => roles[p] = {} /\ \E s \in Sources : listing[s].active
                                              /\ listing[s].payout = p]_vars

\* Whatever pause, role changes and Registry updates do, the escrow ends closed
\* and empty: no money is stuck.
NothingIsStuck == <>[](state = "Closed" /\ bal[Escrow] = 0)
=============================================================================
