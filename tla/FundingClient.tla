----------------------------- MODULE FundingClient -----------------------------
(* The funding page in a buyer's browser: prepare, approve, createAndFund, the    *)
(* signature of the activation and the start request, with what they meet: the    *)
(* wallet, the login session, the page's copy of its progress in localStorage     *)
(* (one for all tabs and users of the browser), the server's research records and *)
(* the chain. A handler runs from one await to the next in one step; what it      *)
(* reads from its closure is the page as it was when the button was clicked.      *)
(* The budget of every research is the same, so an allowance is given or not.     *)
EXTENDS Integers, Sequences, FiniteSets

CONSTANTS
  Accounts,      \* wallets of the users of this browser
  Researches, Keys, Tabs,
  None,          \* no account, no key, no research
  MaxTx,         \* transactions sent in an exploration
  MaxLoads,      \* page loads (opened tabs and reloads)
  MaxSwitches    \* changes of the wallet's account or of the session

ASSUME ClientAssumption ==
  /\ None \notin Accounts \union Researches \union Keys
  /\ MaxTx \in Nat /\ MaxLoads \in Nat /\ MaxSwitches \in Nat

VARIABLES
  wallet,     \* the account connected; None: disconnected or on another network
  session,    \* the account signed in
  switches,   \* how often these two changed
  loads,      \* how many page loads there were
  store,      \* localStorage: the stored funding intent
  tab,        \* the pages
  rec,        \* the server's records
  late,       \* the researches whose funding deadline has passed
  escrow,     \* on chain, per research
  allowance,  \* on chain, per account: the Factory may take one budget
  txs         \* the transactions sent, in the order of sending

vars == <<wallet, session, switches, loads, store, tab, rec, late, escrow, allowance, txs>>
Users  == <<wallet, session, switches>>
Server == <<rec, late>>
Chain  == <<escrow, allowance, txs>>

Steps == {"idle", "preparing", "needs_approve", "needs_create", "checking_allowance",
          "approving", "funding", "funded", "signing_activation", "activating"}
\* fundingTxHash is the number of the transaction, 0 for null.
Intent   == [research : Researches \union {None}, key : Keys \union {None}, tx : 0..MaxTx]
NoIntent == [research |-> None, key |-> None, tx |-> 0]
NoPage   == [pc |-> "closed", step |-> "idle", intent |-> NoIntent, key |-> None,
             who |-> None, reply |-> None, tx |-> 0, life |-> 0]

TypeOK ==
  /\ wallet \in Accounts \union {None} /\ session \in Accounts \union {None}
  /\ switches \in 0..MaxSwitches /\ loads \in 0..MaxLoads
  /\ store \in [intent : Intent, step : Steps]
  /\ tab \in [Tabs ->
       [pc : {"closed", "idle", "preparing", "prepared", "allowance", "approving",
              "rechecking", "paying", "confirming", "signing", "starting", "live"},
        step : Steps, intent : Intent,
        key : Keys \union {None},            \* prepareKeyRef
        who : Accounts \union {None},        \* the account a handler has taken up
        reply : Researches \union {None},    \* the answer to the prepare request
        tx : 0..MaxTx,                       \* the hash the wallet returned
        life : 0..MaxLoads]]                 \* the page load it comes from
  /\ rec \in [Researches ->
       [state : {"none", "funding", "funded", "activating", "running", "ended"},
        buyer : Accounts \union {None}, key : Keys \union {None},
        tx : 0..MaxTx,                       \* funding transaction of the ACTIVATE payload
        life : 0..MaxLoads]]                 \* the page load that had it made
  /\ late \in SUBSET Researches
  /\ escrow \in [Researches -> {"none", "funded", "active", "closed"}]
  /\ allowance \in [Accounts -> BOOLEAN]
  /\ txs \in Seq([kind : {"approve", "create", "cancel"}, by : Accounts, of : Researches,
                  state : {"pending", "success", "reverted"}]) /\ Len(txs) <= MaxTx

Init ==
  /\ wallet \in Accounts /\ session = wallet /\ switches = 0 /\ loads = 0
  /\ store = [intent |-> NoIntent, step |-> "idle"]
  /\ tab = [t \in Tabs |-> NoPage]
  /\ rec = [r \in Researches |->
              [state |-> "none", buyer |-> None, key |-> None, tx |-> 0, life |-> 0]]
  /\ late = {}
  /\ escrow = [r \in Researches |-> "none"]
  /\ allowance \in [Accounts -> BOOLEAN]      \* one may be left from earlier
  /\ txs = <<>>
-----------------------------------------------------------------------------
\* assertFundingContext: the connected account and the session are the buyer of the
\* prepared research, whose deadline has not passed.
Context(r) == wallet = rec[r].buyer /\ session = rec[r].buyer /\ r \notin late

\* The page of a tab that waits in a handler, and one that waits for a click.
At(t, pc) == tab[t].pc = pc
Offers(t, steps) == At(t, "idle") /\ tab[t].intent # NoIntent /\ tab[t].step \in steps

\* A handler that ends with an error: the message is shown, nothing else changes.
GiveUp(t) == tab' = [tab EXCEPT ![t].pc = "idle", ![t].who = None,
                         ![t].reply = None, ![t].tx = 0]

\* persistFundingIntent of a next intent, in a handler that then stands at pc.
Persist(t, intent, step, pc) ==
  /\ tab' = [tab EXCEPT ![t].intent = intent, ![t].step = step, ![t].pc = pc,
               ![t].who = None, ![t].reply = None, ![t].tx = 0]
  /\ store' = [intent |-> intent, step |-> step]

Send(kind, by, r) ==
  /\ Len(txs) < MaxTx
  /\ txs' = Append(txs, [kind |-> kind, by |-> by, of |-> r, state |-> "pending"])

\* The page is opened or reloaded, whatever it was doing: parseStoredFundingIntent
\* and the effect that restores the stored intent, unless its deadline has passed.
Load(t) ==
  /\ loads < MaxLoads /\ loads' = loads + 1
  /\ LET i == store.intent IN
       tab' = [tab EXCEPT ![t] =
         IF i # NoIntent /\ i.research \notin late
         THEN [NoPage EXCEPT !.pc = "idle", !.life = loads', !.intent = i, !.key = i.key,
                 !.step = IF i.tx # 0 THEN "funded" ELSE store.step]
         ELSE [NoPage EXCEPT !.pc = "idle", !.life = loads']]
  /\ UNCHANGED <<Users, store, Server, Chain>>

\* The tab is closed, whatever it was doing. localStorage stays.
Close(t) ==
  /\ ~At(t, "closed") /\ tab' = [tab EXCEPT ![t] = NoPage]
  /\ UNCHANGED <<Users, loads, store, Server, Chain>>

FreshKeys == {k \in Keys : /\ \A u \in Tabs : tab[u].key # k
                           /\ \A r \in Researches : rec[r].key # k
                           /\ store.intent.key # k}
KeyOf(t) == IF tab[t].key = None THEN FreshKeys ELSE {tab[t].key}

\* Fault: every attempt takes a key of its own.
KeyOfAttempt(t) == FreshKeys
PrepareKey(t) == KeyOf(t)

\* submit, up to the request: the start button is there while there is no intent.
\* The account is remembered if it is both the wallet's and the session's.
Submit(t) ==
  /\ At(t, "idle") /\ tab[t].intent = NoIntent
  /\ \E k \in PrepareKey(t) :
       tab' = [tab EXCEPT ![t].key = k, ![t].pc = "preparing", ![t].step = "preparing",
                 ![t].who = IF wallet = session THEN wallet ELSE None]
  /\ UNCHANGED <<Users, loads, store, Server, Chain>>

\* prepareResearch on the server: the research of the key, if it is the session's,
\* or a new one; any other answer (401, 409, 429, 503) is an error to the page.
\* The answer may be lost.
ServePrepare(t) ==
  /\ At(t, "preparing")
  /\ \/ /\ session # None
        /\ \E r \in Researches :
             /\ IF \E x \in Researches : rec[x].key = tab[t].key
                THEN rec[r].key = tab[t].key /\ rec[r].buyer = session /\ UNCHANGED rec
                ELSE /\ rec[r].state = "none"
                     /\ rec' = [rec EXCEPT ![r] =
                          [state |-> "funding", buyer |-> session, key |-> tab[t].key,
                           tx |-> 0, life |-> tab[t].life]]
             /\ \/ tab' = [tab EXCEPT ![t].pc = "prepared", ![t].reply = r]
                \/ GiveUp(t)
     \/ GiveUp(t) /\ UNCHANGED rec
  /\ UNCHANGED <<Users, loads, store, late, Chain>>

\* prepareEscrowResearch after the answer; the accounts compared with the prepared
\* buyer are those of the click.
Prepared(t) ==
  /\ At(t, "prepared")
  /\ LET r == tab[t].reply IN
       IF rec[r].buyer = tab[t].who /\ r \notin late
       THEN Persist(t, [research |-> r, key |-> tab[t].key, tx |-> 0],
                    "checking_allowance", "allowance")
       ELSE GiveUp(t) /\ UNCHANGED store
  /\ UNCHANGED <<Users, loads, Server, Chain>>

\* readAllowance of the prepare, or its failure.
CheckAllowance(t) ==
  /\ At(t, "allowance")
  /\ LET i == tab[t].intent IN
       \/ Persist(t, i, IF allowance[rec[i.research].buyer] THEN "needs_create"
                        ELSE "needs_approve", "idle")
       \/ GiveUp(t) /\ UNCHANGED store
  /\ UNCHANGED <<Users, loads, Server, Chain>>
-----------------------------------------------------------------------------
\* approveUsdc: the wallet is asked at the click, with the account checked.
ClickApprove(t) ==
  /\ Offers(t, {"needs_approve"}) /\ Context(tab[t].intent.research)
  /\ Persist(t, tab[t].intent, "approving", "approving")
  /\ UNCHANGED <<Users, loads, Server, Chain>>

\* The approval is sent, and its receipt is not waited for; or the buyer, or the
\* wallet, refuses.
Approved(t) ==
  /\ At(t, "approving")
  /\ LET i == tab[t].intent IN
       \/ Send("approve", rec[i.research].buyer, i.research)
          /\ Persist(t, i, "needs_create", "idle")
       \/ GiveUp(t) /\ UNCHANGED <<store, txs>>
  /\ UNCHANGED <<Users, loads, Server, escrow, allowance>>

\* createAndFundEscrow up to the read of the allowance.
ClickCreate(t) ==
  /\ Offers(t, {"needs_create"}) /\ Context(tab[t].intent.research)
  /\ tab' = [tab EXCEPT ![t].pc = "rechecking"]
  /\ UNCHANGED <<Users, loads, store, Server, Chain>>

\* The allowance has been read, or could not be; the wallet is asked with the
\* account it has by now.
Recheck(t) ==
  /\ At(t, "rechecking")
  /\ LET i == tab[t].intent IN
       \/ allowance[rec[i.research].buyer]
          /\ store' = [intent |-> i, step |-> "funding"]
          /\ tab' = [tab EXCEPT ![t].step = "funding", ![t].who = wallet,
                       ![t].pc = IF wallet = None THEN "idle" ELSE "paying"]
       \/ ~allowance[rec[i.research].buyer] /\ Persist(t, i, "needs_approve", "idle")
       \/ GiveUp(t) /\ UNCHANGED store
  /\ UNCHANGED <<Users, loads, Server, Chain>>

\* createAndFund is sent, or refused.
Paid(t) ==
  /\ At(t, "paying")
  /\ \/ Send("create", tab[t].who, tab[t].intent.research)
        /\ tab' = [tab EXCEPT ![t].pc = "confirming", ![t].who = None,
                     ![t].tx = Len(txs')]
     \/ GiveUp(t) /\ UNCHANGED txs
  /\ UNCHANGED <<Users, loads, store, Server, escrow, allowance>>

\* Fault: the hash is added to what localStorage holds by now.
FundedStored(t) == [store.intent EXCEPT !.tx = tab[t].tx]
FundedIntent(t) == [tab[t].intent EXCEPT !.tx = tab[t].tx]

\* The receipt is there, whatever its status; or waiting for it fails.
Confirmed(t) ==
  /\ At(t, "confirming")
  /\ \/ /\ txs[tab[t].tx].state # "pending"
        /\ Persist(t, FundedIntent(t), "funded", "idle")
     \/ GiveUp(t) /\ UNCHANGED store
  /\ UNCHANGED <<Users, loads, Server, Chain>>

\* signActivationAndStart up to the signature.
ClickSign(t) ==
  /\ Offers(t, {"funded", "signing_activation"}) /\ tab[t].intent.tx # 0
  /\ Context(tab[t].intent.research)
  /\ Persist(t, tab[t].intent, "signing_activation", "signing")
  /\ UNCHANGED <<Users, loads, Server, Chain>>

\* Fault: a refused signature starts the funding again.
RefusedAfresh(i) == [i EXCEPT !.tx = 0]
Refused(i) == i

\* Fault: a refusal ends in a step that offers no button.
AfterRefusalFailed == "failed"
AfterRefusal == "funded"

\* The buyer signs, and the start request goes out; or refuses, and may try again.
Signed(t) ==
  /\ At(t, "signing")
  /\ \/ Persist(t, tab[t].intent, "activating", "starting")
     \/ Persist(t, Refused(tab[t].intent), AfterRefusal, "idle")
  /\ UNCHANGED <<Users, loads, Server, Chain>>

MayBegin(r) == rec[r].state = "funded" /\ r \notin late

\* startEscrowResearch, and what the page makes of the answer: a running research is
\* followed, and the stored intent is removed; with any other state of the research
\* the page stores its intent again. An error, or an answer that is lost, leaves the
\* step "activating" as it is.
ServeStart(t) ==
  /\ At(t, "starting")
  /\ LET r == tab[t].intent.research IN
       \/ /\ session = rec[r].buyer
          /\ \/ /\ MayBegin(r)
                /\ rec' = [rec EXCEPT ![r].state = "activating", ![r].tx = tab[t].intent.tx]
             \/ rec[r].state \in {"activating", "ended"} /\ UNCHANGED rec
          /\ \/ Persist(t, tab[t].intent, "activating", "idle")
             \/ GiveUp(t) /\ UNCHANGED store
       \/ /\ session = rec[r].buyer /\ rec[r].state = "running"
          /\ tab' = [tab EXCEPT ![t].pc = "live", ![t].intent = NoIntent, ![t].key = None]
          /\ store' = [intent |-> NoIntent, step |-> "idle"]
          /\ UNCHANGED rec
       \/ GiveUp(t) /\ UNCHANGED <<rec, store>>
  /\ UNCHANGED <<Users, loads, late, Chain>>

\* cancelFundedEscrow on the page of the research.
CancelFunded(r) ==
  /\ rec[r].state = "funded" /\ wallet = rec[r].buyer /\ session = rec[r].buyer
  /\ Send("cancel", wallet, r)
  /\ UNCHANGED <<Users, loads, store, tab, Server, escrow, allowance>>
-----------------------------------------------------------------------------
\* The user connects another account, disconnects or changes the network; signs in
\* as another user or loses the session.
SwitchWallet ==
  /\ switches < MaxSwitches /\ switches' = switches + 1
  /\ wallet' \in (Accounts \union {None}) \ {wallet}
  /\ UNCHANGED <<session, loads, store, tab, Server, Chain>>
SwitchSession ==
  /\ switches < MaxSwitches /\ switches' = switches + 1
  /\ session' \in (Accounts \union {None}) \ {session}
  /\ UNCHANGED <<wallet, loads, store, tab, Server, Chain>>

\* The Factory and the escrow take a transaction: createAndFund only from the buyer
\* of the voucher, once, in time and with the allowance it uses up.
Succeeds(x) ==
  CASE x.kind = "approve" -> TRUE
    [] x.kind = "create" -> /\ x.by = rec[x.of].buyer /\ escrow[x.of] = "none"
                            /\ x.of \notin late /\ allowance[x.by]
    [] x.kind = "cancel" -> escrow[x.of] = "funded"
Mine(n) ==
  /\ txs[n].state = "pending"
  /\ LET x == txs[n] IN
       /\ txs' = [txs EXCEPT ![n].state = IF Succeeds(x) THEN "success" ELSE "reverted"]
       /\ allowance' = IF Succeeds(x) /\ x.kind # "cancel"
                       THEN [allowance EXCEPT ![x.by] = x.kind = "approve"] ELSE allowance
       /\ escrow' = IF Succeeds(x) /\ x.kind # "approve"
                    THEN [escrow EXCEPT ![x.of] = IF x.kind = "create" THEN "funded" ELSE "closed"]
                    ELSE escrow
  /\ UNCHANGED <<Users, loads, store, tab, Server>>

\* The funding deadline passes.
Deadline(r) ==
  /\ rec[r].state # "none" /\ r \notin late /\ late' = late \union {r}
  /\ UNCHANGED <<Users, loads, store, tab, rec, Chain>>

\* External: no code of the repository writes the activation phase "funded", which the
\* start request requires. Whoever does is taken to do so of a funded escrow only.
MarkFunded(r) ==
  /\ rec[r].state = "funding" /\ escrow[r] = "funded"
  /\ rec' = [rec EXCEPT ![r].state = "funded"] /\ UNCHANGED escrow

\* The server gives up a research that is too late or whose escrow was closed; runs the
\* activation it accepted.
Follow(r) ==
  \/ /\ rec[r].state \in {"funding", "funded", "activating"}
     /\ r \in late \/ escrow[r] = "closed"
     /\ rec' = [rec EXCEPT ![r].state = "ended"] /\ UNCHANGED escrow
  \/ /\ rec[r].state = "activating" /\ escrow[r] = "funded" /\ r \notin late
     /\ rec' = [rec EXCEPT ![r].state = "running"]
     /\ escrow' = [escrow EXCEPT ![r] = "active"]

FollowChain(r) ==
  (MarkFunded(r) \/ Follow(r)) /\ UNCHANGED <<Users, loads, store, tab, late, allowance, txs>>

Page(t) ==
  \/ Load(t) \/ Close(t) \/ Submit(t) \/ ServePrepare(t) \/ Prepared(t) \/ CheckAllowance(t)
  \/ ClickApprove(t) \/ Approved(t) \/ ClickCreate(t) \/ Recheck(t) \/ Paid(t)
  \/ Confirmed(t) \/ ClickSign(t) \/ Signed(t) \/ ServeStart(t)

Next ==
  \/ \E t \in Tabs : Page(t)
  \/ \E r \in Researches : CancelFunded(r) \/ Deadline(r) \/ FollowChain(r)
  \/ \E n \in DOMAIN txs : Mine(n)
  \/ SwitchWallet \/ SwitchSession

Spec == Init /\ [][Next]_vars
-----------------------------------------------------------------------------
\* A page that is not reloaded reserves a place in the quota for one research only,
\* however often its prepare fails or its answer is lost and the user tries again
\* (the Idempotency-Key in prepareKeyRef outlives the attempts).
OneResearchPerLoad ==
  \A r, q \in Researches :
    rec[r].state # "none" /\ rec[q].state # "none" /\ rec[r].life = rec[q].life => r = q

\* The funding transaction a start request hands to the server is a createAndFund of
\* the very research it starts, though tabs share localStorage, reloads resume what
\* another tab stored, and the server does not look the transaction up.
StartNamesItsFunding ==
  \A r \in Researches : rec[r].tx # 0 =>
    txs[rec[r].tx].kind = "create" /\ txs[rec[r].tx].of = r

\* A research whose activation was accepted has an escrow that was funded, though the
\* page asks for the start on any receipt, a reverted one too. It rests on MarkFunded,
\* the start request looking at the phase of the record only.
ActivatedIsFunded ==
  \A r \in Researches : rec[r].state \in {"activating", "running"} => escrow[r] # "none"

StartsAreFunded == StartNamesItsFunding /\ ActivatedIsFunded

\* Once every open page shows the stored funding transaction, it stays stored and every
\* page goes on showing it, through refusals, errors, answers of the server, closed and
\* newly opened tabs and changes of account, until the research runs or is too late. A page
\* opened before the funding and left behind breaks it: it stores the intent it has,
\* without the transaction, over the one another tab stored.
ShowsStored(t) == At(t, "closed") \/ tab[t].intent = store.intent
FundingIsKept ==
  [][store.intent.tx # 0 /\ (\A t \in Tabs : ShowsStored(t)) =>
       \/ store'.intent = store.intent /\ \A t \in Tabs : ShowsStored(t)'
       \/ rec[store.intent.research].state = "running"
       \/ store.intent.research \in late]_vars

\* While the prepared buyer is connected and signed in and the deadline has not
\* passed, a page at rest offers the next step of the funding it shows, or says that
\* the activation is on its way: an error is recoverable.
ErrorsAreRecoverable ==
  \A t \in Tabs :
    At(t, "idle") /\ tab[t].intent # NoIntent /\ Context(tab[t].intent.research) =>
      tab[t].step \in {"needs_approve", "needs_create", "funded", "signing_activation",
                       "activating"}
=============================================================================
