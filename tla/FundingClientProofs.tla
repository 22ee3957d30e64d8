-------------------------- MODULE FundingClientProofs ---------------------------
(* The transaction a start request hands to the server is a createAndFund of the  *)
(* research it starts, and a research whose activation was accepted has an escrow *)
(* that was funded, for any number of users, pages, reloads, researches and       *)
(* transactions.                                                                  *)
(* A page load has one research made for it at most; and pages that all show the  *)
(* stored funding transaction keep it.                                            *)
(*                                                                                *)
(* The stored intent and the pages overwrite each other freely; what is kept is   *)
(* that an intent travels whole: wherever it is copied from, its hash names a     *)
(* createAndFund of its own research, since a page takes the hash it is given     *)
(* into the intent it paid for.                                                   *)
EXTENDS FundingClient, SequenceTheorems, TLAPS

Pcs == {"closed", "idle", "preparing", "prepared", "allowance", "approving",
        "rechecking", "paying", "confirming", "signing", "starting", "live"}
\* The pages that wait for something on behalf of a funding intent.
Handlers == {"allowance", "approving", "rechecking", "paying", "confirming",
             "signing", "starting"}

TabRec == [pc : Pcs, step : Steps, intent : Intent, key : Keys \union {None},
           who : Accounts \union {None}, reply : Researches \union {None},
           tx : 0..MaxTx, life : 0..MaxLoads]
RecRec == [state : {"none", "funding", "funded", "activating", "running", "ended"},
           buyer : Accounts \union {None}, key : Keys \union {None},
           tx : 0..MaxTx, life : 0..MaxLoads]
TxRec == [kind : {"approve", "create", "cancel"}, by : Accounts, of : Researches,
          state : {"pending", "success", "reverted"}]

NamesCreate(n, r) == n \in DOMAIN txs /\ txs[n].kind = "create" /\ txs[n].of = r
Prepares(r) == r \in Researches /\ rec[r].buyer \in Accounts

IntentOk(i) ==
  \/ i = NoIntent
  \/ Prepares(i.research) /\ (i.tx # 0 => NamesCreate(i.tx, i.research))

TabOk(x) ==
  /\ IntentOk(x.intent)
  /\ x.pc \in Handlers => x.intent # NoIntent
  /\ x.pc = "prepared" => Prepares(x.reply)
  /\ x.pc = "paying" => x.who \in Accounts
  /\ x.pc = "confirming" => NamesCreate(x.tx, x.intent.research)

Pages   == tab \in [Tabs -> TabRec] /\ \A t \in Tabs : TabOk(tab[t])
StoreOk == store \in [intent : Intent, step : Steps] /\ IntentOk(store.intent)
UsersOk == /\ wallet \in Accounts \union {None} /\ session \in Accounts \union {None}
           /\ switches \in 0..MaxSwitches /\ loads \in 0..MaxLoads
ServerOk ==
  /\ rec \in [Researches -> RecRec] /\ late \in SUBSET Researches
  /\ \A r \in Researches :
       /\ rec[r].state # "none" => rec[r].buyer \in Accounts
       /\ rec[r].tx # 0 => NamesCreate(rec[r].tx, r)
       /\ rec[r].state \in {"funded", "activating", "running"} => escrow[r] # "none"
ChainOk ==
  /\ escrow \in [Researches -> {"none", "funded", "active", "closed"}]
  /\ allowance \in [Accounts -> BOOLEAN]
  /\ txs \in Seq(TxRec) /\ Len(txs) <= MaxTx

Inv == Pages /\ StoreOk /\ UsersOk /\ ServerOk /\ ChainOk

\* What a step may do to transactions and records without disturbing the intents.
Grows ==
  /\ \A n \in DOMAIN txs : /\ n \in DOMAIN txs'
                           /\ txs'[n].kind = txs[n].kind /\ txs'[n].of = txs[n].of
  /\ \A r \in Researches : rec[r].buyer \in Accounts => rec'[r].buyer \in Accounts

--------------------------------------------------------------------------------
LEMMA NoIntentTyped == NoIntent \in Intent /\ NoIntent.tx = 0
BY ClientAssumption DEF NoIntent, Intent, ClientAssumption

LEMMA IntentsLast ==
  ASSUME Grows, NEW i, IntentOk(i)
  PROVE  IntentOk(i)'
BY DEF Grows, IntentOk, Prepares, NamesCreate

LEMMA TabsLast ==
  ASSUME Grows, NEW x, TabOk(x)
  PROVE  TabOk(x)'
<1>1. IntentOk(x.intent)' BY IntentsLast DEF TabOk
<1> QED BY <1>1 DEF Grows, TabOk, Prepares, NamesCreate

\* One page moves to y.
LEMMA PageMoves ==
  ASSUME Inv, Grows, NEW t \in Tabs, NEW y \in TabRec,
         tab' = [tab EXCEPT ![t] = y], TabOk(y)'
  PROVE  Pages'
<1>1. tab \in [Tabs -> TabRec] BY DEF Inv, Pages
<1>2. /\ tab' \in [Tabs -> TabRec] /\ tab'[t] = y
      /\ \A u \in Tabs \ {t} : tab'[u] = tab[u]
  BY <1>1
<1>3. ASSUME NEW u \in Tabs PROVE TabOk(tab[u])'
  <2>1. CASE u = t BY <1>2, <2>1
  <2>2. CASE u # t
    <3>1. PICK x \in TabRec : x = tab[u] /\ TabOk(x) BY <1>1 DEF Inv, Pages
    <3>2. TabOk(x)' BY <3>1, TabsLast
    <3>3. tab'[u] = x BY <1>2, <2>2, <3>1
    <3> QED BY <3>2, <3>3
  <2> QED BY <2>1, <2>2
<1> QED BY <1>2, <1>3 DEF Pages

LEMMA PagesLast ==
  ASSUME Inv, Grows, UNCHANGED tab
  PROVE  Pages'
<1>1. ASSUME NEW u \in Tabs PROVE TabOk(tab[u])'
  <2>1. PICK x : x = tab[u] /\ TabOk(x) BY DEF Inv, Pages
  <2> QED BY <2>1, TabsLast
<1> QED BY <1>1 DEF Inv, Pages

LEMMA StoreLasts ==
  ASSUME Inv, Grows, UNCHANGED store
  PROVE  StoreOk'
<1>1. PICK i : i = store.intent /\ IntentOk(i) BY DEF Inv, StoreOk
<1>2. IntentOk(i)' BY <1>1, IntentsLast
<1> QED BY <1>1, <1>2 DEF Inv, StoreOk

LEMMA Still ==
  ASSUME UNCHANGED <<rec, txs>>
  PROVE  Grows
BY DEF Grows

\* Records that do not change keep their promises when the chain grows.
LEMMA ServerLasts ==
  ASSUME Inv, Grows, UNCHANGED <<rec, late>>,
         \A r \in Researches : escrow[r] # "none" => escrow'[r] # "none"
  PROVE  ServerOk'
BY DEF Inv, Grows, ServerOk, NamesCreate

\* One record moves to z, for the same buyer.
LEMMA RecordMoves ==
  ASSUME Inv, NEW r \in Researches, NEW z \in RecRec,
         rec' = [rec EXCEPT ![r] = z], UNCHANGED <<late, txs>>,
         \A q \in Researches : escrow[q] # "none" => escrow'[q] # "none",
         z.buyer = rec[r].buyer, z.buyer \in Accounts,
         z.tx # 0 => NamesCreate(z.tx, r),
         z.state \in {"funded", "activating", "running"} => escrow'[r] # "none"
  PROVE  Grows /\ ServerOk'
<1>1. rec \in [Researches -> RecRec] /\ late \in SUBSET Researches BY DEF Inv, ServerOk
<1>2. /\ rec' \in [Researches -> RecRec] /\ rec'[r] = z
      /\ \A q \in Researches \ {r} : rec'[q] = rec[q]
  BY <1>1
<1>3. Grows BY <1>1, <1>2 DEF Grows
<1>4. ASSUME NEW q \in Researches
      PROVE  /\ rec'[q].state # "none" => rec'[q].buyer \in Accounts
             /\ rec'[q].tx # 0 => /\ rec'[q].tx \in DOMAIN txs'
                                  /\ txs'[rec'[q].tx].kind = "create"
                                  /\ txs'[rec'[q].tx].of = q
             /\ rec'[q].state \in {"funded", "activating", "running"} => escrow'[q] # "none"
  <2>1. CASE q = r BY <1>2, <2>1 DEF NamesCreate
  <2>2. CASE q # r
    <3>1. rec'[q] = rec[q] BY <1>2, <2>2
    <3> QED BY <3>1 DEF Inv, ServerOk, NamesCreate
  <2> QED BY <2>1, <2>2
<1>5. ServerOk' BY <1>1, <1>2, <1>4 DEF ServerOk, NamesCreate
<1> QED BY <1>3, <1>5

\* A handler that gives up.
LEMMA GiveUpMoves ==
  ASSUME Inv, Grows, NEW t \in Tabs, GiveUp(t)
  PROVE  Pages'
<1>1. tab \in [Tabs -> TabRec] /\ tab[t] \in TabRec /\ TabOk(tab[t]) BY DEF Inv, Pages
<1>2. PICK y \in TabRec :
        /\ y = [tab[t] EXCEPT !.pc = "idle", !.who = None, !.reply = None, !.tx = 0]
        /\ y.pc = "idle" /\ y.intent = tab[t].intent
  <2> DEFINE y == [tab[t] EXCEPT !.pc = "idle", !.who = None, !.reply = None, !.tx = 0]
  <2>1. 0 \in 0..MaxTx BY ClientAssumption DEF ClientAssumption
  <2>2. y \in TabRec BY <1>1, <2>1 DEF TabRec, Pcs
  <2>3. y.pc = "idle" /\ y.intent = tab[t].intent BY <1>1 DEF TabRec
  <2>4. y = [tab[t] EXCEPT !.pc = "idle", !.who = None, !.reply = None, !.tx = 0] OBVIOUS
  <2> HIDE DEF y
  <2> QED BY <2>2, <2>3, <2>4
<1>3. tab' = [tab EXCEPT ![t] = y] BY <1>1, <1>2 DEF GiveUp
<1>4. TabOk(y) BY <1>1, <1>2 DEF TabOk, Handlers
<1>5. TabOk(y)' BY <1>4, TabsLast
<1> QED BY <1>3, <1>5, PageMoves

\* A handler that stores its intent and goes on.
LEMMA PersistMoves ==
  ASSUME Inv, Grows, NEW t \in Tabs, NEW i \in Intent, IntentOk(i),
         NEW step \in Steps, NEW pc \in {"idle", "allowance", "approving", "signing", "starting"},
         pc # "idle" => i # NoIntent, Persist(t, i, step, pc)
  PROVE  Pages' /\ StoreOk'
<1>1. tab \in [Tabs -> TabRec] /\ tab[t] \in TabRec BY DEF Inv, Pages
<1>2. PICK y \in TabRec :
        /\ y = [tab[t] EXCEPT !.intent = i, !.step = step, !.pc = pc,
                              !.who = None, !.reply = None, !.tx = 0]
        /\ y.pc = pc /\ y.intent = i
  <2> DEFINE y == [tab[t] EXCEPT !.intent = i, !.step = step, !.pc = pc,
                                 !.who = None, !.reply = None, !.tx = 0]
  <2>1. 0 \in 0..MaxTx BY ClientAssumption DEF ClientAssumption
  <2>2. y \in TabRec BY <1>1, <2>1 DEF TabRec, Pcs
  <2>3. y.pc = pc /\ y.intent = i BY <1>1 DEF TabRec
  <2>4. y = [tab[t] EXCEPT !.intent = i, !.step = step, !.pc = pc,
                           !.who = None, !.reply = None, !.tx = 0] OBVIOUS
  <2> HIDE DEF y
  <2> QED BY <2>2, <2>3, <2>4
<1>3. tab' = [tab EXCEPT ![t] = y] BY <1>1, <1>2 DEF Persist
<1>4. TabOk(y) BY <1>2 DEF TabOk, Handlers
<1>5. TabOk(y)' BY <1>4, TabsLast
<1>6. Pages' BY <1>3, <1>5, PageMoves
<1>7. IntentOk(i)' BY IntentsLast
<1>8. store' = [intent |-> i, step |-> step] BY DEF Persist
<1>9. StoreOk' BY <1>7, <1>8 DEF StoreOk
<1> QED BY <1>6, <1>9

--------------------------------------------------------------------------------
(* The steps of a page up to the funding.                                          *)

LEMMA Unmoved ==
  ASSUME Inv, UNCHANGED <<rec, late, escrow, allowance, txs>>
  PROVE  Grows /\ ServerOk' /\ ChainOk'
<1>1. Grows BY Still
<1>2. ServerOk' BY <1>1, ServerLasts
<1> QED BY <1>1, <1>2 DEF Inv, ChainOk

LEMMA LoadKeeps ==
  ASSUME Inv, NEW t \in Tabs, Load(t)
  PROVE  Inv'
<1>1. /\ store.intent \in Intent /\ store.step \in Steps /\ IntentOk(store.intent)
      /\ tab \in [Tabs -> TabRec] /\ loads \in 0..MaxLoads
  BY DEF Inv, StoreOk, Pages, UsersOk
<1>2. PICK i \in Intent : i = store.intent /\ IntentOk(i) BY <1>1
<1>3. Grows /\ ServerOk' /\ ChainOk' BY Unmoved DEF Load, Server, Chain
<1>4. loads' \in 0..MaxLoads
  BY <1>1, ClientAssumption DEF Load, ClientAssumption
<1>5. UsersOk' BY <1>4 DEF Load, Users, Inv, UsersOk
<1>6. StoreOk' BY <1>3, StoreLasts DEF Load
<1>7. NoPage \in TabRec /\ NoPage.intent = NoIntent
  <2>1. 0 \in 0..MaxTx /\ 0 \in 0..MaxLoads BY ClientAssumption DEF ClientAssumption
  <2> QED BY <2>1, NoIntentTyped DEF NoPage, TabRec, Pcs, Steps
<1>8. PICK step \in Steps : step = IF i.tx # 0 THEN "funded" ELSE store.step
  BY <1>1 DEF Steps
<1>9. i.key \in Keys \union {None} BY DEF Intent
<1>10. CASE tab' = [tab EXCEPT ![t] = [NoPage EXCEPT !.pc = "idle", !.life = loads',
                     !.intent = i, !.key = i.key, !.step = step]]
  <2>1. PICK y \in TabRec :
          /\ y = [NoPage EXCEPT !.pc = "idle", !.life = loads', !.intent = i,
                                !.key = i.key, !.step = step]
          /\ y.pc = "idle" /\ y.intent = i
    <3> DEFINE y == [NoPage EXCEPT !.pc = "idle", !.life = loads', !.intent = i,
                                   !.key = i.key, !.step = step]
    <3>1. y \in TabRec BY <1>4, <1>7, <1>9 DEF TabRec, Pcs
    <3>2. y.pc = "idle" /\ y.intent = i BY <1>7 DEF TabRec
    <3>3. y = [NoPage EXCEPT !.pc = "idle", !.life = loads', !.intent = i,
                             !.key = i.key, !.step = step]
      OBVIOUS
    <3> HIDE DEF y
    <3> QED BY <3>1, <3>2, <3>3
  <2>2. TabOk(y) BY <1>2, <2>1 DEF TabOk, Handlers
  <2>3. TabOk(y)' BY <1>3, <2>2, TabsLast
  <2>4. tab' = [tab EXCEPT ![t] = y] BY <1>10, <2>1
  <2>5. Pages' BY <1>3, <2>3, <2>4, PageMoves
  <2> QED BY <1>3, <1>5, <1>6, <2>5 DEF Inv
<1>11. CASE tab' = [tab EXCEPT ![t] = [NoPage EXCEPT !.pc = "idle", !.life = loads']]
  <2>1. PICK y \in TabRec : /\ y = [NoPage EXCEPT !.pc = "idle", !.life = loads']
                            /\ y.pc = "idle" /\ y.intent = NoIntent
    <3> DEFINE y == [NoPage EXCEPT !.pc = "idle", !.life = loads']
    <3>1. y \in TabRec BY <1>4, <1>7 DEF TabRec, Pcs
    <3>2. y.pc = "idle" /\ y.intent = NoIntent BY <1>7 DEF TabRec
    <3>3. y = [NoPage EXCEPT !.pc = "idle", !.life = loads'] OBVIOUS
    <3> HIDE DEF y
    <3> QED BY <3>1, <3>2, <3>3
  <2>2. TabOk(y) BY <2>1 DEF TabOk, Handlers, IntentOk
  <2>3. TabOk(y)' BY <1>3, <2>2, TabsLast
  <2>4. tab' = [tab EXCEPT ![t] = y] BY <1>11, <2>1
  <2>5. Pages' BY <1>3, <2>3, <2>4, PageMoves
  <2> QED BY <1>3, <1>5, <1>6, <2>5 DEF Inv
<1>12. CASE i # NoIntent /\ i.research \notin late
  <2>1. tab' = [tab EXCEPT ![t] = [NoPage EXCEPT !.pc = "idle", !.life = loads',
                  !.intent = i, !.key = i.key,
                  !.step = IF i.tx # 0 THEN "funded" ELSE store.step]]
    BY <1>2, <1>12 DEF Load
  <2>2. tab' = [tab EXCEPT ![t] = [NoPage EXCEPT !.pc = "idle", !.life = loads',
                  !.intent = i, !.key = i.key, !.step = step]]
    BY <1>8, <2>1
  <2> QED BY <1>10, <2>2
<1>13. CASE ~(i # NoIntent /\ i.research \notin late)
  BY <1>2, <1>11, <1>13 DEF Load
<1> QED BY <1>12, <1>13

LEMMA CloseKeeps ==
  ASSUME Inv, NEW t \in Tabs, Close(t)
  PROVE  Inv'
<1>1. Grows /\ ServerOk' /\ ChainOk' BY Unmoved DEF Close, Server, Chain
<1>2. UsersOk' /\ StoreOk' BY <1>1, StoreLasts DEF Close, Users, Inv, UsersOk
<1>3. NoPage \in TabRec
  <2>1. 0 \in 0..MaxTx /\ 0 \in 0..MaxLoads BY ClientAssumption DEF ClientAssumption
  <2> QED BY <2>1, NoIntentTyped DEF NoPage, TabRec, Pcs, Steps
<1>4. TabOk(NoPage)' BY DEF NoPage, TabOk, Handlers, IntentOk
<1>5. tab' = [tab EXCEPT ![t] = NoPage] BY DEF Close
<1>6. Pages' BY <1>1, <1>3, <1>4, <1>5, PageMoves
<1> QED BY <1>1, <1>2, <1>6 DEF Inv

LEMMA SubmitKeeps ==
  ASSUME Inv, NEW t \in Tabs, Submit(t)
  PROVE  Inv'
<1>1. tab \in [Tabs -> TabRec] /\ tab[t] \in TabRec /\ tab[t].intent = NoIntent
  BY DEF Inv, Pages, Submit
<1>2. Grows /\ ServerOk' /\ ChainOk' BY Unmoved DEF Submit, Server, Chain
<1>3. UsersOk' BY DEF Submit, Users, Inv, UsersOk
<1>4. StoreOk' BY <1>2, StoreLasts DEF Submit
<1>5. PICK k \in Keys \union {None}, w \in Accounts \union {None} :
        tab' = [tab EXCEPT ![t].key = k, ![t].pc = "preparing", ![t].step = "preparing",
                           ![t].who = w]
  <2>1. PrepareKey(t) \subseteq Keys \union {None}
    BY <1>1 DEF PrepareKey, KeyOf, FreshKeys, TabRec
  <2>2. PICK w \in Accounts \union {None} : w = IF wallet = session THEN wallet ELSE None
    BY DEF Inv, UsersOk
  <2> QED BY <2>1, <2>2 DEF Submit
<1>6. PICK y \in TabRec :
        /\ y = [tab[t] EXCEPT !.key = k, !.pc = "preparing", !.step = "preparing", !.who = w]
        /\ y.pc = "preparing" /\ y.intent = NoIntent
  <2> DEFINE y == [tab[t] EXCEPT !.key = k, !.pc = "preparing", !.step = "preparing",
                                 !.who = w]
  <2>1. y \in TabRec BY <1>1 DEF TabRec, Pcs, Steps
  <2>2. y.pc = "preparing" /\ y.intent = NoIntent BY <1>1 DEF TabRec
  <2>3. y = [tab[t] EXCEPT !.key = k, !.pc = "preparing", !.step = "preparing", !.who = w]
    OBVIOUS
  <2> HIDE DEF y
  <2> QED BY <2>1, <2>2, <2>3
<1>7. tab' = [tab EXCEPT ![t] = y] BY <1>1, <1>5, <1>6
<1>8. TabOk(y) BY <1>6 DEF TabOk, Handlers, IntentOk
<1>9. TabOk(y)' BY <1>2, <1>8, TabsLast
<1>10. Pages' BY <1>2, <1>7, <1>9, PageMoves
<1> QED BY <1>2, <1>3, <1>4, <1>10 DEF Inv

\* The record that prepare makes or finds belongs to the account signed in.
LEMMA ServePrepareKeeps ==
  ASSUME Inv, NEW t \in Tabs, ServePrepare(t)
  PROVE  Inv'
<1>1. /\ tab \in [Tabs -> TabRec] /\ tab[t] \in TabRec /\ TabOk(tab[t])
      /\ rec \in [Researches -> RecRec] /\ late \in SUBSET Researches
      /\ UNCHANGED <<late, escrow, allowance, txs, loads, store, wallet, session, switches>>
  BY DEF Inv, Pages, ServerOk, ServePrepare, Users, Chain
<1>2. UsersOk' BY <1>1 DEF Inv, UsersOk
<1>3. ChainOk' BY <1>1 DEF Inv, ChainOk
<1>4. CASE GiveUp(t) /\ UNCHANGED rec
  <2>1. Grows /\ ServerOk' BY <1>1, <1>4, Unmoved
  <2>2. Pages' BY <1>4, <2>1, GiveUpMoves
  <2>3. StoreOk' BY <1>1, <2>1, StoreLasts
  <2> QED BY <1>2, <1>3, <2>1, <2>2, <2>3 DEF Inv
<1>5. CASE ~(GiveUp(t) /\ UNCHANGED rec)
  <2>1. PICK r \in Researches, s \in Accounts :
          /\ s = session
          /\ \/ rec[r].buyer = s /\ UNCHANGED rec
             \/ /\ rec[r].state = "none"
                /\ rec' = [rec EXCEPT ![r] = [state |-> "funding", buyer |-> s,
                             key |-> tab[t].key, tx |-> 0, life |-> tab[t].life]]
          /\ \/ tab' = [tab EXCEPT ![t].pc = "prepared", ![t].reply = r]
             \/ GiveUp(t)
    <3>1. session # None /\ session \in Accounts
      BY <1>5 DEF ServePrepare, Inv, UsersOk
    <3> QED BY <1>5, <3>1 DEF ServePrepare
  <2>2. Grows /\ ServerOk' /\ rec'[r].buyer = s
    <3>1. CASE rec[r].buyer = s /\ UNCHANGED rec BY <1>1, <3>1, Unmoved
    <3>2. CASE /\ rec[r].state = "none"
               /\ rec' = [rec EXCEPT ![r] = [state |-> "funding", buyer |-> s,
                            key |-> tab[t].key, tx |-> 0, life |-> tab[t].life]]
      <4>1. PICK z \in RecRec :
              /\ z = [state |-> "funding", buyer |-> s, key |-> tab[t].key, tx |-> 0,
                      life |-> tab[t].life]
              /\ z.state = "funding" /\ z.buyer = s /\ z.tx = 0
        <5> DEFINE z == [state |-> "funding", buyer |-> s, key |-> tab[t].key, tx |-> 0,
                         life |-> tab[t].life]
        <5>1. 0 \in 0..MaxTx BY ClientAssumption DEF ClientAssumption
        <5>2. tab[t].key \in Keys \union {None} /\ tab[t].life \in 0..MaxLoads
          BY <1>1 DEF TabRec
        <5>3. z \in RecRec BY <5>1, <5>2 DEF RecRec
        <5>4. z.state = "funding" /\ z.buyer = s /\ z.tx = 0 OBVIOUS
        <5>5. z = [state |-> "funding", buyer |-> s, key |-> tab[t].key, tx |-> 0,
                   life |-> tab[t].life] OBVIOUS
        <5> HIDE DEF z
        <5> QED BY <5>3, <5>4, <5>5
      <4>2. /\ rec' \in [Researches -> RecRec] /\ rec'[r] = z
            /\ \A q \in Researches \ {r} : rec'[q] = rec[q]
        BY <1>1, <3>2, <4>1
      <4>3. Grows BY <1>1, <4>1, <4>2 DEF Grows
      <4>4. ServerOk' BY <1>1, <4>1, <4>2 DEF Inv, ServerOk, NamesCreate
      <4> QED BY <4>1, <4>2, <4>3, <4>4
    <3> QED BY <2>1, <3>1, <3>2
  <2>3. StoreOk' BY <1>1, <2>2, StoreLasts
  <2>4. CASE GiveUp(t)
    <3>1. Pages' BY <2>2, <2>4, GiveUpMoves
    <3> QED BY <1>2, <1>3, <2>2, <2>3, <3>1 DEF Inv
  <2>5. CASE tab' = [tab EXCEPT ![t].pc = "prepared", ![t].reply = r]
    <3>1. PICK y \in TabRec :
            /\ y = [tab[t] EXCEPT !.pc = "prepared", !.reply = r]
            /\ y.pc = "prepared" /\ y.reply = r /\ y.intent = tab[t].intent
      <4> DEFINE y == [tab[t] EXCEPT !.pc = "prepared", !.reply = r]
      <4>1. y \in TabRec BY <1>1 DEF TabRec, Pcs
      <4>2. y.pc = "prepared" /\ y.reply = r /\ y.intent = tab[t].intent
        BY <1>1 DEF TabRec
      <4>3. y = [tab[t] EXCEPT !.pc = "prepared", !.reply = r] OBVIOUS
      <4> HIDE DEF y
      <4> QED BY <4>1, <4>2, <4>3
    <3>2. tab' = [tab EXCEPT ![t] = y] BY <1>1, <2>5, <3>1
    <3>3. PICK i : i = tab[t].intent /\ IntentOk(i) BY <1>1 DEF TabOk
    <3>4. IntentOk(i)' BY <2>2, <3>3, IntentsLast
    <3>5. Prepares(r)' BY <2>1, <2>2 DEF Prepares
    <3>6. TabOk(y)' BY <3>1, <3>3, <3>4, <3>5 DEF TabOk, Handlers
    <3>7. Pages' BY <2>2, <3>2, <3>6, PageMoves
    <3> QED BY <1>2, <1>3, <2>2, <2>3, <3>7 DEF Inv
  <2> QED BY <2>1, <2>4, <2>5
<1> QED BY <1>4, <1>5

\* A step of a page that touches neither server nor chain.
LEMMA PageOnly ==
  ASSUME Inv, UNCHANGED <<wallet, session, switches, loads, rec, late, escrow, allowance, txs>>,
         Pages', StoreOk'
  PROVE  Inv'
<1>1. ServerOk' /\ ChainOk' BY Unmoved
<1> QED BY <1>1 DEF Inv, UsersOk

LEMMA IntentOf ==
  ASSUME Inv, NEW t \in Tabs
  PROVE  /\ tab \in [Tabs -> TabRec] /\ tab[t] \in TabRec /\ TabOk(tab[t])
         /\ tab[t].intent \in Intent /\ IntentOk(tab[t].intent)
BY DEF Inv, Pages, TabOk, TabRec

LEMMA PreparedKeeps ==
  ASSUME Inv, NEW t \in Tabs, Prepared(t)
  PROVE  Inv'
<1>1. tab[t] \in TabRec /\ TabOk(tab[t]) BY IntentOf
<1>2. UNCHANGED <<wallet, session, switches, loads, rec, late, escrow, allowance, txs>>
  BY DEF Prepared, Users, Server, Chain
<1>3. Grows BY <1>2, Still
<1>4. CASE GiveUp(t) /\ UNCHANGED store
  BY <1>2, <1>3, <1>4, GiveUpMoves, StoreLasts, PageOnly
<1>5. CASE ~(GiveUp(t) /\ UNCHANGED store)
  <2>1. PICK i \in Intent :
          /\ i = [research |-> tab[t].reply, key |-> tab[t].key, tx |-> 0]
          /\ i.research = tab[t].reply /\ i.tx = 0
    <3> DEFINE i == [research |-> tab[t].reply, key |-> tab[t].key, tx |-> 0]
    <3>1. 0 \in 0..MaxTx BY ClientAssumption DEF ClientAssumption
    <3>2. i \in Intent BY <1>1, <3>1 DEF TabRec, Intent
    <3>3. i.research = tab[t].reply /\ i.tx = 0 OBVIOUS
    <3>4. i = [research |-> tab[t].reply, key |-> tab[t].key, tx |-> 0] OBVIOUS
    <3> HIDE DEF i
    <3> QED BY <3>2, <3>3, <3>4
  <2>2. Persist(t, i, "checking_allowance", "allowance") BY <1>5, <2>1 DEF Prepared
  <2>3. Prepares(i.research) BY <1>1, <2>1 DEF TabOk, Prepared, At
  <2>4. IntentOk(i) /\ i # NoIntent
    BY <2>1, <2>3, ClientAssumption DEF IntentOk, Prepares, NoIntent, ClientAssumption
  <2>5. "checking_allowance" \in Steps BY DEF Steps
  <2>6. Pages' /\ StoreOk' BY <1>3, <2>2, <2>4, <2>5, PersistMoves
  <2> QED BY <1>2, <2>6, PageOnly
<1> QED BY <1>4, <1>5

\* The handlers that store the intent they have, with another step, or give up.
LEMMA SameIntent ==
  ASSUME Inv, NEW t \in Tabs,
         UNCHANGED <<wallet, session, switches, loads, rec, late, escrow, allowance, txs>>,
         \/ GiveUp(t) /\ UNCHANGED store
         \/ \E step \in Steps, pc \in {"idle", "allowance", "approving", "signing", "starting"} :
              /\ pc # "idle" => tab[t].intent # NoIntent
              /\ Persist(t, tab[t].intent, step, pc)
  PROVE  Inv'
<1>1. Grows BY Still
<1>2. CASE GiveUp(t) /\ UNCHANGED store
  BY <1>1, <1>2, GiveUpMoves, StoreLasts, PageOnly
<1>3. CASE \E step \in Steps, pc \in {"idle", "allowance", "approving", "signing", "starting"} :
             /\ pc # "idle" => tab[t].intent # NoIntent
             /\ Persist(t, tab[t].intent, step, pc)
  <2>1. PICK i \in Intent : i = tab[t].intent /\ IntentOk(i) BY IntentOf
  <2>2. PICK step \in Steps, pc \in {"idle", "allowance", "approving", "signing", "starting"} :
             /\ pc # "idle" => i # NoIntent
             /\ Persist(t, i, step, pc)
    BY <1>3, <2>1
  <2>3. Pages' /\ StoreOk' BY <1>1, <2>1, <2>2, PersistMoves
  <2> QED BY <2>3, PageOnly
<1> QED BY <1>2, <1>3

LEMMA ClicksKeep ==
  ASSUME Inv, NEW t \in Tabs,
         CheckAllowance(t) \/ ClickApprove(t) \/ ClickSign(t) \/ Signed(t)
  PROVE  Inv'
<1>1. UNCHANGED <<wallet, session, switches, loads, rec, late, escrow, allowance, txs>>
  BY DEF CheckAllowance, ClickApprove, ClickSign, Signed, Users, Server, Chain
<1>2. {"needs_create", "needs_approve", "approving", "signing_activation", "activating",
       "funded"} \subseteq Steps
  BY DEF Steps
<1>3. CASE CheckAllowance(t)
  <2>1. PICK step \in {"needs_create", "needs_approve"} :
          step = IF allowance[rec[tab[t].intent.research].buyer] THEN "needs_create"
                 ELSE "needs_approve"
    OBVIOUS
  <2>2. Persist(t, tab[t].intent, step, "idle") \/ (GiveUp(t) /\ UNCHANGED store)
    BY <1>3, <2>1 DEF CheckAllowance
  <2> QED BY <1>1, <1>2, <2>2, SameIntent
<1>4. CASE ClickApprove(t)
  <2>1. Persist(t, tab[t].intent, "approving", "approving") /\ tab[t].intent # NoIntent
    BY <1>4 DEF ClickApprove, Offers
  <2> QED BY <1>1, <1>2, <2>1, SameIntent
<1>5. CASE ClickSign(t)
  <2>1. Persist(t, tab[t].intent, "signing_activation", "signing")
        /\ tab[t].intent # NoIntent
    BY <1>5 DEF ClickSign, Offers
  <2> QED BY <1>1, <1>2, <2>1, SameIntent
<1>6. CASE Signed(t)
  <2>1. tab[t].intent # NoIntent BY <1>6, IntentOf DEF Signed, At, TabOk, Handlers
  <2>2. \/ Persist(t, tab[t].intent, "activating", "starting")
        \/ Persist(t, tab[t].intent, "funded", "idle")
    BY <1>6 DEF Signed, Refused, AfterRefusal
  <2> QED BY <1>1, <1>2, <2>1, <2>2, SameIntent
<1> QED BY <1>3, <1>4, <1>5, <1>6

LEMMA Sends ==
  ASSUME Inv, NEW kind \in {"approve", "create", "cancel"}, NEW by \in Accounts,
         NEW r \in Researches, Send(kind, by, r), UNCHANGED <<rec, late, escrow, allowance>>
  PROVE  /\ Grows /\ ServerOk' /\ ChainOk'
         /\ Len(txs') \in 0..MaxTx /\ Len(txs') \in DOMAIN txs'
         /\ txs'[Len(txs')].kind = kind /\ txs'[Len(txs')].of = r
<1>1. PICK x \in TxRec : /\ x = [kind |-> kind, by |-> by, of |-> r, state |-> "pending"]
                         /\ x.kind = kind /\ x.of = r
  <2> DEFINE x == [kind |-> kind, by |-> by, of |-> r, state |-> "pending"]
  <2>1. x \in TxRec BY DEF TxRec
  <2>2. x.kind = kind /\ x.of = r OBVIOUS
  <2>3. x = [kind |-> kind, by |-> by, of |-> r, state |-> "pending"] OBVIOUS
  <2> HIDE DEF x
  <2> QED BY <2>1, <2>2, <2>3
<1>2. txs \in Seq(TxRec) /\ Len(txs) < MaxTx /\ txs' = Append(txs, x)
  BY <1>1 DEF Inv, ChainOk, Send
<1>3. /\ txs' \in Seq(TxRec) /\ Len(txs') = Len(txs) + 1
      /\ DOMAIN txs = 1..Len(txs) /\ DOMAIN txs' = 1..Len(txs')
      /\ \A n \in 1..Len(txs) : txs'[n] = txs[n]
      /\ txs'[Len(txs) + 1] = x /\ Len(txs) \in Nat
  BY <1>2
<1>4. Grows BY <1>3 DEF Grows
<1>5. ServerOk' BY <1>4, ServerLasts
<1>6. ChainOk' BY <1>2, <1>3, ClientAssumption DEF ClientAssumption, Inv, ChainOk
<1> QED BY <1>1, <1>2, <1>3, <1>4, <1>5, <1>6, ClientAssumption DEF ClientAssumption

LEMMA ApprovedKeeps ==
  ASSUME Inv, NEW t \in Tabs, Approved(t)
  PROVE  Inv'
<1>1. UNCHANGED <<wallet, session, switches, loads, rec, late, escrow, allowance>>
  BY DEF Approved, Users, Server
<1>2. CASE GiveUp(t) /\ UNCHANGED <<store, txs>> BY <1>1, <1>2, SameIntent
<1>3. CASE ~(GiveUp(t) /\ UNCHANGED <<store, txs>>)
  <2>1. PICK i \in Intent : i = tab[t].intent /\ IntentOk(i) BY IntentOf
  <2>2. i # NoIntent BY <2>1, IntentOf DEF Approved, At, TabOk, Handlers
  <2>3. PICK r \in Researches, b \in Accounts : r = i.research /\ b = rec[r].buyer
    BY <2>1, <2>2 DEF IntentOk, Prepares
  <2>4. Send("approve", b, r) /\ Persist(t, i, "needs_create", "idle")
    BY <1>3, <2>1, <2>3 DEF Approved
  <2>5. Grows /\ ServerOk' /\ ChainOk' BY <1>1, <2>4, Sends
  <2>6. "needs_create" \in Steps BY DEF Steps
  <2>7. Pages' /\ StoreOk' BY <2>1, <2>4, <2>5, <2>6, PersistMoves
  <2> QED BY <1>1, <2>5, <2>7 DEF Inv, UsersOk
<1> QED BY <1>2, <1>3

LEMMA CreateKeeps ==
  ASSUME Inv, NEW t \in Tabs, ClickCreate(t)
  PROVE  Inv'
<1>1. /\ tab \in [Tabs -> TabRec] /\ tab[t] \in TabRec /\ TabOk(tab[t])
      /\ tab[t].intent # NoIntent
  BY IntentOf DEF ClickCreate, Offers
<1>2. UNCHANGED <<wallet, session, switches, loads, rec, late, escrow, allowance, txs, store>>
  BY DEF ClickCreate, Users, Server, Chain
<1>3. PICK y \in TabRec : /\ y = [tab[t] EXCEPT !.pc = "rechecking"]
                          /\ y.pc = "rechecking" /\ y.intent = tab[t].intent
  <2> DEFINE y == [tab[t] EXCEPT !.pc = "rechecking"]
  <2>1. y \in TabRec BY <1>1 DEF TabRec, Pcs
  <2>2. y.pc = "rechecking" /\ y.intent = tab[t].intent BY <1>1 DEF TabRec
  <2>3. y = [tab[t] EXCEPT !.pc = "rechecking"] OBVIOUS
  <2> HIDE DEF y
  <2> QED BY <2>1, <2>2, <2>3
<1>4. tab' = [tab EXCEPT ![t] = y] BY <1>1, <1>3 DEF ClickCreate
<1>5. TabOk(y) BY <1>1, <1>3 DEF TabOk
<1>6. Grows BY <1>2, Still
<1>7. TabOk(y)' BY <1>5, <1>6, TabsLast
<1>8. Pages' BY <1>4, <1>6, <1>7, PageMoves
<1>9. StoreOk' BY <1>2, <1>6, StoreLasts
<1> QED BY <1>2, <1>8, <1>9, PageOnly

LEMMA RecheckKeeps ==
  ASSUME Inv, NEW t \in Tabs, Recheck(t)
  PROVE  Inv'
<1>1. /\ tab \in [Tabs -> TabRec] /\ tab[t] \in TabRec /\ TabOk(tab[t])
      /\ tab[t].intent # NoIntent
  BY IntentOf DEF Recheck, At, TabOk, Handlers
<1>2. UNCHANGED <<wallet, session, switches, loads, rec, late, escrow, allowance, txs>>
  BY DEF Recheck, Users, Server, Chain
<1>3. "needs_approve" \in Steps /\ "funding" \in Steps BY DEF Steps
<1>4. CASE \/ Persist(t, tab[t].intent, "needs_approve", "idle")
           \/ GiveUp(t) /\ UNCHANGED store
  BY <1>2, <1>3, <1>4, SameIntent
<1>5. CASE /\ store' = [intent |-> tab[t].intent, step |-> "funding"]
           /\ tab' = [tab EXCEPT ![t].step = "funding", ![t].who = wallet,
                        ![t].pc = IF wallet = None THEN "idle" ELSE "paying"]
  <2>1. PICK i \in Intent : i = tab[t].intent /\ IntentOk(i) BY IntentOf
  <2>2. PICK w \in Accounts \union {None}, pc \in {"idle", "paying"} :
          /\ w = wallet /\ pc = IF wallet = None THEN "idle" ELSE "paying"
    BY DEF Inv, UsersOk
  <2>3. PICK y \in TabRec :
          /\ y = [tab[t] EXCEPT !.step = "funding", !.who = w, !.pc = pc]
          /\ y.pc = pc /\ y.who = w /\ y.intent = i
    <3> DEFINE y == [tab[t] EXCEPT !.step = "funding", !.who = w, !.pc = pc]
    <3>1. y \in TabRec BY <1>1, <1>3 DEF TabRec, Pcs
    <3>2. y.pc = pc /\ y.who = w /\ y.intent = i BY <1>1, <2>1 DEF TabRec
    <3>3. y = [tab[t] EXCEPT !.step = "funding", !.who = w, !.pc = pc] OBVIOUS
    <3> HIDE DEF y
    <3> QED BY <3>1, <3>2, <3>3
  <2>4. tab' = [tab EXCEPT ![t] = y] BY <1>1, <1>5, <2>2, <2>3
  <2>5. pc = "paying" => w \in Accounts BY <2>2
  <2>6. TabOk(y) BY <1>1, <2>1, <2>3, <2>5 DEF TabOk
  <2>7. Grows BY <1>2, Still
  <2>8. TabOk(y)' BY <2>6, <2>7, TabsLast
  <2>9. Pages' BY <2>4, <2>7, <2>8, PageMoves
  <2>10. IntentOk(i)' BY <2>1, <2>7, IntentsLast
  <2>11. store' = [intent |-> i, step |-> "funding"] BY <1>5, <2>1
  <2>12. StoreOk' BY <1>3, <2>10, <2>11 DEF StoreOk
  <2> QED BY <1>2, <2>9, <2>12, PageOnly
<1> QED BY <1>4, <1>5 DEF Recheck

\* The page takes the number of its own transaction.
LEMMA PaidKeeps ==
  ASSUME Inv, NEW t \in Tabs, Paid(t)
  PROVE  Inv'
<1>1. /\ tab \in [Tabs -> TabRec] /\ tab[t] \in TabRec /\ TabOk(tab[t])
      /\ tab[t].intent # NoIntent /\ tab[t].who \in Accounts
  BY IntentOf DEF Paid, At, TabOk, Handlers
<1>2. UNCHANGED <<wallet, session, switches, loads, store, rec, late, escrow, allowance>>
  BY DEF Paid, Users, Server
<1>3. CASE GiveUp(t) /\ UNCHANGED txs BY <1>2, <1>3, SameIntent
<1>4. CASE /\ Send("create", tab[t].who, tab[t].intent.research)
           /\ tab' = [tab EXCEPT ![t].pc = "confirming", ![t].who = None,
                        ![t].tx = Len(txs')]
  <2>1. PICK i \in Intent : i = tab[t].intent /\ IntentOk(i) /\ i # NoIntent
    BY <1>1, IntentOf
  <2>2. PICK r \in Researches, b \in Accounts : r = i.research /\ b = tab[t].who
    BY <1>1, <2>1 DEF IntentOk, Prepares
  <2>3. Send("create", b, r) BY <1>4, <2>1, <2>2
  <2>4. /\ Grows /\ ServerOk' /\ ChainOk'
        /\ Len(txs') \in 0..MaxTx /\ Len(txs') \in DOMAIN txs'
        /\ txs'[Len(txs')].kind = "create" /\ txs'[Len(txs')].of = r
    BY <1>2, <2>3, Sends
  <2>5. PICK n \in 0..MaxTx : n = Len(txs') BY <2>4
  <2>6. NamesCreate(n, r)' BY <2>4, <2>5 DEF NamesCreate
  <2>7. PICK y \in TabRec :
          /\ y = [tab[t] EXCEPT !.pc = "confirming", !.who = None, !.tx = n]
          /\ y.pc = "confirming" /\ y.tx = n /\ y.intent = i
    <3> DEFINE y == [tab[t] EXCEPT !.pc = "confirming", !.who = None, !.tx = n]
    <3>1. y \in TabRec BY <1>1 DEF TabRec, Pcs
    <3>2. y.pc = "confirming" /\ y.tx = n /\ y.intent = i BY <1>1, <2>1 DEF TabRec
    <3>3. y = [tab[t] EXCEPT !.pc = "confirming", !.who = None, !.tx = n] OBVIOUS
    <3> HIDE DEF y
    <3> QED BY <3>1, <3>2, <3>3
  <2>8. tab' = [tab EXCEPT ![t] = y] BY <1>1, <1>4, <2>5, <2>7
  <2>9. IntentOk(i)' BY <2>1, <2>4, IntentsLast
  <2>10. TabOk(y)' BY <2>1, <2>2, <2>6, <2>7, <2>9 DEF TabOk
  <2>11. Pages' BY <2>4, <2>8, <2>10, PageMoves
  <2>12. StoreOk' BY <1>2, <2>4, StoreLasts
  <2> QED BY <1>2, <2>4, <2>11, <2>12 DEF Inv, UsersOk
<1> QED BY <1>3, <1>4 DEF Paid

LEMMA ConfirmedKeeps ==
  ASSUME Inv, NEW t \in Tabs, Confirmed(t)
  PROVE  Inv'
<1>1. /\ tab[t] \in TabRec /\ TabOk(tab[t]) /\ tab[t].pc = "confirming"
      /\ tab[t].intent # NoIntent
  BY IntentOf DEF Confirmed, At, TabOk, Handlers
<1>2. UNCHANGED <<wallet, session, switches, loads, rec, late, escrow, allowance, txs>>
  BY DEF Confirmed, Users, Server, Chain
<1>3. CASE GiveUp(t) /\ UNCHANGED store BY <1>2, <1>3, SameIntent
<1>4. CASE Persist(t, FundedIntent(t), "funded", "idle")
  <2>1. PICK i \in Intent : i = tab[t].intent /\ IntentOk(i) /\ i # NoIntent
    BY <1>1, IntentOf
  <2>2. PICK n \in 0..MaxTx : n = tab[t].tx BY <1>1 DEF TabRec
  <2>3. PICK j \in Intent : /\ j = [i EXCEPT !.tx = n]
                            /\ j.tx = n /\ j.research = i.research
    <3> DEFINE j == [i EXCEPT !.tx = n]
    <3>1. j \in Intent /\ j.tx = n /\ j.research = i.research BY DEF Intent
    <3>2. j = [i EXCEPT !.tx = n] OBVIOUS
    <3> HIDE DEF j
    <3> QED BY <3>1, <3>2
  <2>4. NamesCreate(n, i.research) BY <1>1, <2>1, <2>2 DEF TabOk
  <2>5. IntentOk(j) BY <2>1, <2>3, <2>4 DEF IntentOk
  <2>6. Persist(t, j, "funded", "idle") BY <1>4, <2>1, <2>2, <2>3 DEF FundedIntent
  <2>7. Grows /\ "funded" \in Steps BY <1>2, Still DEF Steps
  <2>8. Pages' /\ StoreOk' BY <2>5, <2>6, <2>7, PersistMoves
  <2> QED BY <1>2, <2>8, PageOnly
<1> QED BY <1>3, <1>4 DEF Confirmed

\* The server takes the hash of the intent as it comes.
LEMMA ServeStartKeeps ==
  ASSUME Inv, NEW t \in Tabs, ServeStart(t)
  PROVE  Inv'
<1>1. /\ tab \in [Tabs -> TabRec] /\ tab[t] \in TabRec /\ TabOk(tab[t])
      /\ tab[t].intent # NoIntent /\ rec \in [Researches -> RecRec]
      /\ late \in SUBSET Researches
  BY IntentOf DEF ServeStart, At, TabOk, Handlers, Inv, ServerOk
<1>2. UNCHANGED <<wallet, session, switches, loads, late, escrow, allowance, txs>>
  BY DEF ServeStart, Users, Chain
<1>3. UsersOk' /\ ChainOk' BY <1>2 DEF Inv, UsersOk, ChainOk
<1>4. CASE GiveUp(t) /\ UNCHANGED <<rec, store>> BY <1>2, <1>4, SameIntent
<1>5. PICK i \in Intent, r \in Researches :
        /\ i = tab[t].intent /\ r = i.research /\ i.tx \in 0..MaxTx
        /\ i.tx # 0 => NamesCreate(i.tx, r)
  BY <1>1, IntentOf DEF IntentOk, Prepares, Intent
<1>6. CASE /\ MayBegin(r)
           /\ \/ Persist(t, tab[t].intent, "activating", "idle")
              \/ GiveUp(t) /\ UNCHANGED store
           /\ rec' = [rec EXCEPT ![r].state = "activating", ![r].tx = i.tx]
  <2>1. PICK z \in RecRec :
          /\ z = [rec[r] EXCEPT !.state = "activating", !.tx = i.tx]
          /\ z.state = "activating" /\ z.tx = i.tx /\ z.buyer = rec[r].buyer
    <3> DEFINE z == [rec[r] EXCEPT !.state = "activating", !.tx = i.tx]
    <3>1. rec[r] \in RecRec BY <1>1
    <3>2. z \in RecRec BY <1>5, <3>1 DEF RecRec
    <3>3. z.state = "activating" /\ z.tx = i.tx /\ z.buyer = rec[r].buyer
      BY <3>1 DEF RecRec
    <3>4. z = [rec[r] EXCEPT !.state = "activating", !.tx = i.tx] OBVIOUS
    <3> HIDE DEF z
    <3> QED BY <3>2, <3>3, <3>4
  <2>2. rec' = [rec EXCEPT ![r] = z] BY <1>1, <1>6, <2>1
  <2>3. rec[r].state = "funded" /\ rec[r].buyer \in Accounts /\ escrow[r] # "none"
    BY <1>6 DEF MayBegin, Inv, ServerOk
  <2>4. Grows /\ ServerOk'
    <3>1. z.tx # 0 => NamesCreate(z.tx, r) BY <1>5, <2>1
    <3>2. escrow' = escrow /\ UNCHANGED <<late, txs>> BY <1>2
    <3>3. z.buyer = rec[r].buyer /\ z.buyer \in Accounts /\ escrow'[r] # "none"
      BY <2>1, <2>3, <3>2
    <3>4. \A q \in Researches : escrow[q] # "none" => escrow'[q] # "none" BY <3>2
    <3> QED BY <2>2, <3>1, <3>2, <3>3, <3>4, RecordMoves
  <2>5. ASSUME GiveUp(t), UNCHANGED store PROVE Pages' /\ StoreOk'
    BY <2>4, <2>5, GiveUpMoves, StoreLasts
  <2>6. ASSUME Persist(t, tab[t].intent, "activating", "idle") PROVE Pages' /\ StoreOk'
    <3>1. IntentOk(i) /\ "activating" \in Steps BY <1>1, <1>5 DEF TabOk, Steps
    <3>2. Persist(t, i, "activating", "idle") BY <1>5, <2>6
    <3> QED BY <2>4, <3>1, <3>2, PersistMoves
  <2>7. Pages' /\ StoreOk' BY <1>6, <2>5, <2>6
  <2> QED BY <1>3, <2>4, <2>7 DEF Inv
<1>7. CASE /\ tab' = [tab EXCEPT ![t].pc = "live", ![t].intent = NoIntent, ![t].key = None]
           /\ store' = [intent |-> NoIntent, step |-> "idle"] /\ UNCHANGED rec
  <2>1. PICK y \in TabRec :
          /\ y = [tab[t] EXCEPT !.pc = "live", !.intent = NoIntent, !.key = None]
          /\ y.pc = "live" /\ y.intent = NoIntent
    <3> DEFINE y == [tab[t] EXCEPT !.pc = "live", !.intent = NoIntent, !.key = None]
    <3>1. y \in TabRec BY <1>1, NoIntentTyped DEF TabRec, Pcs
    <3>2. y.pc = "live" /\ y.intent = NoIntent BY <1>1 DEF TabRec
    <3>3. y = [tab[t] EXCEPT !.pc = "live", !.intent = NoIntent, !.key = None] OBVIOUS
    <3> HIDE DEF y
    <3> QED BY <3>1, <3>2, <3>3
  <2>2. tab' = [tab EXCEPT ![t] = y] BY <1>1, <1>7, <2>1
  <2>3. TabOk(y) BY <2>1 DEF TabOk, Handlers, IntentOk
  <2>4. Grows BY <1>2, <1>7, Still
  <2>5. TabOk(y)' BY <2>3, <2>4, TabsLast
  <2>6. Pages' BY <2>2, <2>4, <2>5, PageMoves
  <2>7. PICK i0 \in Intent : i0 = NoIntent /\ IntentOk(i0)' BY NoIntentTyped DEF IntentOk
  <2>8. "idle" \in Steps BY DEF Steps
  <2>9. store' = [intent |-> i0, step |-> "idle"] BY <1>7, <2>7
  <2>10. StoreOk' BY <2>7, <2>8, <2>9 DEF StoreOk
  <2> QED BY <1>2, <1>7, <2>6, <2>10, PageOnly
<1>8. CASE Persist(t, tab[t].intent, "activating", "idle") /\ UNCHANGED rec
  <2>1. IntentOk(i) /\ i # NoIntent /\ Grows /\ "activating" \in Steps
    BY <1>1, <1>2, <1>5, <1>8, Still DEF TabOk, Steps
  <2>2. Persist(t, i, "activating", "idle") BY <1>5, <1>8
  <2>3. Pages' /\ StoreOk' BY <2>1, <2>2, PersistMoves
  <2> QED BY <1>2, <1>8, <2>3, PageOnly
<1> QED BY <1>4, <1>5, <1>6, <1>7, <1>8 DEF ServeStart

--------------------------------------------------------------------------------
(* Users, chain and server.                                                        *)

LEMMA CancelKeeps ==
  ASSUME Inv, NEW r \in Researches, CancelFunded(r)
  PROVE  Inv'
<1>1. /\ rec[r].state = "funded" /\ wallet \in Accounts
  BY DEF CancelFunded, Inv, ServerOk
<1>2. PICK b \in Accounts : b = wallet BY <1>1
<1>3. Send("cancel", b, r) /\ UNCHANGED <<rec, late, escrow, allowance>>
  BY <1>2 DEF CancelFunded, Server
<1>4. Grows /\ ServerOk' /\ ChainOk' BY <1>3, Sends
<1>5. UsersOk' BY DEF CancelFunded, Users, Inv, UsersOk
<1>6. Pages' BY <1>4, PagesLast DEF CancelFunded
<1>7. StoreOk' BY <1>4, StoreLasts DEF CancelFunded
<1> QED BY <1>4, <1>5, <1>6, <1>7 DEF Inv

LEMMA SwitchKeeps ==
  ASSUME Inv, SwitchWallet \/ SwitchSession \/ UNCHANGED vars
  PROVE  Inv'
<1>1. UNCHANGED <<loads, store, tab, rec, late, escrow, allowance, txs>>
  BY DEF SwitchWallet, SwitchSession, vars, Server, Chain
<1>2. UsersOk'
  BY ClientAssumption DEF SwitchWallet, SwitchSession, vars, Inv, UsersOk, ClientAssumption
<1>3. Grows /\ ServerOk' /\ ChainOk' BY <1>1, Unmoved
<1>4. Pages' /\ StoreOk' BY <1>1, <1>3, PagesLast, StoreLasts
<1> QED BY <1>2, <1>3, <1>4 DEF Inv

LEMMA DeadlineKeeps ==
  ASSUME Inv, NEW r \in Researches, Deadline(r)
  PROVE  Inv'
<1>1. UNCHANGED <<wallet, session, switches, loads, store, tab, rec, escrow, allowance, txs>>
      /\ late' = late \union {r}
  BY DEF Deadline, Users, Chain
<1>2. Grows BY <1>1, Still
<1>3. ServerOk' BY <1>1 DEF Inv, ServerOk, NamesCreate
<1>4. UsersOk' /\ ChainOk' BY <1>1 DEF Inv, UsersOk, ChainOk
<1>5. Pages' /\ StoreOk' BY <1>1, <1>2, PagesLast, StoreLasts
<1> QED BY <1>3, <1>4, <1>5 DEF Inv

LEMMA MineKeeps ==
  ASSUME Inv, NEW n \in DOMAIN txs, Mine(n)
  PROVE  Inv'
<1>1. /\ txs \in Seq(TxRec) /\ txs[n] \in TxRec
      /\ escrow \in [Researches -> {"none", "funded", "active", "closed"}]
      /\ allowance \in [Accounts -> BOOLEAN] /\ Len(txs) <= MaxTx
  BY DEF Inv, ChainOk
<1>2. UNCHANGED <<wallet, session, switches, loads, store, tab, rec, late>>
  BY DEF Mine, Users, Server
<1>3. PICK x \in TxRec, r \in Researches, b \in Accounts :
        x = txs[n] /\ r = x.of /\ b = x.by
  BY <1>1 DEF TxRec
<1>4. PICK st \in {"success", "reverted"} :
        st = IF Succeeds(x) THEN "success" ELSE "reverted"
  OBVIOUS
<1>5. txs' = [txs EXCEPT ![n].state = st] BY <1>3, <1>4 DEF Mine
<1>6. PICK z \in TxRec : z = [x EXCEPT !.state = st] /\ z.kind = x.kind /\ z.of = x.of
  <2> DEFINE z == [x EXCEPT !.state = st]
  <2>1. z \in TxRec /\ z.kind = x.kind /\ z.of = x.of BY DEF TxRec
  <2>2. z = [x EXCEPT !.state = st] OBVIOUS
  <2> HIDE DEF z
  <2> QED BY <2>1, <2>2
<1>7. txs' = [txs EXCEPT ![n] = z] BY <1>1, <1>3, <1>5, <1>6
<1>8. /\ txs' \in Seq(TxRec) /\ Len(txs') = Len(txs) /\ DOMAIN txs' = DOMAIN txs
      /\ txs'[n] = z /\ \A m \in DOMAIN txs \ {n} : txs'[m] = txs[m]
  BY <1>1, <1>7
<1>9. Grows BY <1>2, <1>3, <1>6, <1>8 DEF Grows
<1>10. /\ escrow' \in [Researches -> {"none", "funded", "active", "closed"}]
       /\ \A q \in Researches : escrow[q] # "none" => escrow'[q] # "none"
  <2>1. \/ UNCHANGED escrow
        \/ \E v \in {"funded", "closed"} : escrow' = [escrow EXCEPT ![r] = v]
    BY <1>3 DEF Mine
  <2> QED BY <1>1, <2>1
<1>11. allowance' \in [Accounts -> BOOLEAN]
  <2>1. \/ UNCHANGED allowance
        \/ allowance' = [allowance EXCEPT ![b] = (x.kind = "approve")]
    BY <1>3 DEF Mine
  <2> QED BY <1>1, <2>1
<1>12. ChainOk' BY <1>1, <1>8, <1>10, <1>11 DEF ChainOk
<1>13. ServerOk' BY <1>2, <1>9, <1>10, ServerLasts
<1>14. Pages' /\ StoreOk' BY <1>2, <1>9, PagesLast, StoreLasts
<1>15. UsersOk' BY <1>2 DEF Inv, UsersOk
<1> QED BY <1>12, <1>13, <1>14, <1>15 DEF Inv

LEMMA FollowKeeps ==
  ASSUME Inv, NEW r \in Researches, FollowChain(r)
  PROVE  Inv'
<1>1. /\ rec \in [Researches -> RecRec] /\ late \in SUBSET Researches
      /\ escrow \in [Researches -> {"none", "funded", "active", "closed"}]
      /\ UNCHANGED <<wallet, session, switches, loads, store, tab, late, allowance, txs>>
  BY DEF FollowChain, Users, Inv, ServerOk, ChainOk
<1>2. PICK st \in {"funded", "ended", "running"} :
        /\ rec' = [rec EXCEPT ![r].state = st] /\ rec[r].state # "none"
        /\ st # "ended" => escrow[r] = "funded"
        /\ \/ UNCHANGED escrow
           \/ escrow' = [escrow EXCEPT ![r] = "active"]
  BY DEF FollowChain, MarkFunded, Follow
<1>3. PICK z \in RecRec : /\ z = [rec[r] EXCEPT !.state = st] /\ z.state = st
                          /\ z.tx = rec[r].tx /\ z.buyer = rec[r].buyer
  <2> DEFINE z == [rec[r] EXCEPT !.state = st]
  <2>1. rec[r] \in RecRec BY <1>1
  <2>2. z \in RecRec BY <2>1 DEF RecRec
  <2>3. z.state = st /\ z.tx = rec[r].tx /\ z.buyer = rec[r].buyer BY <2>1 DEF RecRec
  <2>4. z = [rec[r] EXCEPT !.state = st] OBVIOUS
  <2> HIDE DEF z
  <2> QED BY <2>2, <2>3, <2>4
<1>4. rec' = [rec EXCEPT ![r] = z] BY <1>1, <1>2, <1>3
<1>5. /\ escrow' \in [Researches -> {"none", "funded", "active", "closed"}]
      /\ \A q \in Researches : escrow[q] # "none" => escrow'[q] # "none"
      /\ st # "ended" => escrow'[r] # "none"
  BY <1>1, <1>2
<1>6. /\ rec[r].buyer \in Accounts
      /\ rec[r].tx # 0 => NamesCreate(rec[r].tx, r)
  BY <1>2 DEF Inv, ServerOk
<1>7. Grows /\ ServerOk' BY <1>1, <1>3, <1>4, <1>5, <1>6, RecordMoves
<1>9. ChainOk' BY <1>1, <1>5 DEF Inv, ChainOk
<1>10. UsersOk' BY <1>1 DEF Inv, UsersOk
<1>11. Pages' /\ StoreOk' BY <1>1, <1>7, PagesLast, StoreLasts
<1> QED BY <1>7, <1>9, <1>10, <1>11 DEF Inv

--------------------------------------------------------------------------------
(* The theorems.                                                                   *)

LEMMA InvInit ==
  ASSUME Init
  PROVE  Inv
<1>1. 0 \in 0..MaxTx /\ 0 \in 0..MaxLoads /\ 0 \in 0..MaxSwitches /\ "idle" \in Steps
  BY ClientAssumption DEF ClientAssumption, Steps
<1>2. NoPage \in TabRec /\ NoPage.intent = NoIntent /\ NoPage.pc = "closed"
  BY <1>1, NoIntentTyped DEF NoPage, TabRec, Pcs
<1>3. \A t \in Tabs : tab[t] = NoPage BY DEF Init
<1>4. Pages BY <1>2, <1>3 DEF Init, Pages, TabOk, IntentOk, Handlers
<1>5. StoreOk BY <1>1, NoIntentTyped DEF Init, StoreOk, IntentOk
<1>6. UsersOk BY <1>1 DEF Init, UsersOk
<1>7. ServerOk BY <1>1 DEF Init, ServerOk, RecRec
<1>8. ChainOk BY ClientAssumption DEF Init, ChainOk, ClientAssumption
<1> QED BY <1>4, <1>5, <1>6, <1>7, <1>8 DEF Inv

LEMMA InvStep ==
  ASSUME Inv, [Next]_vars
  PROVE  Inv'
<1>1. CASE \E t \in Tabs : Page(t)
  BY <1>1, LoadKeeps, CloseKeeps, SubmitKeeps, ServePrepareKeeps, PreparedKeeps, ClicksKeep,
     ApprovedKeeps, CreateKeeps, RecheckKeeps, PaidKeeps, ConfirmedKeeps,
     ServeStartKeeps
  DEF Page
<1>2. CASE \E r \in Researches : CancelFunded(r) \/ Deadline(r) \/ FollowChain(r)
  BY <1>2, CancelKeeps, DeadlineKeeps, FollowKeeps
<1>3. CASE \E n \in DOMAIN txs : Mine(n) BY <1>3, MineKeeps
<1>4. CASE SwitchWallet \/ SwitchSession \/ UNCHANGED vars BY <1>4, SwitchKeeps
<1> QED BY <1>1, <1>2, <1>3, <1>4 DEF Next

\* Every reachable state of browser, server and chain is well typed, for any number of
\* users, pages, reloads, researches and transactions.
THEOREM ClientTypeCorrect == Spec => []TypeOK
<1>1. Init => Inv BY InvInit
<1>2. Inv /\ [Next]_vars => Inv' BY InvStep
<1>3. Inv => TypeOK
  BY DEF Inv, Pages, StoreOk, UsersOk, ServerOk, ChainOk, TypeOK, TabRec, RecRec, TxRec, Pcs
<1> QED BY <1>1, <1>2, <1>3, PTL DEF Spec

\* A start request names a createAndFund of its own research, and what the server has
\* begun to activate has an escrow that was funded, though tabs overwrite each other's
\* stored intent, the page looks at no receipt's status and the server at no hash.
THEOREM StartsHaveFunding == Spec => []StartsAreFunded
<1>1. Init => Inv BY InvInit
<1>2. Inv /\ [Next]_vars => Inv' BY InvStep
<1>3. Inv => StartsAreFunded
  BY DEF Inv, ServerOk, NamesCreate, StartsAreFunded, StartNamesItsFunding,
         ActivatedIsFunded
<1> QED BY <1>1, <1>2, <1>3, PTL DEF Spec

--------------------------------------------------------------------------------
(* One research for each page load: what a load had made is under the key its page *)
(* still holds, until the page follows a running research.                         *)

Open(t) == tab[t].pc # "closed"
Made(r) == rec[r].state # "none"

LoadsOk ==
  /\ \A t \in Tabs : Open(t) => tab[t].life <= loads
  /\ \A t, u \in Tabs : Open(t) /\ Open(u) /\ tab[t].life = tab[u].life => t = u
  /\ \A t \in Tabs : tab[t].pc = "preparing" => tab[t].key \in Keys
  /\ \A r \in Researches : Made(r) => rec[r].key \in Keys /\ rec[r].life <= loads
  /\ \A r \in Researches, t \in Tabs :
       Made(r) /\ Open(t) /\ rec[r].life = tab[t].life =>
         rec[r].key = tab[t].key \/ tab[t].pc = "live"
  /\ OneResearchPerLoad

\* A step that opens no page and makes no research: a page takes a key only when it
\* had none, and drops it only to follow a running research.
Quiet ==
  /\ loads' = loads
  /\ \A t \in Tabs :
       /\ tab'[t].life = tab[t].life
       /\ tab'[t].pc = "closed" <=> tab[t].pc = "closed"
       /\ tab[t].pc = "live" => tab'[t].pc = "live"
       /\ tab'[t].key = tab[t].key \/ tab'[t].pc = "live" \/ tab[t].key = None
       /\ tab'[t].pc = "preparing" => tab'[t].key \in Keys
  /\ \A r \in Researches :
       /\ rec'[r].life = rec[r].life /\ rec'[r].key = rec[r].key
       /\ rec'[r].state = "none" <=> rec[r].state = "none"

LEMMA QuietKeeps ==
  ASSUME Inv, LoadsOk, Quiet
  PROVE  LoadsOk'
<1>1. None \notin Keys BY ClientAssumption DEF ClientAssumption
<1>2. ASSUME NEW r \in Researches, NEW t \in Tabs,
             Made(r)', Open(t)', rec'[r].life = tab'[t].life
      PROVE  rec'[r].key = tab'[t].key \/ tab'[t].pc = "live"
  <2>1. Made(r) /\ Open(t) /\ rec[r].life = tab[t].life /\ rec[r].key \in Keys
    BY <1>2 DEF Quiet, Made, Open, LoadsOk
  <2>2. rec[r].key = tab[t].key \/ tab[t].pc = "live" BY <2>1 DEF LoadsOk
  <2> QED BY <1>1, <2>1, <2>2 DEF Quiet
<1>3. OneResearchPerLoad' BY DEF Quiet, LoadsOk, OneResearchPerLoad
<1> QED BY <1>2, <1>3 DEF Quiet, LoadsOk, Open, Made

\* A page that moves within its handlers, with its key; or all pages stay.
PagesQuiet ==
  \A t \in Tabs :
    /\ tab'[t].life = tab[t].life /\ tab'[t].key = tab[t].key
    /\ \/ tab'[t] = tab[t]
       \/ tab[t].pc \notin {"closed", "live"} /\ tab'[t].pc \notin {"closed", "preparing"}
RecordsQuiet ==
  \A r \in Researches :
    /\ rec'[r].life = rec[r].life /\ rec'[r].key = rec[r].key
    /\ rec'[r].state = "none" <=> rec[r].state = "none"

LEMMA QuietParts ==
  ASSUME Inv, LoadsOk, loads' = loads, PagesQuiet, RecordsQuiet
  PROVE  LoadsOk'
<1>1. \A t \in Tabs : tab[t].pc = "preparing" => tab[t].key \in Keys BY DEF LoadsOk
<1>2. Quiet BY <1>1 DEF PagesQuiet, RecordsQuiet, Quiet
<1> QED BY <1>2, QuietKeeps

LEMMA GiveUpQuiet ==
  ASSUME Inv, NEW t \in Tabs, GiveUp(t), tab[t].pc \notin {"closed", "live"}
  PROVE  PagesQuiet
<1>1. tab \in [Tabs -> TabRec] /\ tab[t] \in TabRec BY DEF Inv, Pages
<1> QED BY <1>1 DEF GiveUp, PagesQuiet, TabRec

LEMMA PersistQuiet ==
  ASSUME Inv, NEW t \in Tabs, NEW i, NEW step, NEW pc, pc \notin {"closed", "preparing"},
         Persist(t, i, step, pc), tab[t].pc \notin {"closed", "live"}
  PROVE  PagesQuiet
<1>1. tab \in [Tabs -> TabRec] /\ tab[t] \in TabRec BY DEF Inv, Pages
<1> QED BY <1>1 DEF Persist, PagesQuiet, TabRec

LEMMA SameRecords ==
  ASSUME UNCHANGED rec
  PROVE  RecordsQuiet
BY DEF RecordsQuiet

\* The handlers of a page between the answer to its prepare and its start request.
LEMMA HandlersQuiet ==
  ASSUME Inv, LoadsOk, NEW t \in Tabs,
         \/ Prepared(t) \/ CheckAllowance(t) \/ ClickApprove(t) \/ Approved(t)
         \/ ClickCreate(t) \/ Recheck(t) \/ Paid(t) \/ Confirmed(t) \/ ClickSign(t)
         \/ Signed(t)
  PROVE  LoadsOk'
<1>1. tab \in [Tabs -> TabRec] /\ tab[t] \in TabRec BY DEF Inv, Pages
<1>2. tab[t].pc \notin {"closed", "live"}
  BY DEF Prepared, CheckAllowance, ClickApprove, Approved, ClickCreate, Recheck, Paid,
         Confirmed, ClickSign, Signed, Offers, At
<1>3. UNCHANGED <<loads, rec>>
  BY DEF Prepared, CheckAllowance, ClickApprove, Approved, ClickCreate, Recheck, Paid,
         Confirmed, ClickSign, Signed, Server
<1>4. PagesQuiet
  <2>1. CASE Prepared(t) BY <1>2, <2>1, GiveUpQuiet, PersistQuiet DEF Prepared
  <2>2. CASE CheckAllowance(t)
    BY <1>2, <2>2, GiveUpQuiet, PersistQuiet DEF CheckAllowance
  <2>3. CASE ClickApprove(t) BY <1>2, <2>3, PersistQuiet DEF ClickApprove
  <2>4. CASE Approved(t) BY <1>2, <2>4, GiveUpQuiet, PersistQuiet DEF Approved
  <2>5. CASE ClickCreate(t) BY <1>1, <1>2, <2>5 DEF ClickCreate, PagesQuiet, TabRec
  <2>6. CASE Recheck(t)
    <3>1. CASE tab' = [tab EXCEPT ![t].step = "funding", ![t].who = wallet,
                         ![t].pc = IF wallet = None THEN "idle" ELSE "paying"]
      BY <1>1, <1>2, <3>1 DEF PagesQuiet, TabRec
    <3> QED BY <1>2, <2>6, <3>1, GiveUpQuiet, PersistQuiet DEF Recheck
  <2>7. CASE Paid(t)
    <3>1. CASE tab' = [tab EXCEPT ![t].pc = "confirming", ![t].who = None,
                         ![t].tx = Len(txs')]
      BY <1>1, <1>2, <3>1 DEF PagesQuiet, TabRec
    <3> QED BY <1>2, <2>7, <3>1, GiveUpQuiet DEF Paid
  <2>8. CASE Confirmed(t) BY <1>2, <2>8, GiveUpQuiet, PersistQuiet DEF Confirmed
  <2>9. CASE ClickSign(t) BY <1>2, <2>9, PersistQuiet DEF ClickSign
  <2>10. CASE Signed(t) BY <1>2, <2>10, PersistQuiet DEF Signed, AfterRefusal
  <2> QED BY <2>1, <2>2, <2>3, <2>4, <2>5, <2>6, <2>7, <2>8, <2>9, <2>10
<1> QED BY <1>3, <1>4, SameRecords, QuietParts

\* Everything outside the pages.
LEMMA WorldQuiet ==
  ASSUME Inv, LoadsOk,
         \/ \E r \in Researches : CancelFunded(r) \/ Deadline(r) \/ FollowChain(r)
         \/ \E n \in DOMAIN txs : Mine(n)
         \/ SwitchWallet \/ SwitchSession \/ UNCHANGED vars
  PROVE  LoadsOk'
<1>1. UNCHANGED <<loads, tab>>
  BY DEF CancelFunded, Deadline, FollowChain, Mine, SwitchWallet, SwitchSession, vars
<1>2. rec \in [Researches -> RecRec] BY DEF Inv, ServerOk
<1>3. RecordsQuiet
  <2>1. CASE UNCHANGED rec BY <2>1, SameRecords
  <2>2. ASSUME NEW r \in Researches, MarkFunded(r) \/ Follow(r) PROVE RecordsQuiet
    BY <1>2, <2>2 DEF MarkFunded, Follow, RecordsQuiet, RecRec
  <2> QED BY <2>1, <2>2
      DEF CancelFunded, Deadline, FollowChain, Mine, SwitchWallet, SwitchSession, vars,
          Server
<1>4. PagesQuiet BY <1>1 DEF PagesQuiet
<1> QED BY <1>1, <1>3, <1>4, QuietParts

LEMMA SubmitQuiet ==
  ASSUME Inv, LoadsOk, NEW t \in Tabs, Submit(t)
  PROVE  LoadsOk'
<1>1. tab \in [Tabs -> TabRec] /\ tab[t] \in TabRec BY DEF Inv, Pages
<1>2. PICK k \in PrepareKey(t) : \E w :
        tab' = [tab EXCEPT ![t].key = k, ![t].pc = "preparing", ![t].step = "preparing",
                           ![t].who = w]
  BY DEF Submit
<1>3. k \in Keys /\ (k = tab[t].key \/ tab[t].key = None)
  BY <1>1, <1>2 DEF PrepareKey, KeyOf, FreshKeys, TabRec
<1>4. UNCHANGED <<loads, rec>> /\ tab[t].pc = "idle" BY DEF Submit, Server, At
<1>5. Quiet BY <1>1, <1>2, <1>3, <1>4 DEF Quiet, LoadsOk, TabRec
<1> QED BY <1>5, QuietKeeps

LEMMA StartQuiet ==
  ASSUME Inv, LoadsOk, NEW t \in Tabs, ServeStart(t)
  PROVE  LoadsOk'
<1>1. /\ tab \in [Tabs -> TabRec] /\ tab[t] \in TabRec /\ rec \in [Researches -> RecRec]
      /\ loads' = loads /\ tab[t].pc = "starting"
  BY DEF Inv, Pages, ServerOk, ServeStart, At
<1>2. CASE GiveUp(t) \/ Persist(t, tab[t].intent, "activating", "idle")
  <2>1. PagesQuiet BY <1>1, <1>2, GiveUpQuiet, PersistQuiet
  <2>2. CASE UNCHANGED rec BY <1>1, <2>1, <2>2, SameRecords, QuietParts
  <2>3. CASE ~UNCHANGED rec
    <3>1. PICK r, n : /\ rec[r].state = "funded"
                      /\ rec' = [rec EXCEPT ![r].state = "activating", ![r].tx = n]
      BY <2>3 DEF ServeStart, MayBegin
    <3>2. RecordsQuiet BY <1>1, <3>1 DEF RecordsQuiet, RecRec
    <3> QED BY <1>1, <2>1, <3>2, QuietParts
  <2> QED BY <2>2, <2>3
<1>3. CASE /\ tab' = [tab EXCEPT ![t].pc = "live", ![t].intent = NoIntent, ![t].key = None]
           /\ UNCHANGED rec
  <2>1. Quiet BY <1>1, <1>3 DEF Quiet, LoadsOk, TabRec
  <2> QED BY <2>1, QuietKeeps
<1> QED BY <1>2, <1>3 DEF ServeStart

\* A page that is closed is out of the question.
LEMMA CloseOk ==
  ASSUME Inv, LoadsOk, NEW t \in Tabs, Close(t)
  PROVE  LoadsOk'
<1>1. tab \in [Tabs -> TabRec] /\ UNCHANGED <<loads, rec>>
  BY DEF Inv, Pages, Close, Server
<1>2. tab'[t].pc = "closed" /\ \A u \in Tabs \ {t} : tab'[u] = tab[u]
  BY <1>1 DEF Close, NoPage
<1>3. \A u \in Tabs : Open(u)' => Open(u) /\ tab'[u] = tab[u]
  BY <1>2 DEF Open
<1>4. OneResearchPerLoad' BY <1>1 DEF LoadsOk, OneResearchPerLoad
<1>5. \A u \in Tabs : tab'[u].pc = "preparing" => tab'[u].key \in Keys
  BY <1>2 DEF LoadsOk
<1> QED BY <1>1, <1>3, <1>4, <1>5 DEF LoadsOk, Made

LEMMA LoadOk ==
  ASSUME Inv, LoadsOk, NEW t \in Tabs, Load(t)
  PROVE  LoadsOk'
<1>1. /\ tab \in [Tabs -> TabRec] /\ tab[t] \in TabRec /\ loads \in Nat
      /\ loads' = loads + 1 /\ UNCHANGED rec /\ rec \in [Researches -> RecRec]
  BY DEF Inv, Pages, UsersOk, ServerOk, Load, Server
<1>2. /\ tab'[t].pc = "idle" /\ tab'[t].life = loads + 1
      /\ \A u \in Tabs \ {t} : tab'[u] = tab[u]
  BY <1>1 DEF Load, NoPage
<1>3. /\ \A u \in Tabs : tab[u].life \in Nat
      /\ \A r \in Researches : rec[r].life \in Nat
  BY <1>1 DEF TabRec, RecRec
<1>4. \A u \in Tabs \ {t} : Open(u) => tab[u].life < loads + 1 BY <1>1, <1>3 DEF LoadsOk
<1>5. \A r \in Researches : Made(r) => rec[r].life < loads + 1 BY <1>1, <1>3 DEF LoadsOk
<1>6. ASSUME NEW u \in Tabs, NEW v \in Tabs, Open(u)', Open(v)', tab'[u].life = tab'[v].life
      PROVE  u = v
  BY <1>1, <1>2, <1>3, <1>4, <1>6 DEF LoadsOk, Open
<1>7. ASSUME NEW r \in Researches, NEW u \in Tabs,
             Made(r)', Open(u)', rec'[r].life = tab'[u].life
      PROVE  rec'[r].key = tab'[u].key \/ tab'[u].pc = "live"
  BY <1>1, <1>2, <1>3, <1>5, <1>7 DEF LoadsOk, Open, Made
<1>8. \A u \in Tabs : Open(u)' => tab'[u].life <= loads'
  BY <1>1, <1>2, <1>3, <1>4 DEF Open
<1>9. \A r \in Researches : Made(r)' => rec'[r].key \in Keys /\ rec'[r].life <= loads'
  BY <1>1, <1>3, <1>5 DEF LoadsOk, Made
<1>10. \A u \in Tabs : tab'[u].pc = "preparing" => tab'[u].key \in Keys
  BY <1>2 DEF LoadsOk
<1>11. OneResearchPerLoad' BY <1>1 DEF LoadsOk, OneResearchPerLoad
<1> QED BY <1>6, <1>7, <1>8, <1>9, <1>10, <1>11 DEF LoadsOk

\* A page at the request makes a research only when none has its key, so none was made
\* by its load.
LEMMA ServePrepareOk ==
  ASSUME Inv, LoadsOk, NEW t \in Tabs, ServePrepare(t)
  PROVE  LoadsOk'
<1>1. /\ tab \in [Tabs -> TabRec] /\ tab[t] \in TabRec /\ rec \in [Researches -> RecRec]
      /\ loads' = loads /\ tab[t].pc = "preparing"
  BY DEF Inv, Pages, ServerOk, ServePrepare, At
<1>2. PagesQuiet
  <2>1. CASE GiveUp(t) BY <1>1, <2>1, GiveUpQuiet
  <2>2. ASSUME NEW r, tab' = [tab EXCEPT ![t].pc = "prepared", ![t].reply = r]
        PROVE  PagesQuiet
    BY <1>1, <2>2 DEF PagesQuiet, TabRec
  <2> QED BY <2>1, <2>2 DEF ServePrepare
<1>3. CASE UNCHANGED rec BY <1>1, <1>2, <1>3, SameRecords, QuietParts
<1>4. CASE ~UNCHANGED rec
  <2>1. PICK r \in Researches :
          /\ \A x \in Researches : rec[x].key # tab[t].key
          /\ rec[r].state = "none"
          /\ rec' = [rec EXCEPT ![r] = [state |-> "funding", buyer |-> session,
                       key |-> tab[t].key, tx |-> 0, life |-> tab[t].life]]
    BY <1>4 DEF ServePrepare
  <2>2. /\ rec'[r].key = tab[t].key /\ rec'[r].life = tab[t].life
        /\ \A q \in Researches \ {r} : rec'[q] = rec[q]
    BY <1>1, <2>1
  <2>3. tab[t].key \in Keys /\ tab[t].life <= loads BY <1>1 DEF LoadsOk, Open
  <2>4. \A q \in Researches : Made(q) => rec[q].life # tab[t].life
    BY <1>1, <2>1 DEF LoadsOk, Open
  <2>5. \A u \in Tabs : /\ tab'[u].life = tab[u].life /\ tab'[u].key = tab[u].key
                        /\ Open(u)' => Open(u)
                        /\ tab[u].pc = "live" => tab'[u].pc = "live"
                        /\ tab'[u].pc = "preparing" => tab[u].pc = "preparing"
    BY <1>2 DEF PagesQuiet, Open
  <2>6. ASSUME NEW q \in Researches, NEW u \in Tabs,
               Made(q)', Open(u)', rec'[q].life = tab'[u].life
        PROVE  rec'[q].key = tab'[u].key \/ tab'[u].pc = "live"
    <3>1. CASE q = r
      <4>1. u = t BY <1>1, <2>2, <2>5, <2>6, <3>1 DEF LoadsOk, Open
      <4> QED BY <2>2, <2>5, <3>1, <4>1
    <3>2. CASE q # r BY <2>2, <2>5, <2>6, <3>2 DEF LoadsOk, Made
    <3> QED BY <3>1, <3>2
  <2>7. OneResearchPerLoad'
    BY <2>2, <2>4 DEF LoadsOk, OneResearchPerLoad, Made
  <2>8. \A q \in Researches : Made(q)' => rec'[q].key \in Keys /\ rec'[q].life <= loads'
    BY <1>1, <2>2, <2>3 DEF LoadsOk, Made
  <2>9. /\ \A u \in Tabs : Open(u)' => tab'[u].life <= loads'
        /\ \A u, v \in Tabs : (Open(u) /\ Open(v) /\ tab[u].life = tab[v].life)' => u = v
        /\ \A u \in Tabs : tab'[u].pc = "preparing" => tab'[u].key \in Keys
    BY <1>1, <2>5 DEF LoadsOk
  <2> QED BY <2>6, <2>7, <2>8, <2>9 DEF LoadsOk
<1> QED BY <1>3, <1>4

LEMMA LoadsOkStep ==
  ASSUME Inv, LoadsOk, [Next]_vars
  PROVE  LoadsOk'
<1>1. CASE \E t \in Tabs : Page(t)
  BY <1>1, LoadOk, CloseOk, SubmitQuiet, ServePrepareOk, HandlersQuiet, StartQuiet DEF Page
<1> QED BY <1>1, WorldQuiet DEF Next

\* A page that is not reloaded has one research made for it at most, however often its
\* prepare fails or its answer is lost, for any number of pages, users and researches.
THEOREM LoadHasOneResearch == Spec => []OneResearchPerLoad
<1>1. Init => Inv /\ LoadsOk
  BY InvInit DEF Init, NoPage, LoadsOk, Open, Made, OneResearchPerLoad
<1>2. Inv /\ LoadsOk /\ [Next]_vars => (Inv /\ LoadsOk)' BY InvStep, LoadsOkStep
<1>3. LoadsOk => OneResearchPerLoad BY DEF LoadsOk
<1> QED BY <1>1, <1>2, <1>3, PTL DEF Spec

--------------------------------------------------------------------------------
(* A stored funding transaction is kept by pages that show it: a page that shows one *)
(* is past the funding, and stores what it shows.                                    *)

Past(x) == x.intent.tx # 0 => /\ x.pc \in {"idle", "signing", "starting"}
                              /\ x.step \in {"funded", "signing_activation", "activating"}
PagesPast == \A t \in Tabs : Past(tab[t])

\* What a step must do to a stored transaction (FundingIsKept is [][Kept]_vars).
Kept ==
  store.intent.tx # 0 /\ (\A t \in Tabs : ShowsStored(t)) =>
    \/ store'.intent = store.intent /\ \A t \in Tabs : ShowsStored(t)'
    \/ rec[store.intent.research].state = "running"
    \/ store.intent.research \in late

\* An open page moves to y, and stores the intent it then has, or stores nothing and
\* keeps its own; it only lets go of an intent without a hash, or of a running research.
Moves(t, y) ==
  /\ tab' = [tab EXCEPT ![t] = y] /\ late' = late
  /\ Open(t) /\ y.pc # "closed" /\ Past(y)
  /\ \/ store' = store /\ y.intent = tab[t].intent
     \/ /\ store'.intent = y.intent
        /\ \/ y.intent = tab[t].intent
           \/ tab[t].intent.tx = 0
           \/ rec[tab[t].intent.research].state = "running"

LEMMA MovesKeep ==
  ASSUME Inv, PagesPast, NEW t \in Tabs, NEW y, Moves(t, y)
  PROVE  PagesPast' /\ Kept
<1>1. tab \in [Tabs -> TabRec] BY DEF Inv, Pages
<1>2. tab'[t] = y /\ \A u \in Tabs \ {t} : tab'[u] = tab[u] BY <1>1 DEF Moves
<1>3. \A u \in Tabs : Past(tab'[u])
  <2>1. ASSUME NEW u \in Tabs PROVE Past(tab'[u])
    <3>1. CASE u = t BY <1>2, <3>1 DEF Moves
    <3>2. CASE u # t
      <4>1. tab'[u] = tab[u] /\ Past(tab[u]) BY <1>2, <3>2 DEF PagesPast
      <4> QED BY <4>1 DEF Past
    <3> QED BY <3>1, <3>2
  <2> QED BY <2>1
<1>4. PagesPast' BY <1>3 DEF PagesPast, Past
<1>5. Kept
  <2> SUFFICES ASSUME store.intent.tx # 0, \A u \in Tabs : ShowsStored(u),
                      rec[store.intent.research].state # "running"
               PROVE  store'.intent = store.intent /\ \A u \in Tabs : ShowsStored(u)'
    BY DEF Kept
  <2>1. tab[t].intent = store.intent BY DEF ShowsStored, Moves, Open, At
  <2>2. store'.intent = store.intent /\ y.intent = store.intent BY <2>1 DEF Moves
  <2>3. ASSUME NEW u \in Tabs PROVE ShowsStored(u)'
    <3>1. CASE u = t BY <1>2, <2>2, <3>1 DEF ShowsStored
    <3>2. CASE u # t
      <4>1. tab'[u] = tab[u] /\ ShowsStored(u) BY <1>2, <3>2
      <4> QED BY <2>2, <4>1 DEF ShowsStored, At
    <3> QED BY <3>1, <3>2
  <2> QED BY <2>2, <2>3
<1> QED BY <1>4, <1>5

\* The page of a handler that gives up, and of one that stores its intent.
LEMMA GivesUp ==
  ASSUME Inv, PagesPast, NEW t \in Tabs, Open(t), GiveUp(t), UNCHANGED <<store, late>>
  PROVE  \E y : Moves(t, y)
<1>1. tab \in [Tabs -> TabRec] /\ tab[t] \in TabRec /\ Past(tab[t])
  BY DEF Inv, Pages, PagesPast
<1> DEFINE y == [tab[t] EXCEPT !.pc = "idle", !.who = None, !.reply = None, !.tx = 0]
<1>2. y.pc = "idle" /\ y.intent = tab[t].intent /\ y.step = tab[t].step
  BY <1>1 DEF TabRec
<1>3. tab' = [tab EXCEPT ![t] = y] BY <1>1 DEF GiveUp
<1> HIDE DEF y
<1>4. Past(y) BY <1>1, <1>2 DEF Past
<1> QED BY <1>2, <1>3, <1>4 DEF Moves

LEMMA Stores ==
  ASSUME Inv, PagesPast, NEW t \in Tabs, Open(t), NEW i, NEW step, NEW pc,
         Persist(t, i, step, pc), UNCHANGED late, pc # "closed",
         i = tab[t].intent \/ tab[t].intent.tx = 0,
         i.tx # 0 => /\ pc \in {"idle", "signing", "starting"}
                     /\ step \in {"funded", "signing_activation", "activating"}
  PROVE  \E y : Moves(t, y)
<1>1. tab \in [Tabs -> TabRec] /\ tab[t] \in TabRec BY DEF Inv, Pages
<1> DEFINE y == [tab[t] EXCEPT !.intent = i, !.step = step, !.pc = pc,
                               !.who = None, !.reply = None, !.tx = 0]
<1>2. y.pc = pc /\ y.intent = i /\ y.step = step BY <1>1 DEF TabRec
<1>3. tab' = [tab EXCEPT ![t] = y] BY <1>1 DEF Persist
<1>4. store'.intent = i BY DEF Persist
<1> HIDE DEF y
<1>5. Past(y) BY <1>2 DEF Past
<1> QED BY <1>2, <1>3, <1>4, <1>5 DEF Moves

\* A page that waits for anything but a signature or the answer to a start has no hash.
LEMMA NoHashYet ==
  ASSUME Inv, PagesPast, NEW t \in Tabs, tab[t].pc \notin {"idle", "signing", "starting"}
  PROVE  tab[t].intent.tx = 0
BY DEF PagesPast, Past

LEMMA PreparingShows ==
  ASSUME Inv, PagesPast, NEW t \in Tabs,
         Submit(t) \/ ServePrepare(t) \/ Prepared(t) \/ CheckAllowance(t)
  PROVE  \E y : Moves(t, y)
<1>1. tab \in [Tabs -> TabRec] /\ tab[t] \in TabRec BY DEF Inv, Pages
<1>2. Open(t) /\ UNCHANGED late
  BY DEF Submit, ServePrepare, Prepared, CheckAllowance, At, Open, Server
<1>3. CASE Submit(t)
  <2>1. PICK k, w : tab' = [tab EXCEPT ![t].key = k, ![t].pc = "preparing",
                              ![t].step = "preparing", ![t].who = w]
    BY <1>3 DEF Submit
  <2>2. tab[t].intent.tx = 0 /\ store' = store BY <1>3, NoIntentTyped DEF Submit
  <2> DEFINE y == [tab[t] EXCEPT !.key = k, !.pc = "preparing", !.step = "preparing",
                                 !.who = w]
  <2>3. y.pc = "preparing" /\ y.intent = tab[t].intent BY <1>1 DEF TabRec
  <2>4. tab' = [tab EXCEPT ![t] = y] BY <1>1, <2>1
  <2> HIDE DEF y
  <2>5. Past(y) BY <2>2, <2>3 DEF Past
  <2> QED BY <1>2, <2>2, <2>3, <2>4, <2>5 DEF Moves
<1>4. CASE ServePrepare(t)
  <2>1. store' = store /\ tab[t].pc = "preparing" BY <1>4 DEF ServePrepare, At
  <2>2. CASE GiveUp(t) BY <1>2, <2>1, <2>2, GivesUp
  <2>3. ASSUME NEW r, tab' = [tab EXCEPT ![t].pc = "prepared", ![t].reply = r]
        PROVE  \E y : Moves(t, y)
    <3> DEFINE y == [tab[t] EXCEPT !.pc = "prepared", !.reply = r]
    <3>1. y.pc = "prepared" /\ y.intent = tab[t].intent BY <1>1 DEF TabRec
    <3>2. tab' = [tab EXCEPT ![t] = y] BY <1>1, <2>3
    <3>3. tab[t].intent.tx = 0 BY <2>1, NoHashYet
    <3> HIDE DEF y
    <3>4. Past(y) BY <3>1, <3>3 DEF Past
    <3> QED BY <1>2, <2>1, <3>1, <3>2, <3>4 DEF Moves
  <2> QED BY <1>4, <2>2, <2>3 DEF ServePrepare
<1>5. CASE Prepared(t)
  <2>1. tab[t].intent.tx = 0 BY <1>5, NoHashYet DEF Prepared, At
  <2>2. CASE GiveUp(t) /\ UNCHANGED store BY <1>2, <2>2, GivesUp
  <2>3. ASSUME NEW r, NEW k, Persist(t, [research |-> r, key |-> k, tx |-> 0],
                                     "checking_allowance", "allowance")
        PROVE  \E y : Moves(t, y)
    BY <1>2, <2>1, <2>3, Stores
  <2> QED BY <1>5, <2>2, <2>3 DEF Prepared
<1>6. CASE CheckAllowance(t)
  <2>1. tab[t].intent.tx = 0 BY <1>6, NoHashYet DEF CheckAllowance, At
  <2>2. CASE GiveUp(t) /\ UNCHANGED store BY <1>2, <2>2, GivesUp
  <2>3. ASSUME NEW step, Persist(t, tab[t].intent, step, "idle")
        PROVE  \E y : Moves(t, y)
    BY <1>2, <2>1, <2>3, Stores
  <2> QED BY <1>6, <2>2, <2>3 DEF CheckAllowance
<1> QED BY <1>3, <1>4, <1>5, <1>6

LEMMA FundingShows ==
  ASSUME Inv, PagesPast, NEW t \in Tabs,
         ClickApprove(t) \/ Approved(t) \/ ClickCreate(t) \/ Recheck(t) \/ Paid(t)
         \/ Confirmed(t)
  PROVE  \E y : Moves(t, y)
<1>1. tab \in [Tabs -> TabRec] /\ tab[t] \in TabRec BY DEF Inv, Pages
<1>2. Open(t) /\ UNCHANGED late
  BY DEF ClickApprove, Approved, ClickCreate, Recheck, Paid, Confirmed, Offers, At, Open,
         Server
<1>3. tab[t].intent.tx = 0
  <2>1. CASE tab[t].step \in {"needs_approve", "needs_create"}
    BY <2>1 DEF PagesPast, Past
  <2> QED BY <2>1, NoHashYet
      DEF ClickApprove, Approved, ClickCreate, Recheck, Paid, Confirmed, Offers, At
<1>4. ASSUME NEW i, NEW step, NEW pc \in {"idle", "approving"}, Persist(t, i, step, pc),
             i.tx # 0 => pc = "idle" /\ step = "funded"
      PROVE  \E y : Moves(t, y)
  BY <1>2, <1>3, <1>4, Stores
<1>5. CASE GiveUp(t) /\ UNCHANGED store BY <1>2, <1>5, GivesUp
\* A step within a handler: the intent stays, and is stored or not.
<1>6. ASSUME NEW y, tab' = [tab EXCEPT ![t] = y], y.pc # "closed",
             y.intent = tab[t].intent,
             store' = store \/ store'.intent = tab[t].intent
      PROVE  \E z : Moves(t, z)
  <2>1. Past(y) BY <1>3, <1>6 DEF Past
  <2> QED BY <1>2, <1>6, <2>1 DEF Moves
<1>7. CASE ClickApprove(t) BY <1>3, <1>4, <1>7 DEF ClickApprove
<1>8. CASE Approved(t) BY <1>3, <1>4, <1>5, <1>8 DEF Approved
<1>9. CASE ClickCreate(t)
  <2> DEFINE y == [tab[t] EXCEPT !.pc = "rechecking"]
  <2>1. y.pc = "rechecking" /\ y.intent = tab[t].intent BY <1>1 DEF TabRec
  <2>2. tab' = [tab EXCEPT ![t] = y] /\ store' = store BY <1>1, <1>9 DEF ClickCreate
  <2> HIDE DEF y
  <2> QED BY <1>6, <2>1, <2>2
<1>10. CASE Recheck(t)
  <2>1. ASSUME NEW w, NEW pc \in {"idle", "paying"},
               store' = [intent |-> tab[t].intent, step |-> "funding"],
               tab' = [tab EXCEPT ![t].step = "funding", ![t].who = w, ![t].pc = pc]
        PROVE  \E y : Moves(t, y)
    <3> DEFINE y == [tab[t] EXCEPT !.step = "funding", !.who = w, !.pc = pc]
    <3>1. y.pc = pc /\ y.intent = tab[t].intent BY <1>1 DEF TabRec
    <3>2. tab' = [tab EXCEPT ![t] = y] BY <1>1, <2>1
    <3>3. store'.intent = tab[t].intent BY <2>1
    <3> HIDE DEF y
    <3> QED BY <1>6, <3>1, <3>2, <3>3
  <2>2. PICK pc \in {"idle", "paying"} : pc = IF wallet = None THEN "idle" ELSE "paying"
    OBVIOUS
  <2>3. CASE /\ store' = [intent |-> tab[t].intent, step |-> "funding"]
             /\ tab' = [tab EXCEPT ![t].step = "funding", ![t].who = wallet,
                          ![t].pc = IF wallet = None THEN "idle" ELSE "paying"]
    BY <2>1, <2>2, <2>3
  <2>4. CASE Persist(t, tab[t].intent, "needs_approve", "idle") BY <1>3, <1>4, <2>4
  <2> QED BY <1>5, <1>10, <2>3, <2>4 DEF Recheck
<1>11. CASE Paid(t)
  <2>1. store' = store BY <1>11 DEF Paid
  <2>2. ASSUME NEW n, tab' = [tab EXCEPT ![t].pc = "confirming", ![t].who = None,
                                ![t].tx = n]
        PROVE  \E y : Moves(t, y)
    <3> DEFINE y == [tab[t] EXCEPT !.pc = "confirming", !.who = None, !.tx = n]
    <3>1. y.pc = "confirming" /\ y.intent = tab[t].intent BY <1>1 DEF TabRec
    <3>2. tab' = [tab EXCEPT ![t] = y] BY <1>1, <2>2
    <3> HIDE DEF y
    <3> QED BY <1>6, <2>1, <3>1, <3>2
  <2> QED BY <1>5, <1>11, <2>1, <2>2 DEF Paid
<1>12. CASE Confirmed(t) BY <1>4, <1>5, <1>12 DEF Confirmed
<1> QED BY <1>7, <1>8, <1>9, <1>10, <1>11, <1>12

LEMMA StartingShows ==
  ASSUME Inv, PagesPast, NEW t \in Tabs, ClickSign(t) \/ Signed(t) \/ ServeStart(t)
  PROVE  \E y : Moves(t, y)
<1>1. tab \in [Tabs -> TabRec] /\ tab[t] \in TabRec BY DEF Inv, Pages
<1>2. Open(t) /\ UNCHANGED late
  BY DEF ClickSign, Signed, ServeStart, Offers, At, Open, Server
<1>3. CASE ClickSign(t) BY <1>2, <1>3, Stores DEF ClickSign
<1>4. CASE Signed(t)
  BY <1>2, <1>4, Stores DEF Signed, Refused, AfterRefusal
<1>5. CASE ServeStart(t)
  <2>1. CASE GiveUp(t) /\ UNCHANGED store BY <1>2, <2>1, GivesUp
  <2>2. CASE /\ rec[tab[t].intent.research].state = "running"
             /\ tab' = [tab EXCEPT ![t].pc = "live", ![t].intent = NoIntent,
                          ![t].key = None]
             /\ store' = [intent |-> NoIntent, step |-> "idle"]
    <3> DEFINE y == [tab[t] EXCEPT !.pc = "live", !.intent = NoIntent, !.key = None]
    <3>1. y.pc = "live" /\ y.intent = NoIntent BY <1>1 DEF TabRec
    <3>2. tab' = [tab EXCEPT ![t] = y] BY <1>1, <2>2
    <3>3. store'.intent = NoIntent BY <2>2
    <3> HIDE DEF y
    <3>4. Past(y) BY <3>1, NoIntentTyped DEF Past
    <3> QED BY <1>2, <2>2, <3>1, <3>2, <3>3, <3>4 DEF Moves
  <2>3. CASE Persist(t, tab[t].intent, "activating", "idle") BY <1>2, <2>3, Stores
  <2> QED BY <1>5, <2>1, <2>2, <2>3 DEF ServeStart
<1> QED BY <1>3, <1>4, <1>5

\* A page that is opened shows what is stored, unless that is too late.
LEMMA LoadShows ==
  ASSUME Inv, PagesPast, NEW t \in Tabs, Load(t)
  PROVE  PagesPast' /\ Kept
<1>1. /\ tab \in [Tabs -> TabRec] /\ UNCHANGED <<store, late>>
      /\ store.intent \in Intent /\ NoPage.intent = NoIntent
  BY DEF Inv, Pages, StoreOk, Load, Server, NoPage
<1>2. PICK i \in Intent : i = store.intent BY <1>1
<1>3. /\ tab'[t].pc = "idle" /\ \A u \in Tabs \ {t} : tab'[u] = tab[u]
      /\ IF i # NoIntent /\ i.research \notin late
         THEN tab'[t].intent = i /\ (i.tx # 0 => tab'[t].step = "funded")
         ELSE tab'[t].intent = NoIntent
  BY <1>1, <1>2 DEF Load, NoPage
<1>4. Past(tab[t])' BY <1>3, NoIntentTyped DEF Past
<1>5. ASSUME NEW u \in Tabs PROVE Past(tab[u])'
  <2>1. CASE u # t
    <3>1. tab'[u] = tab[u] /\ Past(tab[u]) BY <1>3, <2>1 DEF PagesPast
    <3> QED BY <3>1 DEF Past
  <2> QED BY <1>4, <2>1
<1>6. Kept
  <2> SUFFICES ASSUME store.intent.tx # 0, \A u \in Tabs : ShowsStored(u),
                      store.intent.research \notin late, NEW u \in Tabs
               PROVE  ShowsStored(u)'
    BY <1>1 DEF Kept
  <2>1. CASE u = t BY <1>1, <1>2, <1>3, <2>1, NoIntentTyped DEF ShowsStored
  <2>2. CASE u # t
    <3>1. tab'[u] = tab[u] /\ ShowsStored(u) BY <1>3, <2>2
    <3> QED BY <1>1, <3>1 DEF ShowsStored, At
  <2> QED BY <2>1, <2>2
<1> QED BY <1>5, <1>6 DEF PagesPast

LEMMA CloseShows ==
  ASSUME Inv, PagesPast, NEW t \in Tabs, Close(t)
  PROVE  PagesPast' /\ Kept
<1>1. tab \in [Tabs -> TabRec] /\ store' = store BY DEF Inv, Pages, Close
<1>2. tab'[t] = NoPage /\ \A u \in Tabs \ {t} : tab'[u] = tab[u] BY <1>1 DEF Close
<1>3. NoPage.pc = "closed" /\ NoPage.intent.tx = 0 BY NoIntentTyped DEF NoPage
<1>4. ASSUME NEW u \in Tabs PROVE Past(tab[u])' /\ (ShowsStored(u) => ShowsStored(u)')
  <2>1. CASE u = t BY <1>2, <1>3, <2>1 DEF Past, ShowsStored, At
  <2>2. CASE u # t
    <3>1. tab'[u] = tab[u] /\ Past(tab[u]) BY <1>2, <2>2 DEF PagesPast
    <3> QED BY <1>1, <3>1 DEF Past, ShowsStored, At
  <2> QED BY <2>1, <2>2
<1> QED BY <1>1, <1>4 DEF PagesPast, Kept

LEMMA WorldShows ==
  ASSUME Inv, PagesPast,
         \/ \E r \in Researches : CancelFunded(r) \/ Deadline(r) \/ FollowChain(r)
         \/ \E n \in DOMAIN txs : Mine(n)
         \/ SwitchWallet \/ SwitchSession \/ UNCHANGED vars
  PROVE  PagesPast' /\ Kept
<1>1. UNCHANGED <<store, tab>>
  BY DEF CancelFunded, Deadline, FollowChain, Mine, SwitchWallet, SwitchSession, vars,
         Server
<1> QED BY <1>1 DEF PagesPast, Past, Kept, ShowsStored, At

LEMMA PastStep ==
  ASSUME Inv, PagesPast, [Next]_vars
  PROVE  PagesPast' /\ Kept
<1>1. ASSUME NEW t \in Tabs, Page(t) PROVE PagesPast' /\ Kept
  <2>1. CASE Load(t) \/ Close(t) BY <2>1, LoadShows, CloseShows
  <2>2. CASE \E y : Moves(t, y) BY <2>2, MovesKeep
  <2> QED BY <1>1, <2>1, <2>2, PreparingShows, FundingShows, StartingShows DEF Page
<1> QED BY <1>1, WorldShows DEF Next

\* Once every open page shows the stored funding transaction it stays stored and shown,
\* until the research runs or is too late, for any number of users, tabs, reloads,
\* researches and transactions.
THEOREM StoredFundingIsKept == Spec => FundingIsKept
<1>1. Init => Inv /\ PagesPast
  BY InvInit, NoIntentTyped DEF Init, NoPage, PagesPast, Past
<1>2. Inv /\ PagesPast /\ [Next]_vars => (Inv /\ PagesPast)' BY InvStep, PastStep
<1>3. Inv /\ PagesPast /\ [Next]_vars =>
        [store.intent.tx # 0 /\ (\A t \in Tabs : ShowsStored(t)) =>
           \/ store'.intent = store.intent /\ \A t \in Tabs : ShowsStored(t)'
           \/ rec[store.intent.research].state = "running"
           \/ store.intent.research \in late]_vars
  BY PastStep DEF Kept
<1> QED BY <1>1, <1>2, <1>3, PTL DEF Spec, FundingIsKept

================================================================================
