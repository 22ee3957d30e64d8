----------------------- MODULE PaymentSettlementProofs -------------------------
(* Nothing is anchored twice, nothing is booked that was not anchored, and a lone  *)
(* agent's settlement leaves no entry out, for any number of agents, retry passes  *)
(* and paid calls that race, crash or lose the answer of the chain.                *)
(*                                                                                 *)
(* The row of payment_settlement is not a lock: a stale pass may take it over      *)
(* while the first worker still waits for its receipt.  What protects the chain is *)
(* that a row can be sent again only from "failed", without a hash and without the *)
(* mark of manual recovery, and that nobody writes such a row but the one worker   *)
(* whose transaction failed without telling a hash.                                *)
EXTENDS PaymentSettlement, FiniteSetTheorems, TLAPS

WkRec ==
  [pc : Steps, ids : SUBSET Intents, seen : Row, hash : Hash,
   from : {"absent", "broadcasting", "failed"}, old : BOOLEAN]
PayRec ==
  [pc : {"idle", "send", "confirm", "fail", "ok", "failed", "pending", "conflict", "dead"},
   id : Ids, hash : Hash]
TxRec == [items : SUBSET Ids, ok : BOOLEAN, told : BOOLEAN]

\* h is the transaction that anchored ids: it succeeded and its sender learnt it.
Anchor(h, ids) ==
  h \in DOMAIN chain /\ chain[h].ok /\ chain[h].told /\ chain[h].items = ids

\* A transaction of the research is known to somebody.
Told == \E i \in DOMAIN chain : chain[i].told /\ chain[i].items \subseteq Intents

\* The row belongs to a broadcast that must not be repeated.
Taken == row.status # "absent" /\ ~AutoRetryable(row)

SendPcs == {"send", "receipt", "fail"}

RowInv ==
  /\ row.status = "confirmed" => Anchor(row.hash, row.ids)
  /\ row.status = "broadcasting" /\ row.hash # 0 => Anchor(row.hash, row.ids)

SenderInv ==
  /\ \A w, u \in Workers : wk[w].pc \in SendPcs /\ wk[u].pc \in SendPcs => w = u
  /\ \A w \in Workers : wk[w].pc \in SendPcs => Taken
  /\ Told => Taken
  /\ Told => \A w \in Workers :
       wk[w].pc \in SendPcs => wk[w].pc # "send" /\ wk[w].hash # 0

\* What a worker carries from one step to the next still holds of row and chain.
Carries(x) ==
  /\ x.pc \in SendPcs => x.ids = row.ids
  /\ x.pc \in {"receipt", "confirm"} => Anchor(x.hash, row.ids) /\ x.ids = row.ids
  /\ x.pc = "mark" => Anchor(x.hash, x.ids)
  /\ x.pc = "persisted" /\ x.seen.hash # 0 =>
       Anchor(x.seen.hash, row.ids) /\ x.ids = row.ids
  /\ x.pc = "existing" /\ x.seen.status = "broadcasting" /\ x.seen.hash # 0 =>
       Anchor(x.seen.hash, row.ids) /\ x.seen.ids = row.ids
  /\ x.pc = "reclaim" => x.seen.status = "failed"
  /\ x.pc \in {"listed", "retry"} /\ x.old => row.status = x.from

LogInv ==
  /\ \A i \in Ids : log[i].status \in {"mock", "confirmed"} =>
       /\ log[i].hash \in DOMAIN chain
       /\ chain[log[i].hash].ok /\ i \in chain[log[i].hash].items
  /\ \A d \in Directs : \A i \in DOMAIN chain :
       chain[i].items = {d} => log[d].status # "absent"

PayInv ==
  /\ \A p \in Payers : pay[p].pc = "send" =>
       /\ pay[p].id \in Directs /\ log[pay[p].id].status # "absent"
       /\ \A i \in DOMAIN chain : chain[i].items # {pay[p].id}
  /\ \A p, q \in Payers :
       pay[p].pc = "send" /\ pay[q].pc = "send" /\ pay[p].id = pay[q].id => p = q
  /\ \A p \in Payers : pay[p].pc = "confirm" =>
       /\ pay[p].hash \in DOMAIN chain
       /\ chain[pay[p].hash].ok /\ chain[pay[p].hash].items = {pay[p].id}

Inv ==
  /\ TypeOK
  /\ RowInv /\ SenderInv /\ LogInv /\ PayInv /\ NoRebroadcast
  /\ \A w \in Workers : Carries(wk[w])

--------------------------------------------------------------------------------
(* Anchors and the chain.                                                          *)

\* Who knows an anchor of intents makes the broadcast known.
LEMMA AnchorTells ==
  ASSUME NEW h, NEW ids \in SUBSET Intents, Anchor(h, ids)
  PROVE  Told
BY DEF Anchor, Told

LEMMA ChainGrows ==
  ASSUME TypeOK, NEW items \in SUBSET Ids, NEW ok \in BOOLEAN, NEW told \in BOOLEAN,
         Len(chain) < MaxSends, Sent(items, ok, told), PaymentAssumption
  PROVE  /\ chain' \in Seq(TxRec) /\ Len(chain') <= MaxSends
         /\ Len(chain) + 1 \in Hash /\ Len(chain) + 1 # 0
         /\ Len(chain) + 1 \notin DOMAIN chain
         /\ DOMAIN chain' = DOMAIN chain \cup {Len(chain) + 1}
         /\ \A i \in DOMAIN chain : chain'[i] = chain[i]
         /\ chain'[Len(chain) + 1] = [items |-> items, ok |-> ok, told |-> told]
         /\ \A i \in DOMAIN chain : i < Len(chain) + 1
         /\ \A h, ids : Anchor(h, ids) => Anchor(h, ids)'
<1> DEFINE x == [items |-> items, ok |-> ok, told |-> told]
<1>1. chain \in Seq(TxRec) /\ Len(chain) \in Nat /\ MaxSends \in Nat
  BY DEF TypeOK, TxRec, PaymentAssumption
<1>2. x \in TxRec /\ chain' = Append(chain, x) BY DEF TxRec, Sent
<1>3. x = [items |-> items, ok |-> ok, told |-> told] OBVIOUS
<1> HIDE DEF x
<1>4. /\ chain' \in Seq(TxRec) /\ Len(chain') = Len(chain) + 1
      /\ \A i \in 1 .. Len(chain) : chain'[i] = chain[i]
      /\ chain'[Len(chain) + 1] = x
  BY <1>1, <1>2
<1>5. DOMAIN chain = 1 .. Len(chain) /\ DOMAIN chain' = 1 .. Len(chain) + 1
  BY <1>1, <1>4
<1>6. \A h, ids : Anchor(h, ids) => Anchor(h, ids)' BY <1>4, <1>5, <1>1 DEF Anchor
<1> QED BY <1>1, <1>3, <1>4, <1>5, <1>6 DEF Hash

--------------------------------------------------------------------------------
(* The kinds of steps.  First, a worker moves on and writes nothing.               *)

LEMMA WorkerMoves ==
  ASSUME Inv, NEW w \in Workers, NEW x \in WkRec,
         wk' = [wk EXCEPT ![w] = x],
         x.pc \in SendPcs => /\ wk[w].pc \in SendPcs
                             /\ Told => x.pc # "send" /\ x.hash # 0,
         Carries(x),
         UNCHANGED <<mode, cast, log, row, chain, pay>>,
         status' \in {"running", "completed", "failed", "cancelled"}
  PROVE  Inv'
<1>1. wk \in [Workers -> WkRec] BY DEF Inv, TypeOK, WkRec
<1>2. TypeOK' BY <1>1 DEF Inv, TypeOK, WkRec
<1>3. /\ RowInv' /\ LogInv' /\ PayInv' /\ NoRebroadcast'
  BY DEF Inv, RowInv, LogInv, PayInv, NoRebroadcast, Anchor
<1>4. (Told <=> Told') /\ (Taken <=> Taken') BY DEF Told, Taken, AutoRetryable
<1>5. SenderInv' BY <1>1, <1>4 DEF Inv, SenderInv
<1>6. \A u \in Workers : Carries(wk[u])'
  <2> SUFFICES ASSUME NEW u \in Workers PROVE Carries(wk[u])' OBVIOUS
  <2>1. CASE u = w
    <3>1. wk'[u] = x BY <1>1, <2>1
    <3> QED BY <3>1 DEF Carries, Anchor
  <2>2. CASE u # w
    <3>1. wk'[u] = wk[u] BY <1>1, <2>2
    <3>2. Carries(wk[u]) BY DEF Inv
    <3> QED BY <3>1, <3>2 DEF Carries, Anchor
  <2> QED BY <2>1, <2>2
<1> QED BY <1>2, <1>3, <1>5, <1>6 DEF Inv

\* A worker writes the row, which keeps its entries, or is not taken yet.
LEMMA WorkerUpdates ==
  ASSUME Inv, NEW w \in Workers, NEW x \in WkRec, NEW r \in Row,
         Update(w, r, x),
         r.ids = row.ids \/ ~Taken,
         \/ r.status # "absent" /\ ~AutoRetryable(r)
         \/ wk[w].pc \in SendPcs /\ wk[w].hash = 0 /\ x.pc \notin SendPcs,
         x.pc \in SendPcs => \/ wk[w].pc \in SendPcs /\ x.pc # "send" /\ x.hash # 0
                             \/ ~Taken,
         x.pc \notin {"listed", "retry"},
         r.status = "confirmed" => Anchor(r.hash, r.ids),
         r.status = "broadcasting" /\ r.hash # 0 => Anchor(r.hash, r.ids),
         Carries(x)',
         UNCHANGED <<mode, cast, status, log, chain, pay>>
  PROVE  Inv'
<1>1. /\ wk \in [Workers -> WkRec] /\ row \in Row
      /\ row' = r
      /\ wk' = [u \in Workers |-> IF u = w THEN [x EXCEPT !.old = FALSE]
                                  ELSE [wk[u] EXCEPT !.old = FALSE]]
  BY DEF Inv, TypeOK, WkRec, Update
<1>2. \A y \in WkRec : /\ [y EXCEPT !.old = FALSE] \in WkRec
                       /\ [y EXCEPT !.old = FALSE].pc = y.pc
                       /\ [y EXCEPT !.old = FALSE].ids = y.ids
                       /\ [y EXCEPT !.old = FALSE].seen = y.seen
                       /\ [y EXCEPT !.old = FALSE].hash = y.hash
                       /\ [y EXCEPT !.old = FALSE].old = FALSE
  BY DEF WkRec
<1>3. wk' \in [Workers -> WkRec] BY <1>1, <1>2
<1>4. /\ \A u \in Workers : wk'[u].old = FALSE
      /\ wk'[w].pc = x.pc /\ wk'[w].ids = x.ids /\ wk'[w].seen = x.seen
      /\ wk'[w].hash = x.hash
      /\ \A u \in Workers \ {w} :
           /\ wk'[u].pc = wk[u].pc /\ wk'[u].ids = wk[u].ids
           /\ wk'[u].seen = wk[u].seen /\ wk'[u].hash = wk[u].hash
  BY <1>1, <1>2
<1>5. TypeOK' BY <1>1, <1>3 DEF Inv, TypeOK, WkRec
<1>6. Told <=> Told' BY DEF Told
<1>7. Taken' <=> r.status # "absent" /\ ~AutoRetryable(r)
  BY <1>1 DEF Taken, AutoRetryable
<1>8. RowInv' /\ LogInv' /\ PayInv' /\ NoRebroadcast'
  BY <1>1 DEF Inv, RowInv, LogInv, PayInv, NoRebroadcast, Anchor
<1>9. SenderInv'
  BY <1>4, <1>6, <1>7 DEF Inv, SenderInv
<1>10. \A u \in Workers : Carries(wk[u])'
  <2>1. CASE r.ids = row.ids
    <3> SUFFICES ASSUME NEW u \in Workers PROVE Carries(wk[u])' OBVIOUS
    <3>1. CASE u = w BY <3>1, <1>1, <1>4 DEF Carries, Anchor
    <3>2. CASE u # w
      <4>1. Carries(wk[u]) BY DEF Inv
      <4>2. /\ wk'[u].pc = wk[u].pc /\ wk'[u].ids = wk[u].ids /\ wk'[u].old = FALSE
            /\ wk'[u].seen = wk[u].seen /\ wk'[u].hash = wk[u].hash
        BY <3>2, <1>4
      <4>3. row'.ids = row.ids /\ chain' = chain BY <2>1, <1>1
      <4> QED BY <4>1, <4>2, <4>3 DEF Carries, Anchor
    <3> QED BY <3>1, <3>2
  <2>2. CASE ~Taken
    <3>1. ~Told BY <2>2 DEF Inv, SenderInv
    <3>2. \A h : ~Anchor(h, row.ids) BY <3>1, <1>1, AnchorTells DEF Row
    <3> SUFFICES ASSUME NEW u \in Workers PROVE Carries(wk[u])' OBVIOUS
    <3>3. CASE u = w BY <3>3, <1>1, <1>4 DEF Carries, Anchor
    <3>4. CASE u # w
      <4>1. Carries(wk[u]) /\ wk[u].pc \notin SendPcs BY <2>2 DEF Inv, SenderInv
      <4>2. /\ wk'[u].pc = wk[u].pc /\ wk'[u].ids = wk[u].ids /\ wk'[u].old = FALSE
            /\ wk'[u].seen = wk[u].seen /\ wk'[u].hash = wk[u].hash
        BY <3>4, <1>4
      <4>3. /\ ~(wk[u].pc \in {"receipt", "confirm"})
            /\ wk[u].pc = "mark" => Anchor(wk[u].hash, wk[u].ids)
            /\ ~(wk[u].pc = "persisted" /\ wk[u].seen.hash # 0)
            /\ ~(/\ wk[u].pc = "existing" /\ wk[u].seen.status = "broadcasting"
                 /\ wk[u].seen.hash # 0)
            /\ wk[u].pc = "reclaim" => wk[u].seen.status = "failed"
        BY <4>1, <3>2 DEF Carries
      <4>4. \A h, ids : Anchor(h, ids) => Anchor(h, ids)' BY DEF Anchor
      <4> QED BY <4>1, <4>2, <4>3, <4>4 DEF Carries
    <3> QED BY <3>3, <3>4
  <2> QED BY <2>1, <2>2
<1> QED BY <1>5, <1>8, <1>9, <1>10 DEF Inv

--------------------------------------------------------------------------------
(* The steps of workers that write nothing outside the worker.                     *)

LEMMA IdleIsFine ==
  /\ Idle \in WkRec /\ Idle.pc = "idle" /\ Carries(Idle) /\ NoRow \in Row
  /\ \A pc \in Steps : [Idle EXCEPT !.pc = pc] \in WkRec
  /\ \A pc \in {"idle", "done", "dead", "sweep"} :
       /\ [Idle EXCEPT !.pc = pc].pc = pc
       /\ Carries([Idle EXCEPT !.pc = pc])
       /\ pc \in Steps
<1>1. 0 \in Hash BY PaymentAssumption DEF PaymentAssumption, Hash
<1>2. NoRow \in Row BY <1>1 DEF NoRow, Row
<1>3. "idle" \in Steps /\ "done" \in Steps /\ "dead" \in Steps /\ "sweep" \in Steps
  BY DEF Steps
<1>4. \A pc \in Steps : [Idle EXCEPT !.pc = pc] \in WkRec /\ [Idle EXCEPT !.pc = pc].pc = pc
  BY <1>1, <1>2 DEF Idle, WkRec
<1>5. Idle \in WkRec BY <1>1, <1>2, <1>3 DEF Idle, WkRec
<1>7. Idle.pc = "idle" BY DEF Idle
<1>8. Carries(Idle) BY <1>7 DEF Carries, SendPcs
<1>9. ASSUME NEW pc \in {"idle", "done", "dead", "sweep"}
      PROVE  /\ [Idle EXCEPT !.pc = pc].pc = pc
             /\ Carries([Idle EXCEPT !.pc = pc])
             /\ pc \in Steps
  <2>1. pc \in Steps BY <1>3
  <2>2. [Idle EXCEPT !.pc = pc].pc = pc BY <2>1, <1>4
  <2>3. Carries([Idle EXCEPT !.pc = pc])
    <3> DEFINE x == [Idle EXCEPT !.pc = pc]
    <3>1. x.pc \in {"idle", "done", "dead", "sweep"} BY <2>2
    <3> HIDE DEF x
    <3>2. Carries(x) BY <3>1 DEF Carries, SendPcs
    <3> QED BY <3>2 DEF x
  <2> QED BY <2>1, <2>2, <2>3
<1> QED BY <1>2, <1>4, <1>5, <1>7, <1>8, <1>9

LEMMA AgentMoves ==
  ASSUME Inv, NEW a \in Agents,
         AgentStarts(a) \/ AgentEnds(a) \/ ListPending(a)
  PROVE  Inv'
<1>1. a \in Workers /\ wk[a] \in WkRec /\ wk \in [Workers -> WkRec]
  BY DEF Inv, TypeOK, WkRec, Workers
<1>2. CASE AgentStarts(a)
  <2> DEFINE x == [wk[a] EXCEPT !.pc = "run"]
  <2>1. x \in WkRec /\ x.pc = "run" BY <1>1 DEF WkRec, Steps
  <2>2. Carries(x) BY <2>1 DEF Carries, SendPcs
  <2>3. wk' = [wk EXCEPT ![a] = x] BY <1>2, <1>1 DEF AgentStarts, Goto
  <2> HIDE DEF x
  <2> QED BY <1>1, <1>2, <2>1, <2>2, <2>3, WorkerMoves
          DEF AgentStarts, SendPcs, Inv, TypeOK
<1>3. CASE AgentEnds(a)
  <2>1. PICK pc \in {"list", "lost"} : Goto(a, pc) BY <1>3 DEF AgentEnds
  <2> DEFINE x == [wk[a] EXCEPT !.pc = pc]
  <2>2. x \in WkRec /\ x.pc = pc BY <1>1 DEF WkRec, Steps
  <2>3. Carries(x) BY <2>2 DEF Carries, SendPcs
  <2>4. wk' = [wk EXCEPT ![a] = x] BY <2>1, <1>1 DEF Goto
  <2>5. status' \in {"running", "completed", "failed", "cancelled"}
    BY <1>3 DEF AgentEnds, Inv, TypeOK
  <2>6. UNCHANGED <<mode, cast, log, row, chain, pay>> BY <1>3 DEF AgentEnds
  <2> HIDE DEF x
  <2> QED BY <1>1, <2>2, <2>3, <2>4, <2>5, <2>6, WorkerMoves DEF SendPcs
<1>4. CASE ListPending(a)
  <2>1. PICK pc \in {"done", "claim"} :
          wk' = [wk EXCEPT ![a].pc = pc, ![a].ids = Page(Pending)]
    BY <1>4 DEF ListPending
  <2>2. Page(Pending) \in SUBSET Intents BY DEF Page, Pending
  <2> DEFINE x == [wk[a] EXCEPT !.pc = pc, !.ids = Page(Pending)]
  <2>3. x \in WkRec /\ x.pc = pc BY <1>1, <2>2 DEF WkRec, Steps
  <2>4. Carries(x) BY <2>3 DEF Carries, SendPcs
  <2>5. wk' = [wk EXCEPT ![a] = x] BY <2>1, <1>1
  <2> HIDE DEF x
  <2> QED BY <1>1, <1>4, <2>3, <2>4, <2>5, WorkerMoves DEF ListPending, SendPcs, Inv, TypeOK
<1> QED BY <1>2, <1>3, <1>4

\* The steps of the claim that read, or find that the row is somebody else's.
LEMMA ClaimReads ==
  ASSUME Inv, NEW w \in Workers,
         \/ ClaimInsert(w) /\ row.status # "absent"
         \/ ClaimFind(w)
         \/ ClaimUpdate(w) /\ ~AutoRetryable(row)
         \/ Existing(w)
  PROVE  Inv'
<1>1. wk[w] \in WkRec /\ wk \in [Workers -> WkRec] /\ row \in Row /\ Carries(wk[w])
  BY DEF Inv, TypeOK, WkRec
<1>2. CASE ClaimInsert(w) /\ row.status # "absent"
  <2> DEFINE x == [wk[w] EXCEPT !.pc = "find"]
  <2>1. x \in WkRec /\ x.pc = "find" BY <1>1 DEF WkRec, Steps
  <2>2. Carries(x) BY <2>1 DEF Carries, SendPcs
  <2>3. wk' = [wk EXCEPT ![w] = x] BY <1>2, <1>1 DEF ClaimInsert, Goto
  <2> HIDE DEF x
  <2> QED BY <1>1, <1>2, <2>1, <2>2, <2>3, WorkerMoves DEF ClaimInsert, SendPcs, Inv, TypeOK
<1>3. CASE ClaimFind(w)
  <2>1. PICK pc \in {"reclaim", "existing"} :
          /\ Holding(w, row, pc)
          /\ pc = "reclaim" => AutoRetryable(row)
    BY <1>3 DEF ClaimFind
  <2> DEFINE x == [wk[w] EXCEPT !.pc = pc, !.seen = row]
  <2>2. x \in WkRec /\ x.pc = pc /\ x.seen = row BY <1>1 DEF WkRec, Steps
  <2>3. Carries(x)
    BY <2>1, <2>2 DEF Carries, SendPcs, Inv, RowInv, AutoRetryable
  <2>4. wk' = [wk EXCEPT ![w] = x] BY <2>1, <1>1 DEF Holding
  <2> HIDE DEF x
  <2> QED BY <1>1, <1>3, <2>2, <2>3, <2>4, WorkerMoves DEF ClaimFind, SendPcs, Inv, TypeOK
<1>4. CASE ClaimUpdate(w) /\ ~AutoRetryable(row)
  <2> DEFINE x == [wk[w] EXCEPT !.pc = "existing"]
  <2>1. x \in WkRec /\ x.pc = "existing" /\ x.seen = wk[w].seen BY <1>1 DEF WkRec, Steps
  <2>2. wk[w].seen.status = "failed" BY <1>1, <1>4 DEF ClaimUpdate, Carries
  <2>3. Carries(x) BY <2>1, <2>2 DEF Carries, SendPcs
  <2>4. wk' = [wk EXCEPT ![w] = x] BY <1>4, <1>1 DEF ClaimUpdate, Goto
  <2> HIDE DEF x
  <2> QED BY <1>1, <1>4, <2>1, <2>3, <2>4, WorkerMoves DEF ClaimUpdate, SendPcs, Inv, TypeOK
<1>5. CASE Existing(w)
  <2>0. /\ wk[w].pc = "existing"
        /\ UNCHANGED <<mode, cast, status, log, row, chain, pay>>
    BY <1>5 DEF Existing
  <2>1. CASE \E pc \in {"manual", "reconcile"} : wk' = [wk EXCEPT ![w].pc = pc]
    <3>1. PICK pc \in {"manual", "reconcile"} : wk' = [wk EXCEPT ![w].pc = pc] BY <2>1
    <3> DEFINE x == [wk[w] EXCEPT !.pc = pc]
    <3>2. x \in WkRec /\ x.pc = pc BY <1>1 DEF WkRec, Steps
    <3>3. Carries(x) BY <3>2 DEF Carries, SendPcs
    <3>4. wk' = [wk EXCEPT ![w] = x] BY <3>1, <1>1
    <3> HIDE DEF x
    <3> QED BY <2>0, <3>2, <3>3, <3>4, WorkerMoves DEF SendPcs, Inv, TypeOK
  <2>2. CASE /\ wk[w].seen.status = "broadcasting" /\ wk[w].seen.hash # 0
             /\ wk' = [wk EXCEPT ![w].pc = "persisted", ![w].ids = wk[w].seen.ids]
    <3> DEFINE x == [wk[w] EXCEPT !.pc = "persisted", !.ids = wk[w].seen.ids]
    <3>1. wk[w].seen.ids \in SUBSET Intents BY <1>1 DEF WkRec, Row
    <3>2. /\ x \in WkRec /\ x.pc = "persisted" /\ x.ids = wk[w].seen.ids
          /\ x.seen = wk[w].seen
      BY <1>1, <3>1 DEF WkRec, Steps
    <3>3. Carries(x) BY <3>2, <2>0, <2>2, <1>1 DEF Carries, SendPcs
    <3>4. wk' = [wk EXCEPT ![w] = x] BY <2>2, <1>1
    <3> HIDE DEF x
    <3> QED BY <2>0, <3>2, <3>3, <3>4, WorkerMoves DEF SendPcs, Inv, TypeOK
  <2>3. CASE wk' = [wk EXCEPT ![w] = [Idle EXCEPT !.pc = "done"]]
    BY <2>0, <2>3, IdleIsFine, WorkerMoves DEF SendPcs, Inv, TypeOK
  <2> QED BY <1>5, <2>1, <2>2, <2>3 DEF Existing
<1> QED BY <1>2, <1>3, <1>4, <1>5

\* What a hash that was persisted calls for; the reconciliation of a confirmed row.
LEMMA RowReads ==
  ASSUME Inv, NEW w \in Workers, Persisted(w) \/ Reconcile(w)
  PROVE  Inv'
<1>1. wk[w] \in WkRec /\ wk \in [Workers -> WkRec] /\ row \in Row /\ Carries(wk[w])
  BY DEF Inv, TypeOK, WkRec
<1>2. CASE Persisted(w) /\ wk[w].seen.hash = 0
  <2> DEFINE x == [wk[w] EXCEPT !.pc = "manual"]
  <2>1. x \in WkRec /\ x.pc = "manual" BY <1>1 DEF WkRec, Steps
  <2>2. Carries(x) BY <2>1 DEF Carries, SendPcs
  <2>3. wk' = [wk EXCEPT ![w] = x] BY <1>2, <1>1 DEF Persisted, Goto
  <2> HIDE DEF x
  <2> QED BY <1>2, <2>1, <2>2, <2>3, WorkerMoves DEF Persisted, SendPcs, Inv, TypeOK
<1>3. CASE Persisted(w) /\ wk[w].seen.hash # 0
  <2> DEFINE x == [wk[w] EXCEPT !.pc = "confirm", !.hash = wk[w].seen.hash]
  <2>1. wk[w].seen.hash \in Hash BY <1>1 DEF WkRec, Row
  <2>2. /\ x \in WkRec /\ x.pc = "confirm" /\ x.ids = wk[w].ids
        /\ x.hash = wk[w].seen.hash
    BY <1>1, <2>1 DEF WkRec, Steps
  <2>3. Carries(x) BY <2>2, <1>1, <1>3 DEF Persisted, Carries, SendPcs
  <2>4. wk' = [wk EXCEPT ![w] = x] BY <1>3, <1>1 DEF Persisted
  <2> HIDE DEF x
  <2> QED BY <1>3, <2>2, <2>3, <2>4, WorkerMoves DEF Persisted, SendPcs, Inv, TypeOK
<1>4. CASE Reconcile(w) /\ row.status = "confirmed" /\ row.hash # 0
  <2> DEFINE x == [wk[w] EXCEPT !.pc = "mark", !.ids = row.ids, !.seen = row,
                                !.hash = row.hash]
  <2>1. row.hash \in Hash /\ row.ids \in SUBSET Intents BY <1>1 DEF Row
  <2>2. x \in WkRec /\ x.pc = "mark" /\ x.ids = row.ids /\ x.hash = row.hash
    BY <1>1, <2>1 DEF WkRec, Steps
  <2>3. Carries(x) BY <2>2, <1>4 DEF Carries, SendPcs, Inv, RowInv
  <2>4. wk' = [wk EXCEPT ![w] = x] BY <1>4, <1>1 DEF Reconcile
  <2> HIDE DEF x
  <2> QED BY <1>4, <2>2, <2>3, <2>4, WorkerMoves DEF Reconcile, SendPcs, Inv, TypeOK
<1>5. CASE Reconcile(w) /\ ~(row.status = "confirmed" /\ row.hash # 0)
  BY <1>5, IdleIsFine, WorkerMoves DEF Reconcile, SendPcs, Inv, TypeOK
<1> QED BY <1>2, <1>3, <1>4, <1>5

\* The steps of a retry pass that write nothing, and the death of a worker.
LEMMA PassReads ==
  ASSUME Inv, NEW w \in Workers,
         \/ RetryList(w) \/ RetryFind(w) \/ Sweep(w) \/ RetryAgain(w) \/ Crash(w)
         \/ RetryClaim(w) /\ ~Retryable(w, row)
  PROVE  Inv'
<1>1. wk[w] \in WkRec /\ wk \in [Workers -> WkRec] /\ row \in Row /\ Carries(wk[w])
  BY DEF Inv, TypeOK, WkRec
<1>2. CASE RetryList(w)
  <2>1. PICK old \in BOOLEAN :
          LET listed == AutoRetryable(row) \/ (row.status = "broadcasting" /\ old) IN
          wk' = [wk EXCEPT ![w].pc = IF listed THEN "listed" ELSE "sweep",
                           ![w].from = IF listed THEN row.status ELSE "absent",
                           ![w].old = listed /\ old]
    BY <1>2 DEF RetryList
  <2>2. PICK pc \in {"listed", "sweep"}, from \in {"absent", "broadcasting", "failed"},
             aged \in BOOLEAN :
          /\ wk' = [wk EXCEPT ![w].pc = pc, ![w].from = from, ![w].old = aged]
          /\ pc = "listed" => from = row.status
    <3>1. CASE AutoRetryable(row)
      <4>1. row.status = "failed" BY <3>1 DEF AutoRetryable
      <4>2. wk' = [wk EXCEPT ![w].pc = "listed", ![w].from = "failed", ![w].old = old]
        BY <2>1, <3>1, <4>1
      <4> QED BY <4>1, <4>2
    <3>2. CASE ~AutoRetryable(row) /\ row.status = "broadcasting" /\ old
      <4>1. wk' = [wk EXCEPT ![w].pc = "listed", ![w].from = "broadcasting", ![w].old = TRUE]
        BY <2>1, <3>2
      <4> QED BY <3>2, <4>1
    <3>3. CASE ~AutoRetryable(row) /\ ~(row.status = "broadcasting" /\ old)
      <4>1. wk' = [wk EXCEPT ![w].pc = "sweep", ![w].from = "absent", ![w].old = FALSE]
        BY <2>1, <3>3
      <4> QED BY <4>1
    <3> QED BY <3>1, <3>2, <3>3
  <2> DEFINE x == [wk[w] EXCEPT !.pc = pc, !.from = from, !.old = aged]
  <2>3. x \in WkRec /\ x.pc = pc /\ x.from = from BY <1>1 DEF WkRec, Steps
  <2>4. Carries(x) BY <2>2, <2>3 DEF Carries, SendPcs
  <2>5. wk' = [wk EXCEPT ![w] = x] BY <2>2, <1>1
  <2> HIDE DEF x
  <2> QED BY <1>2, <2>3, <2>4, <2>5, WorkerMoves DEF RetryList, SendPcs, Inv, TypeOK
<1>3. CASE RetryFind(w)
  <2>1. PICK pc \in {"sweep", "retry"} : Holding(w, row, pc) BY <1>3 DEF RetryFind
  <2> DEFINE x == [wk[w] EXCEPT !.pc = pc, !.seen = row]
  <2>2. x \in WkRec /\ x.pc = pc /\ x.from = wk[w].from /\ x.old = wk[w].old
    BY <1>1 DEF WkRec, Steps
  <2>3. Carries(x) BY <2>2, <1>1, <1>3 DEF RetryFind, Carries, SendPcs
  <2>4. wk' = [wk EXCEPT ![w] = x] BY <2>1, <1>1 DEF Holding
  <2> HIDE DEF x
  <2> QED BY <1>3, <2>2, <2>3, <2>4, WorkerMoves DEF RetryFind, SendPcs, Inv, TypeOK
<1>4. CASE Sweep(w) /\ wk' # [wk EXCEPT ![w] = [Idle EXCEPT !.pc = "done"]]
  <2> DEFINE x == [wk[w] EXCEPT !.pc = "reconcile", !.from = "absent"]
  <2>1. x \in WkRec /\ x.pc = "reconcile" BY <1>1 DEF WkRec, Steps
  <2>2. Carries(x) BY <2>1 DEF Carries, SendPcs
  <2>3. wk' = [wk EXCEPT ![w] = x] BY <1>4, <1>1 DEF Sweep
  <2> HIDE DEF x
  <2> QED BY <1>4, <2>1, <2>2, <2>3, WorkerMoves DEF Sweep, SendPcs, Inv, TypeOK
<1>5. CASE Sweep(w) /\ wk' = [wk EXCEPT ![w] = [Idle EXCEPT !.pc = "done"]]
  BY <1>5, IdleIsFine, WorkerMoves DEF Sweep, SendPcs, Inv, TypeOK
<1>6. CASE RetryAgain(w)
  <2>2. Idle \in WkRec /\ Idle.pc = "idle" /\ Carries(Idle) BY IdleIsFine
  <2>3. /\ wk' = [wk EXCEPT ![w] = Idle]
        /\ UNCHANGED <<mode, cast, status, log, row, chain, pay>>
    BY <1>6 DEF RetryAgain
  <2> QED BY <2>2, <2>3, WorkerMoves DEF SendPcs, Inv, TypeOK
<1>7. CASE Crash(w)
  BY <1>7, IdleIsFine, WorkerMoves DEF Crash, SendPcs, Inv, TypeOK
<1>8. CASE RetryClaim(w) /\ ~Retryable(w, row)
  <2>1. PICK pc \in {"reconcile", "sweep"} : Goto(w, pc) BY <1>8 DEF RetryClaim
  <2> DEFINE x == [wk[w] EXCEPT !.pc = pc]
  <2>2. x \in WkRec /\ x.pc = pc BY <1>1 DEF WkRec, Steps
  <2>3. Carries(x) BY <2>2 DEF Carries, SendPcs
  <2>4. wk' = [wk EXCEPT ![w] = x] BY <2>1, <1>1 DEF Goto
  <2> HIDE DEF x
  <2> QED BY <1>8, <2>2, <2>3, <2>4, WorkerMoves DEF RetryClaim, SendPcs, Inv, TypeOK
<1> QED BY <1>2, <1>3, <1>4, <1>5, <1>6, <1>7, <1>8

--------------------------------------------------------------------------------
(* The steps of workers that write the row.                                        *)

LEMMA Claims ==
  ASSUME Inv, NEW w \in Workers,
         \/ ClaimInsert(w) /\ row.status = "absent"
         \/ ClaimUpdate(w) /\ AutoRetryable(row)
  PROVE  Inv'
<1>0. NoRow \in Row BY IdleIsFine
<1>1. wk[w] \in WkRec /\ row \in Row
  BY DEF Inv, TypeOK, WkRec
<1>2. PICK r \in Row : /\ r = Claimed(row, wk[w].ids)
                       /\ r.status = "broadcasting" /\ r.hash = 0 /\ r.ids = wk[w].ids
  <2> DEFINE r == Claimed(row, wk[w].ids)
  <2>1. 0 \in Hash BY PaymentAssumption DEF PaymentAssumption, Hash
  <2>2. /\ r \in Row
        /\ r.status = "broadcasting" /\ r.hash = 0 /\ r.ids = wk[w].ids
    BY <1>1, <2>1 DEF Claimed, Row, WkRec
  <2>3. r = Claimed(row, wk[w].ids) OBVIOUS
  <2> HIDE DEF r
  <2> QED BY <2>2, <2>3
<1>3. PICK x \in WkRec : /\ Update(w, r, x)
                         /\ x.pc = "send" /\ x.ids = wk[w].ids
  <2>1. CASE ClaimInsert(w) /\ row.status = "absent"
    <3>1. Update(w, r, [wk[w] EXCEPT !.pc = "send"]) BY <1>2, <2>1 DEF ClaimInsert
    <3>2. PICK x \in WkRec : /\ x = [wk[w] EXCEPT !.pc = "send"]
                             /\ x.pc = "send" /\ x.ids = wk[w].ids
      <4> DEFINE x == [wk[w] EXCEPT !.pc = "send"]
      <4>1. x \in WkRec /\ x.pc = "send" /\ x.ids = wk[w].ids
        BY <1>1 DEF WkRec, Steps
      <4>2. x = [wk[w] EXCEPT !.pc = "send"] OBVIOUS
      <4> HIDE DEF x
      <4> QED BY <4>1, <4>2
    <3> QED BY <3>1, <3>2
  <2>2. CASE ClaimUpdate(w) /\ AutoRetryable(row)
    <3>1. Update(w, r, [wk[w] EXCEPT !.pc = "send", !.seen = NoRow])
      BY <1>2, <2>2 DEF ClaimUpdate
    <3>2. PICK x \in WkRec : /\ x = [wk[w] EXCEPT !.pc = "send", !.seen = NoRow]
                             /\ x.pc = "send" /\ x.ids = wk[w].ids
      <4> DEFINE x == [wk[w] EXCEPT !.pc = "send", !.seen = NoRow]
      <4>1. x \in WkRec /\ x.pc = "send" /\ x.ids = wk[w].ids
        BY <1>0, <1>1 DEF WkRec, Steps
      <4>2. x = [wk[w] EXCEPT !.pc = "send", !.seen = NoRow] OBVIOUS
      <4> HIDE DEF x
      <4> QED BY <4>1, <4>2
    <3> QED BY <3>1, <3>2
  <2> QED BY <2>1, <2>2
<1>4. UNCHANGED <<mode, cast, status, log, chain, pay>>
  BY DEF ClaimInsert, ClaimUpdate
<1>5. ~Taken BY DEF Taken, ClaimInsert, ClaimUpdate
<1>6. r.status # "absent" /\ ~AutoRetryable(r) BY <1>2 DEF AutoRetryable
<1>7. row' = r BY <1>3 DEF Update
<1>8. Carries(x)' BY <1>2, <1>3, <1>7 DEF Carries, SendPcs
<1> QED BY <1>2, <1>3, <1>4, <1>5, <1>6, <1>8, WorkerUpdates DEF SendPcs

LEMMA WritesFailed ==
  ASSUME Inv, NEW w \in Workers, FailRow(w) \/ NeedsManual(w)
  PROVE  Inv'
<1>1. wk[w] \in WkRec /\ row \in Row
  BY DEF Inv, TypeOK, WkRec
<1>2. CASE FailRow(w)
  <2>1. PICK r \in Row :
          /\ r = [row EXCEPT !.status = "failed", !.hash = wk[w].hash, !.manual = FALSE]
          /\ r.status = "failed" /\ r.hash = wk[w].hash /\ r.ids = row.ids
    <3> DEFINE r == [row EXCEPT !.status = "failed", !.hash = wk[w].hash, !.manual = FALSE]
    <3>1. r \in Row /\ r.status = "failed" /\ r.hash = wk[w].hash /\ r.ids = row.ids
      BY <1>1 DEF Row, WkRec
    <3>2. r = [row EXCEPT !.status = "failed", !.hash = wk[w].hash, !.manual = FALSE] OBVIOUS
    <3> HIDE DEF r
    <3> QED BY <3>1, <3>2
  <2>2. PICK x \in WkRec : x = [wk[w] EXCEPT !.pc = "markFailed"] /\ x.pc = "markFailed"
    <3> DEFINE x == [wk[w] EXCEPT !.pc = "markFailed"]
    <3>1. x \in WkRec /\ x.pc = "markFailed"
      BY <1>1 DEF WkRec, Steps
    <3>2. x = [wk[w] EXCEPT !.pc = "markFailed"] OBVIOUS
    <3> HIDE DEF x
    <3> QED BY <3>1, <3>2
  <2>3. Update(w, r, x) /\ wk[w].pc = "fail"
        /\ UNCHANGED <<mode, cast, status, log, chain, pay>>
    BY <1>2, <2>1, <2>2 DEF FailRow
  <2>4. Carries(x)' BY <2>2 DEF Carries, SendPcs
  <2>5. wk[w].hash # 0 => ~AutoRetryable(r) BY <2>1 DEF AutoRetryable
  <2> QED BY <2>1, <2>2, <2>3, <2>4, <2>5, WorkerUpdates DEF SendPcs
<1>3. CASE NeedsManual(w)
  <2>1. PICK r \in Row :
          /\ r = [row EXCEPT !.status = "failed", !.hash = wk[w].seen.hash, !.manual = TRUE]
          /\ r.status = "failed" /\ r.ids = row.ids /\ r.manual = TRUE
    <3> DEFINE r == [row EXCEPT !.status = "failed", !.hash = wk[w].seen.hash, !.manual = TRUE]
    <3>1. r \in Row /\ r.status = "failed" /\ r.ids = row.ids /\ r.manual = TRUE
      BY <1>1 DEF Row, WkRec
    <3>2. r = [row EXCEPT !.status = "failed", !.hash = wk[w].seen.hash, !.manual = TRUE] OBVIOUS
    <3> HIDE DEF r
    <3> QED BY <3>1, <3>2
  <2>2. After(w) \in {"done", "sweep"} BY DEF After
  <2>3. PICK pc \in {"done", "sweep"} : pc = After(w) BY <2>2
  <2>4. PICK x \in WkRec : x = [Idle EXCEPT !.pc = pc] /\ x.pc = pc
    BY IdleIsFine
  <2>5. Update(w, r, x) /\ UNCHANGED <<mode, cast, status, log, chain, pay>>
    BY <1>3, <2>1, <2>3, <2>4 DEF NeedsManual
  <2>6. Carries(x)' BY <2>4 DEF Carries, SendPcs
  <2>7. ~AutoRetryable(r) BY <2>1 DEF AutoRetryable
  <2> QED BY <2>1, <2>4, <2>5, <2>6, <2>7, WorkerUpdates DEF SendPcs
<1> QED BY <1>2, <1>3

LEMMA WritesReceipt ==
  ASSUME Inv, NEW w \in Workers, RecordReceipt(w) \/ ConfirmRow(w)
  PROVE  Inv'
<1>1. wk[w] \in WkRec /\ row \in Row /\ Carries(wk[w])
  BY DEF Inv, TypeOK, WkRec
<1>2. wk[w].pc \in {"receipt", "confirm"} BY DEF RecordReceipt, ConfirmRow
<1>3. Anchor(wk[w].hash, row.ids) /\ wk[w].ids = row.ids BY <1>1, <1>2 DEF Carries
<1>4. wk[w].hash # 0
  <2>1. chain \in Seq(TxRec) BY DEF Inv, TypeOK, TxRec
  <2>2. DOMAIN chain = 1 .. Len(chain) /\ Len(chain) \in Nat BY <2>1
  <2> QED BY <1>3, <2>2 DEF Anchor
<1>5. CASE RecordReceipt(w)
  <2>1. PICK r \in Row :
          /\ r = [row EXCEPT !.hash = wk[w].hash, !.manual = FALSE]
          /\ r.status = row.status /\ r.hash = wk[w].hash /\ r.ids = row.ids
    <3> DEFINE r == [row EXCEPT !.hash = wk[w].hash, !.manual = FALSE]
    <3>1. r \in Row /\ r.status = row.status /\ r.hash = wk[w].hash /\ r.ids = row.ids
      BY <1>1 DEF Row, WkRec
    <3>2. r = [row EXCEPT !.hash = wk[w].hash, !.manual = FALSE] OBVIOUS
    <3> HIDE DEF r
    <3> QED BY <3>1, <3>2
  <2>2. PICK x \in WkRec :
          /\ x = [wk[w] EXCEPT !.pc = "confirm"]
          /\ x.pc = "confirm" /\ x.ids = wk[w].ids /\ x.hash = wk[w].hash
    <3> DEFINE x == [wk[w] EXCEPT !.pc = "confirm"]
    <3>1. x \in WkRec /\ x.pc = "confirm" /\ x.ids = wk[w].ids /\ x.hash = wk[w].hash
      BY <1>1 DEF WkRec, Steps
    <3>2. x = [wk[w] EXCEPT !.pc = "confirm"] OBVIOUS
    <3> HIDE DEF x
    <3> QED BY <3>1, <3>2
  <2>3. Update(w, r, x) /\ wk[w].pc = "receipt"
        /\ UNCHANGED <<mode, cast, status, log, chain, pay>>
    BY <1>5, <2>1, <2>2 DEF RecordReceipt
  <2>4. row.status # "absent" BY <2>3 DEF Inv, SenderInv, SendPcs, Taken
  <2>5. ~AutoRetryable(r) BY <1>4, <2>1 DEF AutoRetryable
  <2>6. row'.ids = row.ids BY <2>1, <2>3 DEF Update
  <2>7. Anchor(x.hash, row.ids)' BY <1>3, <2>2, <2>3, <2>6 DEF Anchor
  <2>8. Carries(x)' BY <1>3, <2>2, <2>6, <2>7 DEF Carries, SendPcs
  <2> QED BY <1>3, <2>1, <2>2, <2>3, <2>4, <2>5, <2>8, WorkerUpdates DEF SendPcs
<1>6. CASE ConfirmRow(w)
  <2>1. PICK r \in Row :
          /\ r = [row EXCEPT !.status = "confirmed", !.hash = wk[w].hash, !.manual = FALSE]
          /\ r.status = "confirmed" /\ r.hash = wk[w].hash /\ r.ids = row.ids
    <3> DEFINE r == [row EXCEPT !.status = "confirmed", !.hash = wk[w].hash, !.manual = FALSE]
    <3>1. r \in Row /\ r.status = "confirmed" /\ r.hash = wk[w].hash /\ r.ids = row.ids
      BY <1>1 DEF Row, WkRec
    <3>2. r = [row EXCEPT !.status = "confirmed", !.hash = wk[w].hash, !.manual = FALSE] OBVIOUS
    <3> HIDE DEF r
    <3> QED BY <3>1, <3>2
  <2>2. PICK x \in WkRec :
          /\ x = [wk[w] EXCEPT !.pc = "mark"]
          /\ x.pc = "mark" /\ x.ids = wk[w].ids /\ x.hash = wk[w].hash
    <3> DEFINE x == [wk[w] EXCEPT !.pc = "mark"]
    <3>1. x \in WkRec /\ x.pc = "mark" /\ x.ids = wk[w].ids /\ x.hash = wk[w].hash
      BY <1>1 DEF WkRec, Steps
    <3>2. x = [wk[w] EXCEPT !.pc = "mark"] OBVIOUS
    <3> HIDE DEF x
    <3> QED BY <3>1, <3>2
  <2>3. Update(w, r, x) /\ UNCHANGED <<mode, cast, status, log, chain, pay>>
    BY <1>6, <2>1, <2>2 DEF ConfirmRow
  <2>4. Anchor(x.hash, x.ids)' BY <1>3, <2>2, <2>3 DEF Anchor
  <2>5. Carries(x)' BY <2>2, <2>4 DEF Carries, SendPcs
  <2>6. ~AutoRetryable(r) BY <2>1 DEF AutoRetryable
  <2> QED BY <1>3, <2>1, <2>2, <2>3, <2>5, <2>6, WorkerUpdates DEF SendPcs
<1> QED BY <1>5, <1>6

\* A pass takes over a failed row or an abandoned broadcast.
LEMMA TakesOver ==
  ASSUME Inv, NEW w \in Workers, RetryClaim(w), Retryable(w, row)
  PROVE  Inv'
<1>1. wk[w] \in WkRec /\ row \in Row /\ Carries(wk[w])
  BY DEF Inv, TypeOK, WkRec
<1>2. PICK r \in Row : /\ r = Retaken(row, wk[w].seen)
                       /\ r.status = "broadcasting" /\ r.ids = row.ids
                       /\ r.hash = 0 \/ r.hash = row.hash
  <2> DEFINE r == Retaken(row, wk[w].seen)
  <2>1. 0 \in Hash BY PaymentAssumption DEF PaymentAssumption, Hash
  <2>2. /\ r \in Row /\ r.status = "broadcasting" /\ r.ids = row.ids
        /\ r.hash = 0 \/ r.hash = row.hash
    <3>1. CASE wk[w].seen.status = "failed"
      BY <1>1, <2>1, <3>1 DEF Retaken, Claimed, Row
    <3>2. CASE wk[w].seen.status # "failed"
      BY <1>1, <3>2 DEF Retaken, Row
    <3> QED BY <3>1, <3>2
  <2> HIDE DEF r
  <2>3. r = Retaken(row, wk[w].seen) BY DEF r
  <2> QED BY <2>2, <2>3
<1>3. r.ids \in SUBSET Intents BY <1>2 DEF Row
<1>4. PICK x \in WkRec :
        /\ Update(w, r, x)
        /\ x.ids = row.ids
        /\ \/ x.pc = "send" /\ wk[w].from = "failed"
           \/ x.pc = "persisted" /\ x.seen = r
  <2>1. PICK seen \in Row : seen = IF wk[w].from = "failed" THEN NoRow ELSE r
    BY IdleIsFine
  <2>2. PICK pc \in Steps : pc = IF wk[w].from = "failed" THEN "send" ELSE "persisted"
    BY DEF Steps
  <2>3. PICK x \in WkRec :
          /\ x = [wk[w] EXCEPT !.ids = r.ids, !.seen = seen, !.pc = pc]
          /\ x.ids = r.ids /\ x.pc = pc /\ x.seen = seen
    <3> DEFINE x == [wk[w] EXCEPT !.ids = r.ids, !.seen = seen, !.pc = pc]
    <3>1. x \in WkRec /\ x.ids = r.ids /\ x.pc = pc /\ x.seen = seen
      BY <1>1, <1>3 DEF WkRec
    <3>2. x = [wk[w] EXCEPT !.ids = r.ids, !.seen = seen, !.pc = pc] OBVIOUS
    <3> HIDE DEF x
    <3> QED BY <3>1, <3>2
  <2>4. Update(w, r, [wk[w] EXCEPT !.ids = r.ids,
                       !.seen = IF wk[w].from = "failed" THEN NoRow ELSE r,
                       !.pc = IF wk[w].from = "failed" THEN "send" ELSE "persisted"])
    BY <1>2, Zenon DEF RetryClaim
  <2>5. Update(w, r, x) BY <2>1, <2>2, <2>3, <2>4, Zenon
  <2> QED BY <1>2, <2>1, <2>2, <2>3, <2>5
<1>5. wk[w].pc = "retry" /\ UNCHANGED <<mode, cast, status, log, chain, pay>>
  BY DEF RetryClaim
<1>6. \/ AutoRetryable(row)
      \/ row.status = "broadcasting" /\ wk[w].old /\ wk[w].from = "broadcasting"
  BY <1>1, <1>5 DEF Retryable, Carries
<1>7. r.hash # 0 => Anchor(r.hash, row.ids)
  BY <1>2, <1>6 DEF Inv, RowInv, AutoRetryable
<1>8. x.pc = "send" => ~Taken BY <1>4, <1>6 DEF Taken
<1>9. row'.ids = row.ids BY <1>2, <1>4 DEF Update
<1>10. Carries(x)'
  <2>1. CASE x.pc = "send" BY <2>1, <1>4, <1>9 DEF Carries, SendPcs
  <2>2. CASE x.pc = "persisted" /\ x.seen = r
    <3>1. r.hash # 0 => Anchor(r.hash, row.ids)' BY <1>5, <1>7, <1>9 DEF Anchor
    <3> QED BY <2>2, <3>1, <1>4, <1>9 DEF Carries, SendPcs
  <2> QED BY <1>4, <2>1, <2>2
<1>11. r.status # "absent" /\ ~AutoRetryable(r) BY <1>2 DEF AutoRetryable
<1>12. r.status = "broadcasting" /\ r.hash # 0 => Anchor(r.hash, r.ids) BY <1>2, <1>7
<1>13. x.pc \notin {"listed", "retry"} /\ (x.pc \in SendPcs => ~Taken)
  BY <1>4, <1>8 DEF SendPcs
<1> QED BY <1>2, <1>4, <1>5, <1>10, <1>11, <1>12, <1>13, WorkerUpdates

--------------------------------------------------------------------------------
(* Transactions.                                                                   *)

\* An entry of a paid call is in no transaction of a research.
LEMMA DirectsApart ==
  ASSUME NEW d \in Directs, NEW ids \in SUBSET Intents
  PROVE  ids # {d} /\ ~({d} \subseteq Intents)
BY PaymentAssumption DEF PaymentAssumption

\* A longer chain keeps what the row and the other workers know of it.
LEMMA OthersCarry ==
  ASSUME Inv, NEW w \in Workers, NEW x \in WkRec,
         wk' = [wk EXCEPT ![w] = x], row' = row,
         \A h, ids : Anchor(h, ids) => Anchor(h, ids)'
  PROVE  /\ RowInv'
         /\ \A u \in Workers \ {w} : Carries(wk[u])'
<1>1. wk \in [Workers -> WkRec] BY DEF Inv, TypeOK, WkRec
<1>2. row.status = "confirmed" => Anchor(row.hash, row.ids)'
  <2>1. row.status = "confirmed" => Anchor(row.hash, row.ids) BY DEF Inv, RowInv
  <2> QED BY <2>1 DEF Anchor
<1>3. row.status = "broadcasting" /\ row.hash # 0 => Anchor(row.hash, row.ids)'
  <2>1. row.status = "broadcasting" /\ row.hash # 0 => Anchor(row.hash, row.ids)
    BY DEF Inv, RowInv
  <2> QED BY <2>1 DEF Anchor
<1>4. RowInv' BY <1>2, <1>3 DEF RowInv
<1>5. ASSUME NEW u \in Workers \ {w} PROVE Carries(wk[u])'
  <2>1. PICK y \in WkRec : y = wk[u] BY <1>1
  <2>2. wk'[u] = y BY <1>1, <2>1
  <2>3. PICK ids \in SUBSET Intents : ids = row.ids BY DEF Inv, TypeOK, Row
  <2>4. Carries(y) BY <2>1 DEF Inv
  <2>5. Carries(y)' BY <2>3, <2>4 DEF Carries
  <2> QED BY <2>2, <2>5
<1> QED BY <1>4, <1>5

LEMMA SendKeeps ==
  ASSUME Inv, NEW w \in Workers, Send(w)
  PROVE  Inv'
<1>1. /\ wk[w] \in WkRec /\ wk \in [Workers -> WkRec] /\ Carries(wk[w])
      /\ wk[w].pc = "send" /\ wk[w].ids \in SUBSET Intents
      /\ UNCHANGED <<mode, cast, status, log, row, pay>>
  BY DEF Inv, TypeOK, WkRec, Send
<1>2. ~Told BY <1>1 DEF Inv, SenderInv, SendPcs
<1>3. CASE Goto(w, "fail") /\ UNCHANGED chain
  <2>1. PICK x \in WkRec : /\ x = [wk[w] EXCEPT !.pc = "fail"]
                           /\ x.pc = "fail" /\ x.ids = wk[w].ids
    <3> DEFINE x == [wk[w] EXCEPT !.pc = "fail"]
    <3>1. x \in WkRec /\ x.pc = "fail" /\ x.ids = wk[w].ids BY <1>1 DEF WkRec, Steps
    <3>2. x = [wk[w] EXCEPT !.pc = "fail"] OBVIOUS
    <3> HIDE DEF x
    <3> QED BY <3>1, <3>2
  <2>2. Carries(x) BY <1>1, <2>1 DEF Carries, SendPcs
  <2>3. wk' = [wk EXCEPT ![w] = x] BY <1>1, <1>3, <2>1 DEF Goto
  <2> QED BY <1>1, <1>2, <1>3, <2>1, <2>2, <2>3, WorkerMoves DEF SendPcs, Inv, TypeOK
<1>4. CASE ~(Goto(w, "fail") /\ UNCHANGED chain)
  <2>0. Len(chain) < MaxSends BY <1>4 DEF Send
  <2>1. PICK ok \in BOOLEAN, told \in BOOLEAN, pc \in {"receipt", "fail"}, h \in Hash :
          /\ Sent(wk[w].ids, ok, told)
          /\ wk' = [wk EXCEPT ![w].pc = pc, ![w].hash = h]
          /\ told => h = Len(chain) + 1
          /\ pc = "receipt" => ok /\ told
    <3>1. Len(chain) + 1 \in Hash
      <4>1. chain \in Seq(TxRec) BY DEF Inv, TypeOK, TxRec
      <4> QED BY <2>0, <4>1, PaymentAssumption DEF PaymentAssumption, Hash
    <3>2. CASE /\ Sent(wk[w].ids, TRUE, TRUE)
               /\ wk' = [wk EXCEPT ![w].pc = "receipt", ![w].hash = Len(chain) + 1]
      BY <3>1, <3>2
    <3>3. CASE /\ \E ok \in BOOLEAN : Sent(wk[w].ids, ok, TRUE)
               /\ wk' = [wk EXCEPT ![w].pc = "fail", ![w].hash = Len(chain) + 1]
      BY <3>1, <3>3
    <3>4. CASE Sent(wk[w].ids, TRUE, FALSE) /\ Goto(w, "fail")
      <4>1. wk' = [wk EXCEPT ![w].pc = "fail", ![w].hash = wk[w].hash]
        BY <3>4, <1>1 DEF Goto, WkRec
      <4>2. wk[w].hash \in Hash BY <1>1 DEF WkRec
      <4> QED BY <3>4, <4>1, <4>2
    <3> QED BY <1>4, <3>2, <3>3, <3>4 DEF Send
  <2>2. PICK ids \in SUBSET Intents : ids = wk[w].ids BY <1>1
  <2>3. PICK x \in WkRec : /\ x = [wk[w] EXCEPT !.pc = pc, !.hash = h]
                           /\ x.pc = pc /\ x.hash = h /\ x.ids = ids
    <3>0. PICK y \in WkRec : y = wk[w] /\ y.ids = ids BY <1>1, <2>2
    <3> DEFINE x == [y EXCEPT !.pc = pc, !.hash = h]
    <3>1. x \in WkRec /\ x.pc = pc /\ x.hash = h /\ x.ids = ids
      BY <3>0 DEF WkRec, Steps
    <3>2. x = [wk[w] EXCEPT !.pc = pc, !.hash = h] BY <3>0
    <3> HIDE DEF x
    <3> QED BY <3>1, <3>2
  <2>4. wk' = [wk EXCEPT ![w] = x] BY <1>1, <2>1, <2>3
  <2>5. ids \in SUBSET Ids BY DEF Ids
  <2> DEFINE n == Len(chain) + 1
  <2>6. /\ chain' \in Seq(TxRec) /\ Len(chain') <= MaxSends
        /\ n \in Hash /\ n # 0 /\ n \notin DOMAIN chain
        /\ DOMAIN chain' = DOMAIN chain \cup {n}
        /\ \A i \in DOMAIN chain : chain'[i] = chain[i]
        /\ chain'[n] = [items |-> ids, ok |-> ok, told |-> told]
        /\ \A i \in DOMAIN chain : i < n
        /\ \A g, is : Anchor(g, is) => Anchor(g, is)'
    BY <2>0, <2>1, <2>2, <2>5, ChainGrows, PaymentAssumption DEF Inv
  <2>7. DOMAIN chain \subseteq Nat /\ n \in Nat
    <3>1. chain \in Seq(TxRec) BY DEF Inv, TypeOK, TxRec
    <3> QED BY <3>1
  <2>18. told => h = n BY <2>1
  <2> HIDE DEF n
  <2>8. TypeOK' BY <1>1, <2>4, <2>6 DEF Inv, TypeOK, WkRec, TxRec
  <2>9. RowInv' /\ \A u \in Workers \ {w} : Carries(wk[u])'
    BY <1>1, <2>4, <2>6, OthersCarry
  <2>10. wk'[w] = x /\ \A u \in Workers \ {w} : wk'[u] = wk[u] BY <1>1, <2>4
  <2>11. Carries(wk[w])'
    <3>1. row'.ids = ids /\ x.ids = ids
      BY <1>1, <2>2, <2>3 DEF Carries, SendPcs
    <3>2. pc = "receipt" => Anchor(x.hash, row.ids)'
      <4>1. CASE pc = "receipt"
        <5>1. ok /\ told /\ x.hash = n BY <4>1, <2>1, <2>3, <2>18
        <5>2. n \in DOMAIN chain' BY <2>6
        <5>3. chain'[n].ok /\ chain'[n].told /\ chain'[n].items = ids BY <2>6, <5>1
        <5> QED BY <3>1, <5>1, <5>2, <5>3 DEF Anchor
      <4> QED BY <4>1
    <3>3. Carries(x)' BY <2>3, <3>1, <3>2 DEF Carries, SendPcs
    <3> QED BY <2>10, <3>3
  <2>12. Told' => told BY <1>2, <2>6 DEF Told
  <2>13. SenderInv'
    <3>1. Taken' = Taken BY <1>1 DEF Taken, AutoRetryable
    <3>2. Taken BY <1>1 DEF Inv, SenderInv, SendPcs
    <3>3. \A u \in Workers : wk[u].pc \in SendPcs => u = w
      BY <1>1 DEF Inv, SenderInv, SendPcs
    <3>4. \A u \in Workers : wk'[u].pc \in SendPcs => u = w BY <2>10, <3>3
    <3>5. told => x.hash # 0 BY <2>3, <2>6, <2>18
    <3>6. x.pc # "send" BY <2>3
    <3>7. Told' => x.pc # "send" /\ x.hash # 0 BY <2>12, <3>5, <3>6
    <3> QED BY <2>10, <3>1, <3>2, <3>4, <3>7 DEF SenderInv
  <2>14. \A d \in Directs : chain'[n].items # {d}
    BY <2>6, DirectsApart
  <2>15. LogInv'
    BY <1>1, <2>6, <2>14 DEF Inv, LogInv
  <2>16. PayInv'
    BY <1>1, <2>6, <2>14 DEF Inv, PayInv
  <2>17. NoRebroadcast'
    <3> SUFFICES ASSUME NEW i \in DOMAIN chain', NEW j \in DOMAIN chain', i < j
                 PROVE  /\ chain'[i].told /\ chain'[i].items \subseteq Intents =>
                             ~(chain'[j].items \subseteq Intents)
                        /\ ~(\E d \in Directs : chain'[i].items = {d} /\ chain'[j].items = {d})
      BY DEF NoRebroadcast
    <3>1. i \in DOMAIN chain BY <2>6, <2>7
    <3>2. CASE j \in DOMAIN chain BY <2>6, <3>1, <3>2 DEF Inv, NoRebroadcast
    <3>3. CASE j = n BY <1>2, <2>6, <2>14, <3>1, <3>3 DEF Told
    <3> QED BY <2>6, <3>2, <3>3
  <2> QED BY <2>8, <2>9, <2>11, <2>13, <2>15, <2>16, <2>17 DEF Inv
<1> QED BY <1>3, <1>4 DEF Send

--------------------------------------------------------------------------------
(* Entries.                                                                        *)

LogRec == [status : LogStatus, hash : Hash]

\* Entries that are written are not absent, and what is booked was anchored.
Sound(e, i) ==
  /\ e \in LogRec /\ e.status # "absent"
  /\ e.status \in {"mock", "confirmed"} =>
       e.hash \in DOMAIN chain /\ chain[e.hash].ok /\ i \in chain[e.hash].items

LEMMA MarkedSound ==
  ASSUME Inv, NEW ids \in SUBSET Ids, NEW st \in LogStatus \ {"absent"}, NEW h \in Hash,
         MarkLog(ids, st, h),
         st \in {"mock", "confirmed"} =>
           h \in DOMAIN chain /\ chain[h].ok /\ ids \subseteq chain[h].items
  PROVE  /\ log' \in [Ids -> LogRec]
         /\ \A i \in Ids : log'[i] = log[i] \/ Sound(log'[i], i)
<1>1. log \in [Ids -> LogRec] BY DEF Inv, TypeOK, LogRec
<1>2. [status |-> st, hash |-> h] \in LogRec BY DEF LogRec
<1>3. log' = [i \in Ids |-> IF i \in ids THEN [status |-> st, hash |-> h] ELSE log[i]]
  BY DEF MarkLog
<1>4. log' \in [Ids -> LogRec] BY <1>1, <1>2, <1>3
<1>5. ASSUME NEW i \in Ids PROVE log'[i] = log[i] \/ Sound(log'[i], i)
  <2>1. CASE i \in ids
    <3>1. log'[i] = [status |-> st, hash |-> h] BY <1>3, <2>1
    <3> QED BY <1>2, <2>1, <3>1 DEF Sound
  <2>2. CASE i \notin ids BY <1>3, <2>2
  <2> QED BY <2>1, <2>2
<1> QED BY <1>4, <1>5

\* The log is written, and a worker or a payer may have ended.
LEMMA LogChanges ==
  ASSUME Inv, wk' \in [Workers -> WkRec],
         \A u \in Workers : wk'[u] = wk[u] \/ wk'[u].pc \in {"done", "sweep"},
         log' \in [Ids -> LogRec],
         \A i \in Ids : log'[i] = log[i] \/ Sound(log'[i], i),
         pay' \in [Payers -> PayRec],
         \A p \in Payers : pay'[p] = pay[p] \/ pay'[p].pc \notin {"send", "confirm"},
         UNCHANGED <<mode, cast, status, row, chain>>
  PROVE  Inv'
<1>1. TypeOK' BY DEF Inv, TypeOK, WkRec, LogRec, PayRec
<1>2. RowInv' /\ NoRebroadcast' BY DEF Inv, RowInv, NoRebroadcast, Anchor
<1>3. \A i \in Ids : log[i].status # "absent" => log'[i].status # "absent"
  BY DEF Sound
<1>4. LogInv'
  <2>1. ASSUME NEW i \in Ids, log'[i].status \in {"mock", "confirmed"}
        PROVE  /\ log'[i].hash \in DOMAIN chain
               /\ chain[log'[i].hash].ok /\ i \in chain[log'[i].hash].items
    BY <2>1 DEF Inv, LogInv, Sound
  <2>2. \A d \in Directs : d \in Ids BY DEF Ids
  <2> QED BY <1>3, <2>1, <2>2 DEF Inv, LogInv
<1>5. PayInv'
  <2>1. \A p \in Payers : pay[p].id \in Ids BY DEF Inv, TypeOK
  <2>2. \A p \in Payers : pay'[p].pc \in {"send", "confirm"} => pay'[p] = pay[p]
    OBVIOUS
  <2> QED BY <1>3, <2>1, <2>2 DEF Inv, PayInv
<1>6. SenderInv'
  <2>1. /\ Told' = Told /\ Taken' = Taken
    BY DEF Told, Taken, AutoRetryable
  <2>2. \A u \in Workers : wk'[u].pc \in SendPcs => wk'[u] = wk[u] BY DEF SendPcs
  <2> QED BY <2>1, <2>2 DEF Inv, SenderInv
<1>7. \A u \in Workers : Carries(wk[u])'
  <2> SUFFICES ASSUME NEW u \in Workers PROVE Carries(wk[u])' OBVIOUS
  <2>1. CASE wk'[u] = wk[u]
    <3>1. Carries(wk[u]) BY DEF Inv
    <3> QED BY <2>1, <3>1 DEF Carries, Anchor
  <2>2. CASE wk'[u].pc \in {"done", "sweep"}
    BY <2>2 DEF Carries, SendPcs
  <2> QED BY <2>1, <2>2
<1> QED BY <1>1, <1>2, <1>4, <1>5, <1>6, <1>7 DEF Inv

LEMMA MarksKeep ==
  ASSUME Inv, NEW w \in Workers, MarkFailed(w) \/ MarkConfirmed(w)
  PROVE  Inv'
<1>1. wk[w] \in WkRec /\ wk \in [Workers -> WkRec] /\ Carries(wk[w])
  BY DEF Inv, TypeOK, WkRec
<1>2. PICK ids \in SUBSET Ids, h \in Hash : ids = wk[w].ids /\ h = wk[w].hash
  BY <1>1 DEF WkRec, Ids
<1>3. After(w) \in {"done", "sweep"} BY DEF After
<1>4. /\ wk' = [wk EXCEPT ![w] = [Idle EXCEPT !.pc = After(w)]]
      /\ UNCHANGED <<mode, cast, status, row, chain, pay>>
  BY DEF MarkFailed, MarkConfirmed
<1>5. [Idle EXCEPT !.pc = After(w)] \in WkRec
      /\ [Idle EXCEPT !.pc = After(w)].pc \in {"done", "sweep"}
  BY <1>3, IdleIsFine
<1>6. /\ wk' \in [Workers -> WkRec]
      /\ \A u \in Workers : wk'[u] = wk[u] \/ wk'[u].pc \in {"done", "sweep"}
  BY <1>1, <1>4, <1>5
<1>7. /\ log' \in [Ids -> LogRec]
      /\ \A i \in Ids : log'[i] = log[i] \/ Sound(log'[i], i)
  <2>1. CASE MarkFailed(w)
    BY <2>1, <1>2, MarkedSound DEF MarkFailed, LogStatus
  <2>2. CASE MarkConfirmed(w)
    <3>1. h \in DOMAIN chain /\ chain[h].ok /\ chain[h].items = ids
      BY <1>1, <1>2, <2>2 DEF MarkConfirmed, Carries, Anchor
    <3>2. PICK st \in {"mock", "confirmed"} :
            st = IF wk[w].seen = NoRow THEN Booked ELSE "confirmed"
      BY DEF Booked
    <3>3. MarkLog(ids, st, h) BY <1>2, <2>2, <3>2 DEF MarkConfirmed
    <3>4. st \in LogStatus \ {"absent"} BY <3>2 DEF LogStatus
    <3> QED BY <3>1, <3>3, <3>4, MarkedSound
  <2> QED BY <2>1, <2>2
<1>8. pay' \in [Payers -> PayRec] BY <1>4 DEF Inv, TypeOK, PayRec
<1> QED BY <1>4, <1>6, <1>7, <1>8, LogChanges

LEMMA IntendKeeps ==
  ASSUME Inv, NEW a \in Agents, Intend(a)
  PROVE  Inv'
<1>1. log \in [Ids -> LogRec] /\ wk \in [Workers -> WkRec]
  BY DEF Inv, TypeOK, LogRec, WkRec
<1>2. PICK i \in IntentsOf[a] : log' = [log EXCEPT ![i].status = "pending"]
  BY DEF Intend
<1>3. \A k \in Ids : /\ log'[k] = log[k] \/ Sound(log'[k], k)
                     /\ log'[k] \in LogRec
  <2> SUFFICES ASSUME NEW k \in Ids
               PROVE  (log'[k] = log[k] \/ Sound(log'[k], k)) /\ log'[k] \in LogRec
    OBVIOUS
  <2>1. CASE k = i
    <3>1. log'[k] = [log[k] EXCEPT !.status = "pending"] BY <1>1, <1>2, <2>1
    <3> QED BY <1>1, <3>1 DEF Sound, LogRec, LogStatus
  <2>2. CASE k # i BY <1>1, <1>2, <2>2
  <2> QED BY <2>1, <2>2
<1>4. log' \in [Ids -> LogRec] BY <1>1, <1>2, <1>3
<1>5. UNCHANGED <<mode, cast, status, row, chain, wk, pay>> BY DEF Intend
<1>6. pay' \in [Payers -> PayRec] BY <1>5 DEF Inv, TypeOK, PayRec
<1> QED BY <1>1, <1>3, <1>4, <1>5, <1>6, LogChanges

--------------------------------------------------------------------------------
(* Paid calls.                                                                     *)

\* A paid call that ends, and may have written its entry.
LEMMA PayerEnds ==
  ASSUME Inv, NEW p \in Payers, NEW y \in PayRec, y.pc \notin {"send", "confirm"},
         pay' = [pay EXCEPT ![p] = y],
         log' \in [Ids -> LogRec],
         \A i \in Ids : log'[i] = log[i] \/ Sound(log'[i], i),
         UNCHANGED <<mode, cast, status, row, chain, wk>>
  PROVE  Inv'
<1>1. pay \in [Payers -> PayRec] /\ wk \in [Workers -> WkRec]
  BY DEF Inv, TypeOK, PayRec, WkRec
<1>2. pay' \in [Payers -> PayRec]
      /\ \A q \in Payers : pay'[q] = pay[q] \/ pay'[q].pc \notin {"send", "confirm"}
  BY <1>1
<1> QED BY <1>1, <1>2, LogChanges

LEMMA PayClaimKeeps ==
  ASSUME Inv, NEW p \in Payers, PayClaim(p)
  PROVE  Inv'
<1>1. /\ pay \in [Payers -> PayRec] /\ wk \in [Workers -> WkRec] /\ pay[p] \in PayRec
      /\ log \in [Ids -> LogRec]
  BY DEF Inv, TypeOK, PayRec, WkRec, LogRec
<1>2. UNCHANGED <<mode, cast, status, row, chain, wk>> BY DEF PayClaim
<1>3. CASE UNCHANGED log
  <2>1. PICK i \in Ids, pc \in {"conflict", "pending", "failed", "ok"} :
          pay' = [pay EXCEPT ![p].id = i, ![p].pc = pc]
    <3>1. PICK i \in Ids :
            IF log[i].status = "absent"
            THEN log' = [log EXCEPT ![i].status = "pending"]
            ELSE pay' = [pay EXCEPT ![p].id = i, ![p].pc =
                   CASE i \in Intents -> "conflict" [] log[i].status = "pending" -> "pending"
                     [] log[i].status = "failed" -> "failed"   [] OTHER -> "ok"]
      BY DEF PayClaim
    <3>2. log[i].status # "absent"
      <4>1. SUFFICES ASSUME log[i].status = "absent" PROVE FALSE OBVIOUS
      <4>2. log'[i] = [log[i] EXCEPT !.status = "pending"] BY <1>1, <3>1, <4>1
      <4>3. log'[i].status = "pending" BY <1>1, <4>2 DEF LogRec
      <4> QED BY <1>3, <4>1, <4>3
    <3> DEFINE pc == CASE i \in Intents -> "conflict" [] log[i].status = "pending" -> "pending"
                       [] log[i].status = "failed" -> "failed"   [] OTHER -> "ok"
    <3>3. pc \in {"conflict", "pending", "failed", "ok"} OBVIOUS
    <3>4. pay' = [pay EXCEPT ![p].id = i, ![p].pc = pc] BY <3>1, <3>2
    <3> HIDE DEF pc
    <3> QED BY <3>3, <3>4
  <2>2. PICK y \in PayRec : y = [pay[p] EXCEPT !.id = i, !.pc = pc] /\ y.pc = pc
    <3> DEFINE y == [pay[p] EXCEPT !.id = i, !.pc = pc]
    <3>1. y \in PayRec /\ y.pc = pc BY <1>1 DEF PayRec
    <3>2. y = [pay[p] EXCEPT !.id = i, !.pc = pc] OBVIOUS
    <3> HIDE DEF y
    <3> QED BY <3>1, <3>2
  <2>3. pay' = [pay EXCEPT ![p] = y] BY <1>1, <2>1, <2>2
  <2> QED BY <1>1, <1>2, <1>3, <2>1, <2>2, <2>3, PayerEnds
<1>4. CASE ~UNCHANGED log
  <2>1. PICK i \in Ids : /\ i \in Directs /\ log[i].status = "absent"
                         /\ log' = [log EXCEPT ![i].status = "pending"]
                         /\ pay' = [pay EXCEPT ![p].pc = "send", ![p].id = i]
    BY <1>4 DEF PayClaim
  <2>2. PICK y \in PayRec : /\ y = [pay[p] EXCEPT !.pc = "send", !.id = i]
                            /\ y.pc = "send" /\ y.id = i
    <3> DEFINE y == [pay[p] EXCEPT !.pc = "send", !.id = i]
    <3>1. y \in PayRec /\ y.pc = "send" /\ y.id = i BY <1>1 DEF PayRec
    <3>2. y = [pay[p] EXCEPT !.pc = "send", !.id = i] OBVIOUS
    <3> HIDE DEF y
    <3> QED BY <3>1, <3>2
  <2>3. pay' = [pay EXCEPT ![p] = y] BY <1>1, <2>1, <2>2
  <2>4. /\ pay' \in [Payers -> PayRec] /\ pay'[p] = y
        /\ \A q \in Payers \ {p} : pay'[q] = pay[q]
    BY <1>1, <2>3
  <2>5. log'[i].status = "pending" /\ log'[i] \in LogRec
        /\ \A k \in Ids \ {i} : log'[k] = log[k]
    <3>1. log'[i] = [log[i] EXCEPT !.status = "pending"] BY <1>1, <2>1
    <3>2. log[i] \in LogRec BY <1>1
    <3> QED BY <1>1, <2>1, <3>1, <3>2 DEF LogRec, LogStatus
  <2>6. log' \in [Ids -> LogRec] BY <1>1, <2>1, <2>5
  <2>7. TypeOK' BY <1>2, <2>4, <2>6 DEF Inv, TypeOK, PayRec, LogRec
  <2>8. RowInv' /\ NoRebroadcast' /\ \A w \in Workers : Carries(wk[w])'
    <3>1. ASSUME NEW w \in Workers PROVE Carries(wk[w])'
      <4>1. Carries(wk[w]) BY DEF Inv
      <4> QED BY <4>1, <1>2 DEF Carries, Anchor
    <3> QED BY <1>2, <3>1 DEF Inv, RowInv, NoRebroadcast, Anchor
  <2>9. SenderInv' BY <1>2 DEF Inv, SenderInv, Told, Taken, AutoRetryable
  <2>10. \A k \in Ids : log[k].status # "absent" => log'[k].status # "absent"
    BY <2>5
  <2>11. LogInv'
    <3>1. \A d \in Directs : d \in Ids BY DEF Ids
    <3> QED BY <1>2, <2>5, <2>10, <3>1 DEF Inv, LogInv
  <2>12. PayInv'
    <3>1. \A q \in Payers : pay[q].id \in Ids BY <1>1 DEF PayRec
    <3>2. \A q \in Payers : pay[q].pc = "send" => pay[q].id # i
      BY <2>1 DEF Inv, PayInv
    <3>3. \A j \in DOMAIN chain : chain[j].items # {i}
      BY <2>1 DEF Inv, LogInv
    <3>4. \A q \in Payers : pay'[q].pc = "send" =>
            /\ pay'[q].id \in Directs /\ log'[pay'[q].id].status # "absent"
            /\ \A j \in DOMAIN chain : chain[j].items # {pay'[q].id}
      <4> SUFFICES ASSUME NEW q \in Payers, pay'[q].pc = "send"
                   PROVE  /\ pay'[q].id \in Directs /\ log'[pay'[q].id].status # "absent"
                          /\ \A j \in DOMAIN chain : chain[j].items # {pay'[q].id}
        OBVIOUS
      <4>1. CASE q = p BY <4>1, <2>1, <2>2, <2>4, <2>5, <3>3
      <4>2. CASE q # p
        <5>1. pay'[q] = pay[q] /\ pay[q].id \in Ids BY <4>2, <2>4, <3>1
        <5> QED BY <5>1, <2>10 DEF Inv, PayInv
      <4> QED BY <4>1, <4>2
    <3>5. \A q, r \in Payers : pay'[q].pc = "send" /\ pay'[r].pc = "send"
                               /\ pay'[q].id = pay'[r].id => q = r
      <4> SUFFICES ASSUME NEW q \in Payers, NEW r \in Payers, pay'[q].pc = "send",
                          pay'[r].pc = "send", pay'[q].id = pay'[r].id, q # r
                   PROVE  FALSE
        OBVIOUS
      <4>1. pay'[p].id = i BY <2>2, <2>4
      <4>2. \A x \in Payers \ {p} : pay'[x].pc = "send" => pay'[x].id # i
        BY <2>4, <3>2
      <4>3. q # p /\ r # p BY <4>1, <4>2
      <4>4. pay'[q] = pay[q] /\ pay'[r] = pay[r] BY <2>4, <4>3
      <4> QED BY <4>4 DEF Inv, PayInv
    <3>6. \A q \in Payers : pay'[q].pc = "confirm" => pay'[q] = pay[q]
      BY <2>2, <2>4
    <3> QED BY <1>2, <3>4, <3>5, <3>6 DEF Inv, PayInv
  <2> QED BY <2>7, <2>8, <2>9, <2>11, <2>12 DEF Inv
<1> QED BY <1>3, <1>4

LEMMA PayRecordKeeps ==
  ASSUME Inv, NEW p \in Payers, PayRecord(p) \/ CrashPayer(p)
  PROVE  Inv'
<1>1. /\ pay \in [Payers -> PayRec] /\ pay[p] \in PayRec /\ log \in [Ids -> LogRec]
  BY DEF Inv, TypeOK, PayRec, LogRec
<1>2. UNCHANGED <<mode, cast, status, row, chain, wk>> BY DEF PayRecord, CrashPayer
<1>3. PICK pc \in {"ok", "failed", "dead"} : pay' = [pay EXCEPT ![p].pc = pc]
  BY DEF PayRecord, CrashPayer
<1>4. PICK y \in PayRec : y = [pay[p] EXCEPT !.pc = pc] /\ y.pc = pc
  <2> DEFINE y == [pay[p] EXCEPT !.pc = pc]
  <2>1. y \in PayRec /\ y.pc = pc BY <1>1 DEF PayRec
  <2>2. y = [pay[p] EXCEPT !.pc = pc] OBVIOUS
  <2> HIDE DEF y
  <2> QED BY <2>1, <2>2
<1>5. pay' = [pay EXCEPT ![p] = y] BY <1>1, <1>3, <1>4
<1>6. CASE CrashPayer(p)
  <2>1. log' = log BY <1>6 DEF CrashPayer
  <2> QED BY <1>1, <1>2, <1>4, <1>5, <2>1, PayerEnds
<1>7. CASE PayRecord(p)
  <2>0. 0 \in Hash /\ pay[p].hash \in Hash /\ pay[p].id \in Ids
    BY <1>1, PaymentAssumption DEF PayRec, Hash
  <2>1. PICK id \in Ids : id = pay[p].id BY <2>0
  <2>2. PICK st \in {"mock", "confirmed", "failed"}, h \in Hash :
          /\ MarkLog({id}, st, h)
          /\ st # "failed" => pay[p].pc = "confirm" /\ h = pay[p].hash
    <3>1. PICK ok \in BOOLEAN :
            /\ ok => pay[p].pc = "confirm"
            /\ MarkLog({id}, IF ok THEN Booked ELSE "failed",
                       IF ~ok /\ pay[p].pc = "confirm" THEN 0 ELSE pay[p].hash)
      BY <1>7, <2>1 DEF PayRecord
    <3>2. CASE ok
      <4>1. MarkLog({id}, Booked, pay[p].hash) BY <3>1, <3>2
      <4>2. PICK st \in {"mock", "confirmed"} : st = Booked BY DEF Booked
      <4> QED BY <2>0, <3>1, <3>2, <4>1, <4>2
    <3>3. CASE ~ok
      <4>1. PICK h \in Hash : MarkLog({id}, "failed", h) BY <2>0, <3>1, <3>3
      <4> QED BY <4>1
    <3> QED BY <3>2, <3>3
  <2>3. st \in {"mock", "confirmed"} =>
          h \in DOMAIN chain /\ chain[h].ok /\ {id} \subseteq chain[h].items
    BY <2>1, <2>2 DEF Inv, PayInv
  <2>4. {id} \in SUBSET Ids /\ st \in LogStatus \ {"absent"} BY DEF LogStatus
  <2>5. /\ log' \in [Ids -> LogRec]
        /\ \A i \in Ids : log'[i] = log[i] \/ Sound(log'[i], i)
    BY <2>2, <2>3, <2>4, MarkedSound
  <2> QED BY <1>2, <1>4, <1>5, <2>5, PayerEnds
<1> QED BY <1>6, <1>7

LEMMA PaySendKeeps ==
  ASSUME Inv, NEW p \in Payers, PaySend(p)
  PROVE  Inv'
<1>1. /\ pay \in [Payers -> PayRec] /\ wk \in [Workers -> WkRec] /\ pay[p] \in PayRec
      /\ log \in [Ids -> LogRec]
  BY DEF Inv, TypeOK, PayRec, WkRec, LogRec
<1>2. UNCHANGED <<mode, cast, status, log, row, wk>> BY DEF PaySend
<1>3. pay[p].pc = "send" /\ pay[p].id \in Directs
      /\ \A i \in DOMAIN chain : chain[i].items # {pay[p].id}
  BY DEF PaySend, Inv, PayInv
<1>4. CASE UNCHANGED chain /\ pay' = [pay EXCEPT ![p].pc = "fail"]
  <2>1. PICK y \in PayRec : y = [pay[p] EXCEPT !.pc = "fail"] /\ y.pc = "fail"
    <3> DEFINE y == [pay[p] EXCEPT !.pc = "fail"]
    <3>1. y \in PayRec /\ y.pc = "fail" BY <1>1 DEF PayRec
    <3>2. y = [pay[p] EXCEPT !.pc = "fail"] OBVIOUS
    <3> HIDE DEF y
    <3> QED BY <3>1, <3>2
  <2>2. pay' = [pay EXCEPT ![p] = y] BY <1>1, <1>4, <2>1
  <2> QED BY <1>1, <1>2, <1>4, <2>1, <2>2, PayerEnds
<1>5. CASE ~(UNCHANGED chain /\ pay' = [pay EXCEPT ![p].pc = "fail"])
  <2>0. Len(chain) < MaxSends BY <1>5 DEF PaySend
  <2>1. PICK ok \in BOOLEAN, told \in BOOLEAN, pc \in {"confirm", "fail"}, h \in Hash :
          /\ Sent({pay[p].id}, ok, told)
          /\ pay' = [pay EXCEPT ![p].pc = pc, ![p].hash = h]
          /\ pc = "confirm" => ok /\ h = Len(chain) + 1
    <3>1. Len(chain) + 1 \in Hash
      <4>1. chain \in Seq(TxRec) BY DEF Inv, TypeOK, TxRec
      <4> QED BY <2>0, <4>1, PaymentAssumption DEF PaymentAssumption, Hash
    <3>2. CASE /\ Sent({pay[p].id}, TRUE, TRUE)
               /\ pay' = [pay EXCEPT ![p].pc = "confirm", ![p].hash = Len(chain) + 1]
      BY <3>1, <3>2
    <3>3. CASE /\ \E ok \in BOOLEAN : Sent({pay[p].id}, ok, TRUE)
               /\ pay' = [pay EXCEPT ![p].pc = "fail", ![p].hash = Len(chain) + 1]
      BY <3>1, <3>3
    <3>4. CASE /\ Sent({pay[p].id}, TRUE, FALSE)
               /\ pay' = [pay EXCEPT ![p].pc = "fail"]
      <4>1. pay' = [pay EXCEPT ![p].pc = "fail", ![p].hash = pay[p].hash]
        BY <3>4, <1>1 DEF PayRec
      <4>2. pay[p].hash \in Hash BY <1>1 DEF PayRec
      <4> QED BY <3>4, <4>1, <4>2
    <3> QED BY <1>5, <3>2, <3>3, <3>4 DEF PaySend
  <2>2. PICK id \in Directs : id = pay[p].id BY <1>3
  <2>3. PICK y \in PayRec : /\ y = [pay[p] EXCEPT !.pc = pc, !.hash = h]
                            /\ y.pc = pc /\ y.hash = h /\ y.id = id
    <3>0. PICK z \in PayRec : z = pay[p] /\ z.id = id BY <1>1, <2>2
    <3> DEFINE y == [z EXCEPT !.pc = pc, !.hash = h]
    <3>1. y \in PayRec /\ y.pc = pc /\ y.hash = h /\ y.id = id BY <3>0 DEF PayRec
    <3>2. y = [pay[p] EXCEPT !.pc = pc, !.hash = h] BY <3>0
    <3> HIDE DEF y
    <3> QED BY <3>1, <3>2
  <2>4. pay' = [pay EXCEPT ![p] = y] BY <1>1, <2>1, <2>3
  <2>5. {id} \in SUBSET Ids BY DEF Ids
  <2> DEFINE n == Len(chain) + 1
  <2>6. /\ chain' \in Seq(TxRec) /\ Len(chain') <= MaxSends
        /\ n \in Hash /\ n # 0 /\ n \notin DOMAIN chain
        /\ DOMAIN chain' = DOMAIN chain \cup {n}
        /\ \A i \in DOMAIN chain : chain'[i] = chain[i]
        /\ chain'[n] = [items |-> {id}, ok |-> ok, told |-> told]
        /\ \A i \in DOMAIN chain : i < n
        /\ \A g, is : Anchor(g, is) => Anchor(g, is)'
    BY <2>0, <2>1, <2>2, <2>5, ChainGrows, PaymentAssumption DEF Inv
  <2>7. DOMAIN chain \subseteq Nat /\ n \in Nat
    <3>1. chain \in Seq(TxRec) BY DEF Inv, TypeOK, TxRec
    <3> QED BY <3>1
  <2>8. pc = "confirm" => h = n BY <2>1
  <2> HIDE DEF n
  <2>9. /\ pay' \in [Payers -> PayRec] /\ pay'[p] = y
        /\ \A q \in Payers \ {p} : pay'[q] = pay[q]
    BY <1>1, <2>4
  <2>10. TypeOK' BY <1>2, <2>6, <2>9 DEF Inv, TypeOK, PayRec, TxRec
  <2>11. RowInv' /\ \A w \in Workers : Carries(wk[w])'
    <3>1. ASSUME NEW w \in Workers
          PROVE  RowInv' /\ \A u \in Workers \ {w} : Carries(wk[u])'
      <4>1. PICK x \in WkRec : x = wk[w] BY <1>1
      <4>2. wk' = [wk EXCEPT ![w] = x] BY <1>1, <1>2, <4>1
      <4> QED BY <1>2, <2>6, <4>2, OthersCarry
    <3>2. RowInv'
      <4>1. row.status = "confirmed" => Anchor(row.hash, row.ids)'
        <5>1. row.status = "confirmed" => Anchor(row.hash, row.ids) BY DEF Inv, RowInv
        <5> QED BY <5>1, <2>6, <1>2 DEF Anchor
      <4>2. row.status = "broadcasting" /\ row.hash # 0 => Anchor(row.hash, row.ids)'
        <5>1. row.status = "broadcasting" /\ row.hash # 0 => Anchor(row.hash, row.ids)
          BY DEF Inv, RowInv
        <5> QED BY <5>1, <2>6, <1>2 DEF Anchor
      <4> QED BY <1>2, <4>1, <4>2 DEF RowInv
    <3>3. ASSUME NEW u \in Workers PROVE Carries(wk[u])'
      <4>1. PICK x \in WkRec : x = wk[u] BY <1>1
      <4>2. PICK is \in SUBSET Intents : is = row.ids BY DEF Inv, TypeOK, Row
      <4>3. Carries(x) BY <4>1 DEF Inv
      <4>4. Carries(x)' BY <1>2, <2>6, <4>2, <4>3 DEF Carries
      <4> QED BY <1>2, <4>1, <4>4
    <3> QED BY <3>2, <3>3
  <2>12. ~({id} \subseteq Intents) BY DirectsApart
  <2>13. SenderInv'
    <3>1. Taken' = Taken BY <1>2 DEF Taken, AutoRetryable
    <3>2. Told' => Told BY <2>6, <2>12 DEF Told
    <3> QED BY <1>2, <3>1, <3>2 DEF Inv, SenderInv
  <2>14. log[id].status # "absent" BY <1>3, <2>2 DEF Inv, PayInv
  <2>15. LogInv'
    <3>1. \A d \in Directs : chain'[n].items = {d} => d = id BY <2>6
    <3> QED BY <1>2, <2>6, <2>14, <3>1 DEF Inv, LogInv
  <2>16. PayInv'
    <3>1. \A q \in Payers : pay'[q].pc = "send" => q # p /\ pay'[q] = pay[q]
      BY <2>3, <2>9
    <3>2. \A q \in Payers : pay'[q].pc = "send" => pay'[q].id # id
      BY <1>3, <2>2, <3>1 DEF Inv, PayInv
    <3>3. ASSUME NEW q \in Payers, pay'[q].pc = "send"
          PROVE  /\ pay'[q].id \in Directs /\ log'[pay'[q].id].status # "absent"
                 /\ \A i \in DOMAIN chain' : chain'[i].items # {pay'[q].id}
      <4>1. pay'[q] = pay[q] /\ pay[q].pc = "send" BY <3>1, <3>3
      <4>2. \A i \in DOMAIN chain : chain[i].items # {pay[q].id}
        BY <4>1 DEF Inv, PayInv
      <4>3. chain'[n].items # {pay'[q].id} BY <2>6, <3>2, <3>3
      <4> QED BY <1>2, <2>6, <4>1, <4>2, <4>3 DEF Inv, PayInv
    <3>4. ASSUME NEW q \in Payers, pay'[q].pc = "confirm"
          PROVE  /\ pay'[q].hash \in DOMAIN chain'
                 /\ chain'[pay'[q].hash].ok /\ chain'[pay'[q].hash].items = {pay'[q].id}
      <4>1. CASE q = p
        <5>1. y.pc = "confirm" /\ pay'[q] = y BY <4>1, <3>4, <2>9
        <5>2. pc = "confirm" BY <5>1, <2>3
        <5>3. ok = TRUE /\ h = n BY <5>2, <2>1, <2>8
        <5>4. pay'[q].hash = n /\ pay'[q].id = id BY <5>1, <5>3, <2>3
        <5>5. n \in DOMAIN chain' /\ chain'[n].ok /\ chain'[n].items = {id}
          BY <5>3, <2>6
        <5> QED BY <5>4, <5>5
      <4>2. CASE q # p BY <4>2, <3>4, <2>6, <2>9 DEF Inv, PayInv
      <4> QED BY <4>1, <4>2
    <3>5. \A q, r \in Payers : pay'[q].pc = "send" /\ pay'[r].pc = "send"
                               /\ pay'[q].id = pay'[r].id => q = r
      BY <3>1 DEF Inv, PayInv
    <3> QED BY <3>3, <3>4, <3>5 DEF PayInv
  <2>17. NoRebroadcast'
    <3> SUFFICES ASSUME NEW i \in DOMAIN chain', NEW j \in DOMAIN chain', i < j
                 PROVE  /\ chain'[i].told /\ chain'[i].items \subseteq Intents =>
                             ~(chain'[j].items \subseteq Intents)
                        /\ ~(\E d \in Directs : chain'[i].items = {d} /\ chain'[j].items = {d})
      BY DEF NoRebroadcast
    <3>1. i \in DOMAIN chain BY <2>6, <2>7
    <3>2. CASE j \in DOMAIN chain BY <2>6, <3>1, <3>2 DEF Inv, NoRebroadcast
    <3>3. CASE j = n
      <4>1. chain'[j].items = {id} BY <2>6, <3>3
      <4>2. chain'[i].items # {id} BY <1>3, <2>2, <2>6, <3>1
      <4> QED BY <2>12, <4>1, <4>2
    <3> QED BY <2>6, <3>2, <3>3
  <2> QED BY <2>10, <2>11, <2>13, <2>15, <2>16, <2>17 DEF Inv
<1> QED BY <1>4, <1>5

--------------------------------------------------------------------------------
(* The theorems.                                                                   *)

LEMMA InvInit ==
  ASSUME Init, \E i \in Ids : TRUE
  PROVE  Inv
<1>1. 0 \in Hash BY PaymentAssumption DEF PaymentAssumption, Hash
<1>2. chain = <<>> /\ Len(chain) = 0 /\ DOMAIN chain = 1 .. 0 /\ MaxSends >= 0
  BY PaymentAssumption DEF Init, PaymentAssumption
<1>3. \A w \in Workers : wk[w].pc = "idle" /\ wk[w] \in WkRec
  BY IdleIsFine DEF Init
<1>4. \A p \in Payers : pay[p].pc = "idle" /\ pay[p] \in PayRec
  BY <1>1 DEF Init, PayRec
<1>5. TypeOK
  <2>1. wk \in [Workers -> WkRec] /\ pay \in [Payers -> PayRec] BY <1>3, <1>4 DEF Init
  <2>2. log \in [Ids -> LogRec] BY <1>1 DEF Init, LogRec, LogStatus
  <2>3. row \in Row BY IdleIsFine DEF Init
  <2>4. chain \in Seq(TxRec) BY <1>2
  <2> QED BY <1>2, <2>1, <2>2, <2>3, <2>4 DEF Init, TypeOK, WkRec, PayRec, LogRec, TxRec
<1>6. RowInv /\ ~Told BY <1>2 DEF Init, RowInv, NoRow, Told
<1>7. SenderInv BY <1>3, <1>6 DEF SenderInv, SendPcs
<1>8. LogInv /\ PayInv /\ NoRebroadcast
  BY <1>2, <1>4 DEF Init, LogInv, PayInv, NoRebroadcast
<1>9. \A w \in Workers : Carries(wk[w]) BY <1>3 DEF Carries, SendPcs
<1> QED BY <1>5, <1>6, <1>7, <1>8, <1>9 DEF Inv

LEMMA InvStep ==
  ASSUME Inv, [Next]_vars
  PROVE  Inv'
<1>0. Agents \subseteq Workers /\ Retriers \subseteq Workers BY DEF Workers
<1>1. CASE \E a \in Agents : Agent(a)
  <2>1. PICK a \in Agents : Agent(a) BY <1>1
  <2>2. a \in Workers BY <1>0
  <2>3. CASE AgentStarts(a) \/ AgentEnds(a) \/ ListPending(a) BY <2>3, AgentMoves
  <2>4. CASE Intend(a) BY <2>4, IntendKeeps
  <2>5. CASE ClaimInsert(a) BY <2>2, <2>5, Claims, ClaimReads
  <2>6. CASE ClaimFind(a) \/ Existing(a) BY <2>2, <2>6, ClaimReads
  <2>7. CASE ClaimUpdate(a) BY <2>2, <2>7, Claims, ClaimReads
  <2> QED BY <2>1, <2>3, <2>4, <2>5, <2>6, <2>7 DEF Agent
<1>2. CASE \E w \in Workers : Settle(w)
  <2>1. PICK w \in Workers : Settle(w) BY <1>2
  <2>2. CASE Send(w) BY <2>2, SendKeeps
  <2>3. CASE FailRow(w) \/ NeedsManual(w) BY <2>3, WritesFailed
  <2>4. CASE MarkFailed(w) \/ MarkConfirmed(w) BY <2>4, MarksKeep
  <2>5. CASE RecordReceipt(w) \/ ConfirmRow(w) BY <2>5, WritesReceipt
  <2>6. CASE Persisted(w) \/ Reconcile(w) BY <2>6, RowReads
  <2>7. CASE Crash(w) BY <2>7, PassReads
  <2> QED BY <2>1, <2>2, <2>3, <2>4, <2>5, <2>6, <2>7 DEF Settle
<1>3. CASE \E w \in Retriers : Retry(w)
  <2>1. PICK w \in Retriers : Retry(w) BY <1>3
  <2>2. w \in Workers BY <1>0
  <2>3. CASE RetryList(w) \/ RetryFind(w) \/ Sweep(w) \/ RetryAgain(w)
    BY <2>2, <2>3, PassReads
  <2>4. CASE RetryClaim(w) BY <2>2, <2>4, PassReads, TakesOver
  <2> QED BY <2>1, <2>3, <2>4 DEF Retry
<1>4. CASE \E p \in Payers : Pay(p)
  <2>1. PICK p \in Payers : Pay(p) BY <1>4
  <2> QED BY <2>1, PayClaimKeeps, PaySendKeeps, PayRecordKeeps DEF Pay
<1>5. CASE CancelRoute \/ UNCHANGED vars
  <2>1. /\ UNCHANGED <<mode, cast, log, row, chain, wk, pay>>
        /\ status' \in {"running", "completed", "failed", "cancelled"}
    BY <1>5 DEF CancelRoute, vars, Inv, TypeOK
  <2>2. TypeOK' BY <2>1 DEF Inv, TypeOK
  <2>3. RowInv' /\ LogInv' /\ PayInv' /\ NoRebroadcast'
    BY <2>1 DEF Inv, RowInv, LogInv, PayInv, NoRebroadcast, Anchor
  <2>4. SenderInv' BY <2>1 DEF Inv, SenderInv, Told, Taken, AutoRetryable
  <2>5. ASSUME NEW w \in Workers PROVE Carries(wk[w])'
    <3>1. Carries(wk[w]) BY DEF Inv
    <3> QED BY <2>1, <3>1 DEF Carries, Anchor
  <2> QED BY <2>2, <2>3, <2>4, <2>5 DEF Inv
<1> QED BY <1>1, <1>2, <1>3, <1>4, <1>5 DEF Next

\* Every reachable state of the payments of a research is well typed, for any
\* agents, passes, paid calls and number of transactions.
THEOREM PaymentsTypeCorrect ==
  ASSUME \E i \in Ids : TRUE
  PROVE  Spec => []TypeOK
<1>1. Init => Inv BY InvInit
<1>2. Inv /\ [Next]_vars => Inv' BY InvStep
<1>3. Inv => TypeOK BY DEF Inv
<1> QED BY <1>1, <1>2, <1>3, PTL DEF Spec

\* What is booked was paid: an entry and the settlement row name a transaction that
\* succeeded and that lists them, whoever wrote the row in between (confirmSettlement
\* and markSettlementNeedsManualRecovery of payment-settlement.ts look at no status).
THEOREM BooksAreBacked ==
  ASSUME \E i \in Ids : TRUE
  PROVE  Spec => []BooksMatchChain
<1>1. Init => Inv BY InvInit
<1>2. Inv /\ [Next]_vars => Inv' BY InvStep
<1>3. ASSUME Inv PROVE BooksMatchChain
  <2>1. chain \in Seq(TxRec) BY <1>3 DEF Inv, TypeOK, TxRec
  <2>2. 0 \notin DOMAIN chain BY <2>1
  <2> QED BY <1>3, <2>2 DEF Inv, LogInv, RowInv, Anchor, BooksMatchChain
<1> QED BY <1>1, <1>2, <1>3, PTL DEF Spec

\* AnchoredOnce: no research is anchored again once somebody knows its transaction, no
\* entry of a paid call is anchored twice, and the anchors of a research do not race:
\* whatever pass takes over, crashes or loses the answer of the chain, at most one
\* worker is between its claim and its receipt (claimSettlement and
\* broadcastPaymentSettlement of payment-settlement.ts).
THEOREM NothingIsRepeated ==
  ASSUME \E i \in Ids : TRUE
  PROVE  Spec => []AnchoredOnce
<1>1. Init => Inv BY InvInit
<1>2. Inv /\ [Next]_vars => Inv' BY InvStep
<1>3. ASSUME Inv PROVE AnchoredOnce
  <2>1. \A w, u \in Sending : w = u BY <1>3 DEF Inv, SenderInv, Sending, SendPcs
  <2>2. CASE Sending = {}
    <3>1. Cardinality(Sending) = 0 BY <2>2, FS_EmptySet
    <3> QED BY <1>3, <3>1 DEF Inv, AnchoredOnce, OneSender
  <2>3. CASE Sending # {}
    <3>1. PICK w \in Sending : TRUE BY <2>3
    <3>2. Sending = {w} BY <2>1, <3>1
    <3>3. Cardinality(Sending) = 1 BY <3>2, FS_Singleton
    <3> QED BY <1>3, <3>3 DEF Inv, AnchoredOnce, OneSender
  <2> QED BY <2>2, <2>3
<1> QED BY <1>1, <1>2, <1>3, PTL DEF Spec

--------------------------------------------------------------------------------
(* The settlement of a lone agent. It finds no row when it claims, so what it lists *)
(* as pending becomes the row's entries, and the passes that take the row over      *)
(* write those entries and no others.                                               *)

Lone(a) == \A b \in Agents \ {a} : wk[b].pc = "idle"

Early == {"idle", "run", "list", "claim"}
\* Where a worker holds nothing of a settlement, and where it holds its entries.
Harmless == Early \cup {"sweep", "done", "lost", "dead"}
Settling == {"send", "fail", "markFailed", "receipt", "confirm", "mark", "persisted"}
LonePcs  == Harmless \cup (Settling \ {"persisted"})

\* Every entry of an agent that was made belongs to the row, once there is one.
EntriesOk ==
  /\ row.status = "absent" => \A i \in Intents : log[i].status \in {"absent", "pending"}
  /\ row.status # "absent" => \A i \in Intents : log[i].status # "absent" => i \in row.ids

LoneInv(a) ==
  /\ EntriesOk
  /\ wk[a].pc \in LonePcs
  /\ wk[a].pc \in Early => row.status = "absent"
  /\ wk[a].pc = "claim" => wk[a].ids = Pending
  /\ wk[a].pc = "done" => Pending = {}
  /\ \A w \in Workers : wk[w].pc \notin Harmless => row.status # "absent"
  /\ \A w \in Workers : wk[w].pc \in Settling => wk[w].ids = row.ids

PaidCalls ==
  \A p \in Payers : pay[p].pc \in {"send", "confirm", "fail"} => pay[p].id \in Directs

LoneOk == PaidCalls /\ \A a \in Agents : Lone(a) => LoneInv(a)

Others(w) ==
  \A u \in Workers \ {w} : wk'[u].pc = wk[u].pc /\ wk'[u].ids = wk[u].ids

\* A step of w while there is a row: it keeps the row's entries, and writes them in
\* tx_log or nothing.
LEMMA RowStays ==
  ASSUME NEW a \in Agents, LoneInv(a), NEW w \in Workers, Others(w), a \in Workers,
         row.status # "absent", row'.status # "absent", row'.ids = row.ids,
         wk'[w].pc \in Settling => wk'[w].ids = row.ids,
         \A i \in Intents : \/ log'[i] = log[i]
                            \/ i \in row.ids /\ log'[i].status \notin {"absent", "pending"},
         w = a => /\ wk'[a].pc \in LonePcs \ Early
                  /\ wk'[a].pc = "done" => Pending' = {}
  PROVE  LoneInv(a)'
<1>1. EntriesOk' BY DEF LoneInv, EntriesOk
<1>2. Pending' \subseteq Pending BY DEF Pending
<1>3. /\ wk'[a].pc \in LonePcs \ Early
      /\ wk'[a].pc = "done" => Pending' = {}
  BY <1>2 DEF LoneInv, Others
<1>4. \A u \in Workers : wk'[u].pc \in Settling => wk'[u].ids = row'.ids
  BY DEF LoneInv, Others
<1> QED BY <1>1, <1>3, <1>4 DEF LoneInv, Early

\* A step of w while there is none, which makes none and moves no entry.
LEMMA NoRowStays ==
  ASSUME NEW a \in Agents, LoneInv(a), NEW w \in Workers, Others(w), a \in Workers,
         row.status = "absent", row' = row, wk'[w].pc \in Harmless,
         \A i \in Intents : log'[i] = log[i],
         w = a => /\ wk'[a].pc = "claim" => wk'[a].ids = Pending
                  /\ wk'[a].pc = "done" => Pending = {}
  PROVE  LoneInv(a)'
<1>1. EntriesOk' BY DEF LoneInv, EntriesOk
<1>2. Pending' = Pending BY DEF Pending
<1>3. \A u \in Workers : wk'[u].pc \in Harmless
  BY DEF LoneInv, Others
<1>4. \A u \in Workers : wk'[u].pc \notin Settling BY <1>3 DEF Harmless, Settling, Early
<1>5. /\ wk'[a].pc = "claim" => wk'[a].ids = Pending
      /\ wk'[a].pc = "done" => Pending = {}
  BY DEF LoneInv, Others
<1> QED BY <1>1, <1>2, <1>3, <1>4, <1>5 DEF LoneInv, LonePcs

\* A worker that goes to pc with the entries it has, or drops everything.
LEMMA Moved ==
  ASSUME Inv, NEW w \in Workers, NEW x, wk' = [wk EXCEPT ![w] = x]
  PROVE  Others(w) /\ wk'[w] = x
<1>1. wk \in [Workers -> WkRec] BY DEF Inv, TypeOK, WkRec
<1> QED BY <1>1 DEF Others

LEMMA Updated ==
  ASSUME Inv, NEW w \in Workers, NEW r, NEW x \in WkRec, Update(w, r, x)
  PROVE  Others(w) /\ wk'[w].pc = x.pc /\ wk'[w].ids = x.ids /\ row' = r
<1>1. wk \in [Workers -> WkRec] BY DEF Inv, TypeOK, WkRec
<1>2. \A y \in WkRec : [y EXCEPT !.old = FALSE].pc = y.pc /\ [y EXCEPT !.old = FALSE].ids = y.ids
  BY DEF WkRec
<1> QED BY <1>1, <1>2 DEF Update, Others

LEMMA Resting ==
  ASSUME NEW pc
  PROVE  [Idle EXCEPT !.pc = pc].pc = pc
BY DEF Idle

\* The steps of a settlement, of the agent or of a pass.
LEMMA SettleLone ==
  ASSUME Inv, NEW a \in Agents, LoneInv(a), NEW w \in Workers, Settle(w)
  PROVE  LoneInv(a)'
<1>1. /\ wk \in [Workers -> WkRec] /\ wk[w] \in WkRec /\ row \in Row /\ a \in Workers
      /\ wk[a].pc \in LonePcs /\ log \in [Ids -> [status : LogStatus, hash : Hash]]
      /\ Intents \subseteq Ids
  BY DEF Inv, TypeOK, WkRec, Workers, LoneInv, Ids
<1>2. /\ wk[w].pc \notin Harmless => row.status # "absent"
      /\ wk[w].pc \in Settling => wk[w].ids = row.ids
  BY DEF LoneInv
<1>3. After(w) \in {"done", "sweep"} BY DEF After
\* The entries are marked, and the worker is done with them.
<1>4. ASSUME NEW st \in {"mock", "confirmed", "failed"}, NEW h,
             MarkLog(wk[w].ids, st, h), wk[w].pc \in {"mark", "markFailed"},
             wk' = [wk EXCEPT ![w] = [Idle EXCEPT !.pc = After(w)]], row' = row
      PROVE  LoneInv(a)'
  <2>1. Others(w) /\ wk'[w].pc = After(w) BY <1>4, Moved, Resting
  <2>2. row.status # "absent" /\ wk[w].ids = row.ids
    BY <1>2, <1>4 DEF Harmless, Settling, Early
  <2>3. \A i \in Intents : IF i \in row.ids THEN log'[i].status = st ELSE log'[i] = log[i]
    BY <1>1, <1>4, <2>2 DEF MarkLog
  <2>4. Pending' = {}
    BY <2>2, <2>3 DEF Pending, LoneInv, EntriesOk
  <2>5. wk'[w].pc \in LonePcs \ Early /\ wk'[w].pc \notin Settling
    BY <1>3, <2>1 DEF LonePcs, Harmless, Early, Settling
  <2>6. \A i \in Intents : \/ log'[i] = log[i]
                           \/ i \in row.ids /\ log'[i].status \notin {"absent", "pending"}
    BY <2>3
  <2> QED BY <1>1, <1>4, <2>1, <2>2, <2>4, <2>5, <2>6, RowStays
\* The row is written, or only the worker moves on; the entries stay.
<1>5. ASSUME NEW pc, Others(w), wk'[w].pc = pc, row.status # "absent",
             row'.status # "absent", row'.ids = row.ids, log' = log,
             pc \in Settling => wk'[w].ids = row.ids,
             w = a => pc \in LonePcs \ Early /\ pc # "done"
      PROVE  LoneInv(a)'
  BY <1>1, <1>5, RowStays
<1>6. CASE Send(w)
  <2>1. PICK pc \in {"receipt", "fail"} : \E h :
          wk' = [wk EXCEPT ![w].pc = pc, ![w].hash = h]
    <3>1. CASE wk' = [wk EXCEPT ![w].pc = "fail"]
      <4>1. wk' = [wk EXCEPT ![w].pc = "fail", ![w].hash = wk[w].hash]
        BY <1>1, <3>1 DEF WkRec
      <4> QED BY <4>1
    <3> QED BY <1>6, <3>1 DEF Send, Goto
  <2>2. Others(w) /\ wk'[w].pc = pc /\ wk'[w].ids = wk[w].ids
    BY <1>1, <2>1 DEF WkRec, Others
  <2>3. row' = row /\ log' = log /\ wk[w].pc = "send" BY <1>6 DEF Send
  <2> QED BY <1>2, <1>5, <2>2, <2>3 DEF Harmless, Settling, Early, LonePcs
<1>7. CASE FailRow(w)
  <2>1. /\ wk[w].pc = "fail" /\ log' = log
        /\ Update(w, [row EXCEPT !.status = "failed", !.hash = wk[w].hash, !.manual = FALSE],
                  [wk[w] EXCEPT !.pc = "markFailed"])
    BY <1>7 DEF FailRow
  <2>2. /\ [wk[w] EXCEPT !.pc = "markFailed"] \in WkRec
        /\ [wk[w] EXCEPT !.pc = "markFailed"].pc = "markFailed"
        /\ [wk[w] EXCEPT !.pc = "markFailed"].ids = wk[w].ids
    BY <1>1 DEF WkRec, Steps
  <2>3. /\ Others(w) /\ wk'[w].pc = "markFailed" /\ wk'[w].ids = wk[w].ids
        /\ row' = [row EXCEPT !.status = "failed", !.hash = wk[w].hash, !.manual = FALSE]
    BY <2>1, <2>2, Updated
  <2>4. row'.status # "absent" /\ row'.ids = row.ids BY <1>1, <2>3 DEF Row
  <2> QED BY <1>2, <1>5, <2>1, <2>3, <2>4 DEF Harmless, Settling, Early, LonePcs
<1>8. CASE MarkFailed(w) BY <1>4, <1>8 DEF MarkFailed
<1>9. CASE RecordReceipt(w)
  <2>1. /\ wk[w].pc = "receipt" /\ log' = log
        /\ Update(w, [row EXCEPT !.hash = wk[w].hash, !.manual = FALSE],
                  [wk[w] EXCEPT !.pc = "confirm"])
    BY <1>9 DEF RecordReceipt
  <2>2. /\ [wk[w] EXCEPT !.pc = "confirm"] \in WkRec
        /\ [wk[w] EXCEPT !.pc = "confirm"].pc = "confirm"
        /\ [wk[w] EXCEPT !.pc = "confirm"].ids = wk[w].ids
    BY <1>1 DEF WkRec, Steps
  <2>3. /\ Others(w) /\ wk'[w].pc = "confirm" /\ wk'[w].ids = wk[w].ids
        /\ row' = [row EXCEPT !.hash = wk[w].hash, !.manual = FALSE]
    BY <2>1, <2>2, Updated
  <2>4. row'.status = row.status /\ row'.ids = row.ids BY <1>1, <2>3 DEF Row
  <2> QED BY <1>2, <1>5, <2>1, <2>3, <2>4 DEF Harmless, Settling, Early, LonePcs
<1>10. CASE ConfirmRow(w)
  <2>1. /\ wk[w].pc = "confirm" /\ log' = log
        /\ Update(w, [row EXCEPT !.status = "confirmed", !.hash = wk[w].hash,
                                 !.manual = FALSE],
                  [wk[w] EXCEPT !.pc = "mark"])
    BY <1>10 DEF ConfirmRow
  <2>2. /\ [wk[w] EXCEPT !.pc = "mark"] \in WkRec /\ [wk[w] EXCEPT !.pc = "mark"].pc = "mark"
        /\ [wk[w] EXCEPT !.pc = "mark"].ids = wk[w].ids
    BY <1>1 DEF WkRec, Steps
  <2>3. /\ Others(w) /\ wk'[w].pc = "mark" /\ wk'[w].ids = wk[w].ids
        /\ row' = [row EXCEPT !.status = "confirmed", !.hash = wk[w].hash, !.manual = FALSE]
    BY <2>1, <2>2, Updated
  <2>4. row'.status # "absent" /\ row'.ids = row.ids BY <1>1, <2>3 DEF Row
  <2> QED BY <1>2, <1>5, <2>1, <2>3, <2>4 DEF Harmless, Settling, Early, LonePcs
<1>11. CASE MarkConfirmed(w) BY <1>4, <1>11 DEF MarkConfirmed, Booked
\* A lone agent does not come to the next three.
<1>12. CASE Persisted(w)
  <2>1. PICK pc \in {"manual", "confirm"} : \E h :
          wk' = [wk EXCEPT ![w].pc = pc, ![w].hash = h]
    <3>1. CASE wk' = [wk EXCEPT ![w].pc = "manual"]
      <4>1. wk' = [wk EXCEPT ![w].pc = "manual", ![w].hash = wk[w].hash]
        BY <1>1, <3>1 DEF WkRec
      <4> QED BY <4>1
    <3> QED BY <1>12, <3>1 DEF Persisted, Goto
  <2>2. Others(w) /\ wk'[w].pc = pc /\ wk'[w].ids = wk[w].ids
    BY <1>1, <2>1 DEF WkRec, Others
  <2>3. row' = row /\ log' = log /\ wk[w].pc = "persisted" BY <1>12 DEF Persisted
  <2>4. w # a BY <1>1, <2>3 DEF LonePcs, Harmless, Early, Settling
  <2> QED BY <1>2, <1>5, <2>2, <2>3, <2>4 DEF Harmless, Settling, Early
<1>13. CASE NeedsManual(w)
  <2>1. /\ wk[w].pc = "manual" /\ log' = log
        /\ Update(w, [row EXCEPT !.status = "failed", !.hash = wk[w].seen.hash,
                                 !.manual = TRUE],
                  [Idle EXCEPT !.pc = After(w)])
    BY <1>13 DEF NeedsManual
  <2>2. [Idle EXCEPT !.pc = After(w)] \in WkRec BY <1>3, IdleIsFine
  <2>3. /\ Others(w) /\ wk'[w].pc = After(w)
        /\ row' = [row EXCEPT !.status = "failed", !.hash = wk[w].seen.hash, !.manual = TRUE]
    BY <2>1, <2>2, Updated, Resting
  <2>4. row'.status # "absent" /\ row'.ids = row.ids BY <1>1, <2>3 DEF Row
  <2>5. w # a /\ row.status # "absent"
    BY <1>1, <1>2, <2>1 DEF LonePcs, Harmless, Early, Settling
  <2> QED BY <1>3, <1>5, <2>1, <2>3, <2>4, <2>5 DEF Settling
<1>14. CASE Reconcile(w)
  <2>1. row' = row /\ log' = log /\ wk[w].pc = "reconcile" BY <1>14 DEF Reconcile
  <2>2. w # a /\ row.status # "absent"
    BY <1>1, <1>2, <2>1 DEF LonePcs, Harmless, Early, Settling
  <2>3. CASE wk' = [wk EXCEPT ![w].pc = "mark", ![w].ids = row.ids, ![w].seen = row,
                              ![w].hash = row.hash]
    <3>1. Others(w) /\ wk'[w].pc = "mark" /\ wk'[w].ids = row.ids
      BY <1>1, <2>3 DEF WkRec, Others
    <3> QED BY <1>5, <2>1, <2>2, <3>1
  <2>4. CASE wk' = [wk EXCEPT ![w] = [Idle EXCEPT !.pc = "done"]]
    <3>1. Others(w) /\ wk'[w].pc = "done" BY <2>4, Moved, Resting
    <3> QED BY <1>5, <2>1, <2>2, <3>1 DEF Settling
  <2> QED BY <1>14, <2>3, <2>4 DEF Reconcile
<1>15. CASE Crash(w)
  <2>1. row' = row /\ log' = log /\ wk' = [wk EXCEPT ![w] = [Idle EXCEPT !.pc = "dead"]]
    BY <1>15 DEF Crash
  <2>2. Others(w) /\ wk'[w].pc = "dead" BY <2>1, Moved, Resting
  <2>3. CASE row.status # "absent"
    BY <1>5, <2>1, <2>2, <2>3 DEF Harmless, Settling, Early, LonePcs
  <2>4. CASE row.status = "absent"
    <3>1. wk'[w].pc \in Harmless BY <2>2 DEF Harmless
    <3> QED BY <1>1, <2>1, <2>2, <2>4, <3>1, NoRowStays
  <2> QED BY <2>3, <2>4
<1> QED BY <1>6, <1>7, <1>8, <1>9, <1>10, <1>11, <1>12, <1>13, <1>14, <1>15 DEF Settle

\* A pass works on the entries the row has, and leaves an absent row alone.
LEMMA RetryLone ==
  ASSUME Inv, NEW a \in Agents, LoneInv(a), NEW w \in Retriers, w # a, Retry(w)
  PROVE  LoneInv(a)'
<1>1. /\ wk \in [Workers -> WkRec] /\ wk[w] \in WkRec /\ row \in Row
      /\ a \in Workers /\ w \in Workers
  BY DEF Inv, TypeOK, WkRec, Workers
<1>2. /\ wk[w].pc \notin Harmless => row.status # "absent"
      /\ wk[w].pc \in Settling => wk[w].ids = row.ids
  BY <1>1 DEF LoneInv
<1>3. log' = log BY DEF Retry, RetryList, RetryFind, RetryClaim, Sweep, RetryAgain
\* A pass that moves on and holds no entries.
<1>4. ASSUME Others(w), row' = row, wk'[w].pc \notin Settling,
             row.status = "absent" => wk'[w].pc \in Harmless
      PROVE  LoneInv(a)'
  <2>1. CASE row.status = "absent" BY <1>1, <1>3, <1>4, <2>1, NoRowStays
  <2>2. CASE row.status # "absent" BY <1>1, <1>3, <1>4, <2>2, RowStays
  <2> QED BY <2>1, <2>2
<1>5. CASE RetryList(w)
  <2>1. PICK old \in BOOLEAN :
          LET listed == AutoRetryable(row) \/ (row.status = "broadcasting" /\ old) IN
          wk' = [wk EXCEPT ![w].pc = IF listed THEN "listed" ELSE "sweep",
                           ![w].from = IF listed THEN row.status ELSE "absent",
                           ![w].old = listed /\ old]
    BY <1>5 DEF RetryList
  <2>2. /\ Others(w)
        /\ wk'[w].pc = IF AutoRetryable(row) \/ (row.status = "broadcasting" /\ old)
                       THEN "listed" ELSE "sweep"
    BY <1>1, <2>1 DEF WkRec, Others
  <2>3. row' = row BY <1>5 DEF RetryList
  <2> QED BY <1>4, <2>2, <2>3 DEF AutoRetryable, Settling, Harmless
<1>6. CASE RetryFind(w)
  <2>1. PICK pc \in {"sweep", "retry"} : Holding(w, row, pc) BY <1>6 DEF RetryFind
  <2>2. Others(w) /\ wk'[w].pc = pc BY <1>1, <2>1 DEF WkRec, Others, Holding
  <2>3. row' = row /\ wk[w].pc = "listed" BY <1>6 DEF RetryFind
  <2>4. row.status # "absent" BY <1>2, <2>3 DEF Harmless, Early
  <2> QED BY <1>4, <2>2, <2>3, <2>4 DEF Settling
<1>7. CASE RetryClaim(w)
  <2>1. wk[w].pc = "retry" /\ row.status # "absent"
    BY <1>2, <1>7 DEF RetryClaim, Harmless, Early
  <2>2. CASE ~Retryable(w, row)
    <3>1. PICK pc \in {"reconcile", "sweep"} : Goto(w, pc) BY <1>7, <2>2 DEF RetryClaim
    <3>2. Others(w) /\ wk'[w].pc = pc BY <1>1, <3>1 DEF WkRec, Others, Goto
    <3>3. row' = row BY <1>7, <2>2 DEF RetryClaim
    <3> QED BY <1>4, <2>1, <3>2, <3>3 DEF Settling
  <2>3. CASE Retryable(w, row)
    <3>1. PICK r \in Row : /\ r = Retaken(row, wk[w].seen)
                           /\ r.ids = row.ids /\ r.status # "absent"
      <4>1. PICK is \in SUBSET Intents : is = row.ids BY <1>1 DEF Row
      <4>2. 0 \in Hash BY PaymentAssumption DEF PaymentAssumption, Hash
      <4>3. /\ Claimed(row, is) \in Row /\ Claimed(row, is).ids = is
            /\ Claimed(row, is).status # "absent"
        BY <4>2 DEF Claimed, Row
      <4>4. /\ [row EXCEPT !.status = "broadcasting", !.manual = FALSE] \in Row
            /\ [row EXCEPT !.status = "broadcasting", !.manual = FALSE].ids = is
            /\ [row EXCEPT !.status = "broadcasting", !.manual = FALSE].status # "absent"
        BY <1>1, <4>1 DEF Row
      <4>5. CASE wk[w].seen.status = "failed"
        <5>1. Retaken(row, wk[w].seen) = Claimed(row, is) BY <4>1, <4>5 DEF Retaken
        <5> QED BY <4>1, <4>3, <5>1
      <4>6. CASE wk[w].seen.status # "failed"
        <5>1. Retaken(row, wk[w].seen)
                = [row EXCEPT !.status = "broadcasting", !.manual = FALSE]
          BY <4>6 DEF Retaken
        <5> QED BY <4>1, <4>4, <5>1
      <4> QED BY <4>5, <4>6
    <3>2. PICK pc \in {"send", "persisted"}, s \in Row :
            Update(w, r, [wk[w] EXCEPT !.ids = r.ids, !.seen = s, !.pc = pc])
      <4>1. CASE wk[w].from = "failed"
        <5>1. Update(w, r, [wk[w] EXCEPT !.ids = r.ids, !.seen = NoRow, !.pc = "send"])
          BY <1>7, <2>3, <3>1, <4>1 DEF RetryClaim
        <5> QED BY <5>1, IdleIsFine
      <4>2. CASE wk[w].from # "failed"
        <5>1. Update(w, r, [wk[w] EXCEPT !.ids = r.ids, !.seen = r, !.pc = "persisted"])
          BY <1>7, <2>3, <3>1, <4>2 DEF RetryClaim
        <5> QED BY <5>1
      <4> QED BY <4>1, <4>2
    <3>3. r.ids \in SUBSET Intents BY DEF Row
    <3>4. PICK x \in WkRec : /\ x = [wk[w] EXCEPT !.ids = r.ids, !.seen = s, !.pc = pc]
                             /\ x.ids = r.ids
      <4> DEFINE x == [wk[w] EXCEPT !.ids = r.ids, !.seen = s, !.pc = pc]
      <4>1. x \in WkRec /\ x.ids = r.ids BY <1>1, <3>3 DEF WkRec, Steps
      <4>2. x = [wk[w] EXCEPT !.ids = r.ids, !.seen = s, !.pc = pc] OBVIOUS
      <4> HIDE DEF x
      <4> QED BY <4>1, <4>2
    <3>5. Update(w, r, x) BY <3>2, <3>4
    <3>6. Others(w) /\ wk'[w].ids = r.ids /\ row' = r BY <1>1, <3>4, <3>5, Updated
    <3> QED BY <1>1, <1>3, <2>1, <3>1, <3>6, RowStays
  <2> QED BY <2>2, <2>3
<1>8. CASE Sweep(w)
  <2>1. row' = row BY <1>8 DEF Sweep
  <2>2. CASE wk' = [wk EXCEPT ![w] = [Idle EXCEPT !.pc = "done"]]
    <3>1. Others(w) /\ wk'[w].pc = "done" BY <1>1, <2>2, Moved, Resting
    <3> QED BY <1>4, <2>1, <3>1 DEF Settling, Harmless
  <2>3. CASE /\ row.status = "confirmed"
             /\ wk' = [wk EXCEPT ![w].pc = "reconcile", ![w].from = "absent"]
    <3>1. Others(w) /\ wk'[w].pc = "reconcile" BY <1>1, <2>3 DEF WkRec, Others
    <3> QED BY <1>4, <2>1, <2>3, <3>1 DEF Settling
  <2> QED BY <1>8, <2>2, <2>3 DEF Sweep
<1>9. CASE RetryAgain(w)
  <2>1. row' = row /\ wk' = [wk EXCEPT ![w] = Idle] BY <1>9 DEF RetryAgain
  <2>2. Others(w) /\ wk'[w] = Idle BY <1>1, <2>1, Moved
  <2>3. Idle.pc = "idle" BY IdleIsFine
  <2> QED BY <1>4, <2>1, <2>2, <2>3 DEF Settling, Harmless, Early
<1> QED BY <1>5, <1>6, <1>7, <1>8, <1>9 DEF Retry

\* The agent up to its claim; it finds no row.
LEMMA AgentLone ==
  ASSUME Inv, NEW a \in Agents, LoneInv(a), Agent(a)
  PROVE  LoneInv(a)'
<1>1. /\ wk \in [Workers -> WkRec] /\ wk[a] \in WkRec /\ row \in Row /\ a \in Workers
      /\ wk[a].pc \in LonePcs /\ log \in [Ids -> [status : LogStatus, hash : Hash]]
  BY DEF Inv, TypeOK, WkRec, Workers, LoneInv
<1>2. wk[a].pc \in Early /\ row.status = "absent"
  <2>1. wk[a].pc \in Early
    BY <1>1 DEF Agent, AgentStarts, Intend, AgentEnds, ListPending, ClaimInsert, ClaimFind,
                ClaimUpdate, Existing, LonePcs, Harmless, Settling, Early
  <2> QED BY <2>1 DEF LoneInv
<1>3. CASE AgentStarts(a) \/ AgentEnds(a)
  <2>1. PICK pc \in {"run", "list", "lost"} : Goto(a, pc)
    BY <1>3 DEF AgentStarts, AgentEnds
  <2>2. Others(a) /\ wk'[a].pc = pc BY <1>1, <2>1 DEF WkRec, Others, Goto
  <2>3. row' = row /\ log' = log BY <1>3 DEF AgentStarts, AgentEnds
  <2>4. wk'[a].pc \in Harmless BY <2>2 DEF Harmless, Early
  <2> QED BY <1>1, <1>2, <2>2, <2>3, <2>4, NoRowStays
<1>4. CASE Intend(a)
  <2>1. PICK i \in IntentsOf[a] :
          log[i].status = "absent" /\ log' = [log EXCEPT ![i].status = "pending"]
    BY <1>4 DEF Intend
  <2>2. \A j \in Intents : log'[j].status \in {log[j].status, "pending"}
    BY <1>1, <2>1 DEF Ids
  <2>3. wk[a].pc = "run" /\ UNCHANGED <<row, wk>> BY <1>4 DEF Intend
  <2>4. EntriesOk' BY <1>2, <2>2, <2>3 DEF LoneInv, EntriesOk
  <2> QED BY <1>2, <2>3, <2>4 DEF LoneInv
<1>5. CASE ListPending(a)
  <2>1. wk' = [wk EXCEPT ![a].pc = IF Pending = {} THEN "done" ELSE "claim",
                         ![a].ids = Pending]
    BY <1>5 DEF ListPending, Page
  <2>2. /\ Others(a) /\ wk'[a].ids = Pending
        /\ wk'[a].pc = IF Pending = {} THEN "done" ELSE "claim"
    BY <1>1, <2>1 DEF WkRec, Others
  <2>3. row' = row /\ log' = log BY <1>5 DEF ListPending
  <2>4. wk'[a].pc \in Harmless BY <2>2 DEF Harmless, Early
  <2> QED BY <1>1, <1>2, <2>2, <2>3, <2>4, NoRowStays
<1>6. CASE ClaimInsert(a)
  <2>1. wk[a].pc = "claim" /\ wk[a].ids = Pending /\ log' = log
    BY <1>6 DEF ClaimInsert, LoneInv
  <2>2. Update(a, Claimed(row, wk[a].ids), [wk[a] EXCEPT !.pc = "send"])
    BY <1>2, <1>6 DEF ClaimInsert
  <2>3. PICK x \in WkRec : /\ x = [wk[a] EXCEPT !.pc = "send"]
                           /\ x.pc = "send" /\ x.ids = wk[a].ids
    <3> DEFINE x == [wk[a] EXCEPT !.pc = "send"]
    <3>1. x \in WkRec /\ x.pc = "send" /\ x.ids = wk[a].ids BY <1>1 DEF WkRec, Steps
    <3>2. x = [wk[a] EXCEPT !.pc = "send"] OBVIOUS
    <3> HIDE DEF x
    <3> QED BY <3>1, <3>2
  <2>4. /\ Others(a) /\ wk'[a].pc = "send" /\ wk'[a].ids = Pending
        /\ row' = Claimed(row, Pending)
    BY <1>1, <2>1, <2>2, <2>3, Updated
  <2>5. row'.status # "absent" /\ row'.ids = Pending BY <2>4 DEF Claimed
  <2>6. EntriesOk' BY <1>2, <2>1, <2>5 DEF LoneInv, EntriesOk, Pending
  <2>7. \A u \in Workers \ {a} : wk[u].pc \in Harmless BY <1>2 DEF LoneInv
  <2>8. \A u \in Workers : wk'[u].pc \in Settling => wk'[u].ids = row'.ids
    BY <2>4, <2>5, <2>7 DEF Others, Harmless, Settling, Early
  <2>9. wk'[a].pc \in LonePcs \ Early /\ wk'[a].pc # "done"
    BY <2>4 DEF LonePcs, Settling, Early
  <2> QED BY <2>5, <2>6, <2>8, <2>9 DEF LoneInv, Early
<1>7. CASE ClaimFind(a) \/ ClaimUpdate(a) \/ Existing(a)
  BY <1>2, <1>7 DEF ClaimFind, ClaimUpdate, Existing, Early
<1> QED BY <1>3, <1>4, <1>5, <1>6, <1>7 DEF Agent

\* A paid call writes the entry of its key, which is no agent's.
LEMMA PayLone ==
  ASSUME Inv, PaidCalls, NEW p \in Payers, Pay(p)
  PROVE  PaidCalls' /\ \A i \in Intents : log'[i] = log[i]
<1>1. /\ pay \in [Payers -> PayRec] /\ pay[p] \in PayRec
      /\ log \in [Ids -> [status : LogStatus, hash : Hash]]
      /\ Intents \subseteq Ids /\ Intents \intersect Directs = {}
  BY PaymentAssumption DEF Inv, TypeOK, PayRec, Ids, PaymentAssumption
<1>2. ASSUME NEW y, pay' = [pay EXCEPT ![p] = y],
             y.pc \in {"send", "confirm", "fail"} => y.id \in Directs
      PROVE  PaidCalls'
  BY <1>1, <1>2 DEF PaidCalls
<1>3. CASE PayClaim(p)
  <2>1. PICK i \in Ids :
          IF log[i].status = "absent"
          THEN /\ i \in Directs /\ log' = [log EXCEPT ![i].status = "pending"]
               /\ pay' = [pay EXCEPT ![p].pc = "send", ![p].id = i]
          ELSE /\ log' = log
               /\ \E pc \in {"conflict", "pending", "failed", "ok"} :
                    pay' = [pay EXCEPT ![p].id = i, ![p].pc = pc]
    BY <1>3, ZenonT(60) DEF PayClaim
  <2>2. \A j \in Intents : log'[j] = log[j] BY <1>1, <2>1
  <2>3. PaidCalls'
    <3>1. CASE i \in Directs /\ pay' = [pay EXCEPT ![p].pc = "send", ![p].id = i]
      BY <1>1, <3>1 DEF PaidCalls, PayRec
    <3>2. ASSUME NEW pc \in {"conflict", "pending", "failed", "ok"},
                 pay' = [pay EXCEPT ![p].id = i, ![p].pc = pc]
          PROVE  PaidCalls'
      BY <1>1, <3>2 DEF PaidCalls, PayRec
    <3> QED BY <2>1, <3>1, <3>2
  <2> QED BY <2>2, <2>3
<1>4. CASE PaySend(p)
  <2>1. pay[p].id \in Directs /\ log' = log BY <1>4 DEF PaySend, PaidCalls
  <2>2. PICK pc \in {"confirm", "fail"} : \E h : pay' = [pay EXCEPT ![p].pc = pc, ![p].hash = h]
    <3>1. CASE pay' = [pay EXCEPT ![p].pc = "fail"]
      <4>1. pay' = [pay EXCEPT ![p].pc = "fail", ![p].hash = pay[p].hash]
        BY <1>1, <3>1 DEF PayRec
      <4> QED BY <4>1
    <3> QED BY <1>4, <3>1 DEF PaySend
  <2>3. PaidCalls' BY <1>1, <2>1, <2>2 DEF PaidCalls, PayRec
  <2> QED BY <2>1, <2>3
<1>5. CASE PayRecord(p)
  <2>1. pay[p].id \in Directs BY <1>5 DEF PayRecord, PaidCalls
  <2>2. \E st, h : MarkLog({pay[p].id}, st, h) BY <1>5 DEF PayRecord
  <2>3. \A i \in Intents : log'[i] = log[i] BY <1>1, <2>1, <2>2 DEF MarkLog
  <2>4. PICK pc \in {"ok", "failed"} : pay' = [pay EXCEPT ![p].pc = pc]
    BY <1>5 DEF PayRecord
  <2>5. PaidCalls' BY <1>1, <2>4 DEF PaidCalls, PayRec
  <2> QED BY <2>3, <2>5
<1>6. CASE CrashPayer(p)
  <2>1. pay' = [pay EXCEPT ![p].pc = "dead"] /\ log' = log BY <1>6 DEF CrashPayer
  <2>2. PaidCalls' BY <1>1, <2>1 DEF PaidCalls, PayRec
  <2> QED BY <2>1, <2>2
<1> QED BY <1>3, <1>4, <1>5, <1>6 DEF Pay

\* Nobody comes back to idle but a pass.
LEMMA NoReturn ==
  ASSUME Inv, Agents \intersect Retriers = {}, [Next]_vars, NEW b \in Agents,
         wk'[b].pc = "idle"
  PROVE  wk[b].pc = "idle"
<1>1. /\ wk \in [Workers -> WkRec] /\ b \in Workers /\ b \notin Retriers
      /\ Agents \subseteq Workers /\ Retriers \subseteq Workers
  BY DEF Inv, TypeOK, WkRec, Workers
<1>2. \A w \in Workers : After(w) \in {"done", "sweep"} BY DEF After
<1>3. \A pc : [Idle EXCEPT !.pc = pc].pc = pc BY Resting
<1>4. \A y \in WkRec : [y EXCEPT !.old = FALSE].pc = y.pc BY DEF WkRec
\* A worker that writes the row, and then stands elsewhere.
<1>5. ASSUME NEW w \in Workers, NEW r, NEW x \in WkRec, Update(w, r, x), x.pc # "idle"
      PROVE  wk[b].pc = "idle"
  BY <1>1, <1>5, Updated DEF Others
<1>6. ASSUME NEW w \in Workers, NEW r, NEW pc \in Steps \ {"idle"},
              Update(w, r, [wk[w] EXCEPT !.pc = pc])
       PROVE  wk[b].pc = "idle"
  <2>1. wk[w] \in WkRec BY <1>1
  <2> DEFINE x == [wk[w] EXCEPT !.pc = pc]
  <2>2. x \in WkRec /\ x.pc # "idle" BY <2>1 DEF WkRec
  <2>3. Update(w, r, x) BY <1>6
  <2> HIDE DEF x
  <2> QED BY <1>5, <2>2, <2>3
<1>7. ASSUME NEW a \in Agents, Agent(a) PROVE wk[b].pc = "idle"
  <2>1. CASE AgentStarts(a) \/ AgentEnds(a) \/ ListPending(a)
    BY <1>1, <2>1 DEF AgentStarts, AgentEnds, ListPending, Goto, WkRec
  <2>2. CASE Intend(a) BY <2>2 DEF Intend
  <2>3. CASE ClaimInsert(a)
    <3>1. CASE row.status = "absent"
      <4>1. Update(a, Claimed(row, wk[a].ids), [wk[a] EXCEPT !.pc = "send"])
        BY <2>3, <3>1 DEF ClaimInsert
      <4> QED BY <1>1, <1>6, <4>1 DEF Steps
    <3>2. CASE row.status # "absent" BY <1>1, <2>3, <3>2 DEF ClaimInsert, Goto, WkRec
    <3> QED BY <3>1, <3>2
  <2>4. CASE ClaimFind(a) BY <1>1, <2>4 DEF ClaimFind, Holding, WkRec
  <2>5. CASE ClaimUpdate(a)
    <3>1. CASE AutoRetryable(row)
      <4>1. Update(a, Claimed(row, wk[a].ids), [wk[a] EXCEPT !.pc = "send", !.seen = NoRow])
        BY <2>5, <3>1 DEF ClaimUpdate
      <4> DEFINE x == [wk[a] EXCEPT !.pc = "send", !.seen = NoRow]
      <4>2. a \in Workers /\ wk[a] \in WkRec BY <1>1
      <4>3. NoRow \in Row /\ "send" \in Steps BY IdleIsFine DEF Steps
      <4>4. x \in WkRec /\ x.pc # "idle" BY <4>2, <4>3 DEF WkRec
      <4>5. Update(a, Claimed(row, wk[a].ids), x) BY <4>1
      <4> HIDE DEF x
      <4> QED BY <1>5, <4>2, <4>4, <4>5
    <3>2. CASE ~AutoRetryable(row) BY <1>1, <2>5, <3>2 DEF ClaimUpdate, Goto, WkRec
    <3> QED BY <3>1, <3>2
  <2>6. CASE Existing(a) BY <1>1, <1>3, <2>6 DEF Existing, WkRec
  <2> QED BY <1>7, <2>1, <2>2, <2>3, <2>4, <2>5, <2>6 DEF Agent
<1>8. ASSUME NEW w \in Workers, Settle(w) PROVE wk[b].pc = "idle"
  <2>1. CASE Send(w) BY <1>1, <2>1 DEF Send, Goto, WkRec
  <2>2. CASE FailRow(w)
    <3>1. \E r : Update(w, r, [wk[w] EXCEPT !.pc = "markFailed"]) BY <2>2 DEF FailRow
    <3> QED BY <1>6, <3>1 DEF Steps
  <2>3. CASE MarkFailed(w) \/ MarkConfirmed(w) \/ Crash(w)
    BY <1>1, <1>2, <1>3, <2>3 DEF MarkFailed, MarkConfirmed, Crash
  <2>4. CASE RecordReceipt(w) \/ ConfirmRow(w)
    <3>1. PICK pc \in {"confirm", "mark"} : \E r : Update(w, r, [wk[w] EXCEPT !.pc = pc])
      BY <2>4 DEF RecordReceipt, ConfirmRow
    <3> QED BY <1>6, <3>1 DEF Steps
  <2>5. CASE Persisted(w) BY <1>1, <2>5 DEF Persisted, Goto, WkRec
  <2>6. CASE NeedsManual(w)
    <3>1. [Idle EXCEPT !.pc = After(w)] \in WkRec /\ After(w) # "idle"
      BY <1>2, IdleIsFine
    <3> QED BY <1>1, <1>3, <1>4, <2>6, <3>1 DEF NeedsManual, Update
  <2>7. CASE Reconcile(w)
    <3>1. CASE wk' = [wk EXCEPT ![w] = [Idle EXCEPT !.pc = "done"]] BY <1>1, <1>3, <3>1
    <3>2. CASE wk' = [wk EXCEPT ![w].pc = "mark", ![w].ids = row.ids, ![w].seen = row,
                                ![w].hash = row.hash]
      BY <1>1, <3>2 DEF WkRec
    <3> QED BY <2>7, <3>1, <3>2 DEF Reconcile
  <2> QED BY <1>8, <2>1, <2>2, <2>3, <2>4, <2>5, <2>6, <2>7 DEF Settle
<1>9. ASSUME NEW w \in Retriers, Retry(w) PROVE wk[b].pc = "idle"
  <2>1. w # b /\ w \in Workers BY <1>1
  <2>2. CASE RetryClaim(w)
    BY <1>1, <1>4, <2>1, <2>2 DEF RetryClaim, Update, Goto
  <2>3. CASE ~RetryClaim(w)
    BY <1>1, <1>9, <2>1, <2>3 DEF Retry, RetryList, RetryFind, Holding, Sweep, RetryAgain
  <2> QED BY <2>2, <2>3
<1>10. CASE (\E p \in Payers : Pay(p)) \/ CancelRoute \/ UNCHANGED vars
  BY <1>10 DEF Pay, PayClaim, PaySend, PayRecord, CrashPayer, CancelRoute, vars
<1> QED BY <1>7, <1>8, <1>9, <1>10 DEF Next

LEMMA LoneStep ==
  ASSUME Inv, Agents \intersect Retriers = {}, LoneOk, [Next]_vars
  PROVE  LoneOk'
<1>1. ASSUME NEW a \in Agents, Lone(a)' PROVE Lone(a) /\ LoneInv(a)
  <2>1. Lone(a) BY <1>1, NoReturn DEF Lone
  <2> QED BY <2>1 DEF LoneOk
<1>2. CASE \E a \in Agents : Agent(a)
  <2>1. PICK c \in Agents : Agent(c) BY <1>2
  <2>2. PaidCalls'
    BY <2>1 DEF LoneOk, PaidCalls, Agent, AgentStarts, Intend, AgentEnds, ListPending,
                ClaimInsert, ClaimFind, ClaimUpdate, Existing
  <2>3. ASSUME NEW a \in Agents, Lone(a)' PROVE LoneInv(a)'
    <3>1. CASE c = a BY <1>1, <2>1, <2>3, <3>1, AgentLone
    <3>2. CASE c # a
      <4>1. wk[c].pc = "idle" /\ wk'[c].pc = "idle" BY <1>1, <2>3, <3>2 DEF Lone
      <4>2. AgentStarts(c)
        BY <2>1, <4>1 DEF Agent, Intend, AgentEnds, ListPending, ClaimInsert, ClaimFind,
                          ClaimUpdate, Existing
      <4>3. c \in Workers /\ wk \in [Workers -> WkRec] /\ wk[c] \in WkRec
        BY DEF Inv, TypeOK, WkRec, Workers
      <4>4. wk'[c].pc = "run" BY <4>2, <4>3 DEF AgentStarts, Goto, WkRec
      <4> QED BY <4>1, <4>4
    <3> QED BY <3>1, <3>2
  <2> QED BY <2>2, <2>3 DEF LoneOk
<1>3. CASE \E w \in Workers : Settle(w)
  <2>1. PICK w \in Workers : Settle(w) BY <1>3
  <2>2. PaidCalls'
    BY <2>1 DEF LoneOk, PaidCalls, Settle, Send, FailRow, MarkFailed, RecordReceipt,
                ConfirmRow, MarkConfirmed, Persisted, NeedsManual, Reconcile, Crash
  <2> QED BY <1>1, <2>1, <2>2, SettleLone DEF LoneOk
<1>4. CASE \E w \in Retriers : Retry(w)
  <2>1. PICK w \in Retriers : Retry(w) BY <1>4
  <2>2. PaidCalls'
    BY <2>1 DEF LoneOk, PaidCalls, Retry, RetryList, RetryFind, RetryClaim, Sweep, RetryAgain
  <2> QED BY <1>1, <2>1, <2>2, RetryLone DEF LoneOk
<1>5. CASE (\E p \in Payers : Pay(p)) \/ CancelRoute \/ UNCHANGED vars
  <2>1. PaidCalls' /\ \A i \in Intents : log'[i] = log[i]
    <3>1. CASE \E p \in Payers : Pay(p) BY <3>1, PayLone DEF LoneOk
    <3>2. CASE CancelRoute \/ UNCHANGED vars
      BY <3>2 DEF LoneOk, PaidCalls, CancelRoute, vars
    <3> QED BY <1>5, <3>1, <3>2
  <2>2. UNCHANGED <<row, wk>>
    BY <1>5 DEF Pay, PayClaim, PaySend, PayRecord, CrashPayer, CancelRoute, vars
  <2>3. Pending' = Pending BY <2>1 DEF Pending
  <2>4. ASSUME NEW a \in Agents, LoneInv(a) PROVE LoneInv(a)'
    <3>1. EntriesOk' BY <2>1, <2>2, <2>4 DEF LoneInv, EntriesOk
    <3> QED BY <2>2, <2>3, <2>4, <3>1 DEF LoneInv
  <2> QED BY <1>1, <2>1, <2>4 DEF LoneOk
<1> QED BY <1>2, <1>3, <1>4, <1>5 DEF Next

\* The settlement at the end of a lone agent leaves no entry out: it fails or is booked,
\* and a failed one stays among the row's, where retryResearchSettlements finds it, for
\* any number of passes that take the row over meanwhile. An agent is not a pass.
THEOREM LoneAgentLeavesNothing ==
  ASSUME \E i \in Ids : TRUE, Agents \intersect Retriers = {}
  PROVE  Spec => []LoneAgentForgetsNothing
<1>1. Init => Inv /\ LoneOk
  <2> SUFFICES ASSUME Init PROVE Inv /\ LoneOk
    OBVIOUS
  <2>1. Inv BY InvInit
  <2>2. \A w \in Workers : wk[w].pc = "idle" BY IdleIsFine DEF Init
  <2>3. EntriesOk BY DEF Init, EntriesOk, NoRow, Ids
  <2>4. row.status = "absent" BY DEF Init, NoRow
  <2>5. \A a \in Agents : LoneInv(a)
    BY <2>2, <2>3, <2>4 DEF LoneInv, Workers, LonePcs, Harmless, Settling, Early
  <2>6. PaidCalls BY DEF Init, PaidCalls
  <2> QED BY <2>1, <2>5, <2>6 DEF LoneOk
<1>2. Inv /\ LoneOk /\ [Next]_vars => (Inv /\ LoneOk)' BY InvStep, LoneStep
<1>3. LoneOk => LoneAgentForgetsNothing
  BY DEF LoneOk, LoneInv, EntriesOk, Lone, LoneAgentForgetsNothing
<1> QED BY <1>1, <1>2, <1>3, PTL DEF Spec

================================================================================
