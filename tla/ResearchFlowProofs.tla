-------------------------- MODULE ResearchFlowProofs --------------------------
(* Theorems about ResearchFlow, for every number of workers, every limit on     *)
(* attempts and claims, either kind of agent and any operator.                   *)
EXTENDS ResearchFlow, TLAPS

-----------------------------------------------------------------------------
\* What the four tables hold.
LEMMA StatusValues ==
  {"funding", "funding_expired", "running", "completed", "failed", "cancelled"}
    \subseteq Values("status")
  <1>1. /\ <<"funding", "funding_expired">> \in Moves["status"]
        /\ <<"funding", "running">> \in Moves["status"]
        /\ <<"running", "completed">> \in Moves["status"]
        /\ <<"running", "failed">> \in Moves["status"]
        /\ <<"running", "cancelled">> \in Moves["status"]
    BY DEF Moves
  <1> QED BY <1>1 DEF Values

LEMMA FinalizationValues ==
  {"none", "open", "closing", "closed", "manual"} \subseteq Values("finalization")
  <1>1. /\ <<"none", "open">> \in Moves["finalization"]
        /\ <<"closing", "closed">> \in Moves["finalization"]
        /\ <<"closing", "manual">> \in Moves["finalization"]
    BY DEF Moves
  <1> QED BY <1>1 DEF Values

LEMMA ActivationValues ==
  {"none", "funded", "activating", "active"} \subseteq Values("activation")
  <1>1. /\ <<"none", "funded">> \in Moves["activation"]
        /\ <<"activating", "active">> \in Moves["activation"]
    BY DEF Moves
  <1> QED BY <1>1 DEF Values

LEMMA QuotaValues ==
  {"reserved", "activating", "consumed", "released"} \subseteq Values("quota")
  <1>1. /\ <<"reserved", "released">> \in Moves["quota"]
        /\ <<"activating", "consumed">> \in Moves["quota"]
    BY DEF Moves
  <1> QED BY <1>1 DEF Values

\* Every target of a move is a value of its dimension.
LEMMA MoveTargets ==
  ASSUME NEW d \in Dimensions, NEW a, NEW b, <<a, b>> \in Moves[d]
  PROVE  b \in Values(d)
  <1>1. b \in {<<a, b>>[1], <<a, b>>[2]}
    OBVIOUS
  <1> QED BY <1>1 DEF Values

\* A patch changes the dimensions it names and no other.
LEMMA PatchFields ==
  ASSUME NEW l \in Life, NEW p
  PROVE  /\ Patched(l, p).status = IF "status" \in DOMAIN p THEN p["status"] ELSE l.status
         /\ Patched(l, p).activation =
              IF "activation" \in DOMAIN p THEN p["activation"] ELSE l.activation
         /\ Patched(l, p).finalization =
              IF "finalization" \in DOMAIN p THEN p["finalization"] ELSE l.finalization
         /\ Patched(l, p).quota = IF "quota" \in DOMAIN p THEN p["quota"] ELSE l.quota
         /\ Patched(l, p) = [status |-> Patched(l, p).status,
                             activation |-> Patched(l, p).activation,
                             finalization |-> Patched(l, p).finalization,
                             quota |-> Patched(l, p).quota]
  BY DEF Patched, Dimensions, Life

\* The tables never lead out of the values of a record.
LEMMA PatchType ==
  ASSUME NEW l \in Life, NEW p, Allowed(l, p), DOMAIN p \subseteq Dimensions
  PROVE  Patched(l, p) \in Life
  <1>1. ASSUME NEW d \in DOMAIN p PROVE p[d] \in Values(d)
    <2>1. l[d] \in Values(d)
      BY <1>1 DEF Life, Dimensions
    <2> QED BY <1>1, <2>1, MoveTargets DEF Allowed
  <1>2. /\ l.status \in Values("status") /\ l.activation \in Values("activation")
        /\ l.finalization \in Values("finalization") /\ l.quota \in Values("quota")
    BY DEF Life
  <1>3. /\ Patched(l, p).status \in Values("status")
        /\ Patched(l, p).activation \in Values("activation")
        /\ Patched(l, p).finalization \in Values("finalization")
        /\ Patched(l, p).quota \in Values("quota")
    BY <1>1, <1>2, PatchFields
  <1> QED BY <1>3, PatchFields DEF Life
-----------------------------------------------------------------------------
\* The pieces the actions are built from keep the types.
LEMMA RestType ==
  ASSUME TypeOK, NEW w \in Workers, Rest(w)
  PROVE  wk' \in [Workers -> Worker]
  <1>1. Prepared \in Life
    BY StatusValues, ActivationValues, FinalizationValues, QuotaValues
    DEF Prepared, Life
  <1>2. NoOp \in Op
    BY DEF NoOp, Op
  <1>3. Resting \in Worker
    BY <1>1, <1>2 DEF Resting, Worker, Steps, Types
  <1> QED BY <1>3 DEF TypeOK, Rest

LEMMA GotoType ==
  ASSUME TypeOK, NEW w \in Workers, NEW pc \in Steps, Goto(w, pc)
  PROVE  wk' \in [Workers -> Worker]
  <1>1. CASE pc = "idle"
    BY <1>1, RestType DEF Goto, Rest
  <1>2. CASE pc # "idle"
    <2>1. [wk[w] EXCEPT !.pc = pc] \in Worker
      BY DEF TypeOK, Worker
    <2> QED BY <1>2, <2>1 DEF TypeOK, Goto
  <1> QED BY <1>1, <1>2

LEMMA TakenType ==
  ASSUME NEW o \in Op
  PROVE  Taken(o) \in Op
  <1>1. o.fence + 1 \in Nat
    BY DEF Op
  <1> QED BY <1>1 DEF Taken, Op

LEMMA EnqueueType ==
  ASSUME TypeOK, NEW S, Enqueue(S)
  PROVE  op' \in [Types -> Op]
  <1>1. [NoOp EXCEPT !.phase = "live", !.fence = 1, !.leased = TRUE] \in Op
    BY DEF NoOp, Op
  <1>2. ASSUME NEW t \in Types PROVE Enqueued(t) \in Op
    BY <1>1, <1>2, TakenType DEF TypeOK, Enqueued
  <1> QED BY <1>2 DEF TypeOK, Enqueue

LEMMA WriteType ==
  ASSUME TypeOK, NEW w \in Workers, NEW value \in BOOLEAN,
         NEW field \in {"leased", "tx"}, Write(w, field, value)
  PROVE  op' \in [Types -> Op]
  <1>1. wk[w].type \in Types
    BY DEF TypeOK, Worker
  <1>2. PICK o \in Op : op[wk[w].type] = o
    BY <1>1 DEF TypeOK
  <1>3. [o EXCEPT ![field] = value] \in Op
    <2>1. CASE field = "leased"
      BY <2>1 DEF Op
    <2>2. CASE field = "tx"
      BY <2>2 DEF Op
    <2> QED BY <2>1, <2>2
  <1> QED BY <1>1, <1>2, <1>3 DEF TypeOK, Write

LEMMA MoveType ==
  ASSUME TypeOK, NEW e, NEW p, CanMove(e, p), Move(p), DOMAIN p \subseteq Dimensions
  PROVE  life' \in Life
  BY PatchType DEF TypeOK, CanMove, Move

LEMMA WriteStatusType ==
  ASSUME TypeOK, NEW s \in {"completed", "failed", "cancelled"}, WriteStatus(s)
  PROVE  life' \in Life
  BY StatusValues, FinalizationValues DEF TypeOK, WriteStatus, Life
-----------------------------------------------------------------------------
\* The patches the code applies, and what they do to a record.
LEMMA Patches ==
  /\ Activated.status = "running" /\ Activated.activation = "active"
  /\ Activated.finalization = "open" /\ Activated.quota = "consumed"
  /\ DOMAIN Activated = Dimensions
  /\ Lapsed.status = "funding_expired" /\ Lapsed.activation = "expired"
  /\ Lapsed.quota = "released" /\ DOMAIN Lapsed = {"status", "activation", "quota"}
  BY DEF Activated, Lapsed, Dimensions

LEMMA StartsAt ==
  /\ Prepared \in Life /\ Open \in Life
  /\ [Prepared EXCEPT !.activation = "funded"] \in Life
  BY StatusValues, ActivationValues, FinalizationValues, QuotaValues
  DEF Prepared, Open, Life

\* activation or expiry: the reservation is still held and is settled now.
LEMMA FundingSettled ==
  ASSUME TypeOK, QuotaSettledOnce, NEW e, NEW p \in {Activated, Lapsed},
         CanSettleFunding(e, p), Move(p)
  PROVE  /\ life' \in Life /\ life'.quota = p.quota
         /\ quota = [reserved |-> 1, used |-> 0]
  <1>1. DOMAIN p \subseteq Dimensions
    BY Patches DEF Dimensions
  <1>2. life' \in Life
    BY <1>1, MoveType DEF CanSettleFunding
  <1>3. life'.quota = p["quota"]
    BY Patches, PatchFields DEF TypeOK, Move, Dimensions
  <1>4. quota = [reserved |-> 1, used |-> 0]
    BY DEF TypeOK, QuotaSettledOnce, CanSettleFunding
  <1> QED BY <1>2, <1>3, <1>4

\* A patch of status or finalization leaves the quota alone.
LEMMA OtherPatch ==
  ASSUME TypeOK, NEW p, Move(p), DOMAIN p \subseteq {"status", "activation", "finalization"}
  PROVE  life'.quota = life.quota
  BY PatchFields DEF TypeOK, Move

\* An end of a running research.
LEMMA FinishType ==
  ASSUME TypeOK, NEW s \in {"completed", "failed", "cancelled"}, NEW S,
         CanMove(life, Ending(s)), Finish(s, S)
  PROVE  life' \in Life /\ life'.quota = life.quota /\ op' \in [Types -> Op]
  <1>1. DOMAIN Ending(s) = {"status", "finalization"}
    BY DEF Ending
  <1>2. Move(Ending(s)) /\ Enqueue(S)
    BY DEF Finish
  <1>3. life' \in Life
    BY <1>1, <1>2, MoveType DEF Dimensions
  <1>4. life'.quota = life.quota
    BY <1>1, <1>2, OtherPatch
  <1> QED BY <1>2, <1>3, <1>4, EnqueueType

\* updateStatusIfCurrent
LEMMA WriteStatusQuota ==
  ASSUME TypeOK, NEW s, WriteStatus(s)
  PROVE  life'.quota = life.quota
  BY DEF TypeOK, WriteStatus, Life

\* What every type step below comes to.
Typed == TypeOK /\ QuotaSettledOnce

LEMMA OpenCanEnd ==
  ASSUME NEW s \in {"completed", "failed", "cancelled"}
  PROVE  Allowed(Open, Ending(s))
  <1>1. /\ <<"running", s>> \in Moves["status"]
        /\ <<"open", "closing">> \in Moves["finalization"]
    BY DEF Moves
  <1>2. /\ DOMAIN Ending(s) = {"status", "finalization"}
        /\ Ending(s)["status"] = s /\ Ending(s)["finalization"] = "closing"
        /\ Open["status"] = "running" /\ Open["finalization"] = "open"
    BY DEF Ending, Open
  <1> QED BY <1>1, <1>2 DEF Allowed

LEMMA InitTyped == Init => Typed
  <1> SUFFICES ASSUME Init PROVE Typed
    OBVIOUS
  <1>1. life.quota = "reserved"
    BY DEF Init, Prepared
  <1>2. NoOp \in Op /\ Prepared \in Life
    BY StartsAt DEF NoOp, Op
  <1>3. Resting \in Worker
    BY <1>2 DEF Resting, Worker, Steps, Types
  <1>4. TypeOK
    <2>1. NoCheck \in [pc : {"idle", "ask", "start", "expire"}, seen : Life]
      BY <1>2 DEF NoCheck
    <2>2. NoRequest \in [pc : {"idle", "read", "cas"}, seen : Life,
                        to : {"closing", "closed"}]
      BY <1>2 DEF NoRequest
    <2>3. op \in [Types -> Op] /\ wk \in [Workers -> Worker]
      BY <1>2, <1>3 DEF Init
    <2>4. quota \in [reserved : 0..1, used : 0..1]
      BY DEF Init
    <2>5. sent \in BOOLEAN /\ paid \in BOOLEAN
      BY DEF Init
    <2> QED BY <1>2, <2>1, <2>2, <2>3, <2>4, <2>5, Zenon DEF Init, TypeOK
  <1> QED BY <1>1, <1>4 DEF Init, QuotaSettledOnce, Typed

LEMMA OutsideTyped == ASSUME Typed, Outside PROVE Typed'
  <1> USE DEF Typed, ledger, jobs
  <1>1. CASE Tick
    BY <1>1 DEF Tick, TypeOK, QuotaSettledOnce
  <1>2. CASE Fund
    <2>1. DOMAIN [activation |-> "funded"] = {"activation"}
      OBVIOUS
    <2>2. life' = [Prepared EXCEPT !.activation = "funded"]
      BY <1>2, <2>1, PatchFields, StartsAt DEF Fund, Move, Prepared
    <2>3. life'.quota = life.quota /\ life' \in Life
      BY <1>2, <2>2, StartsAt DEF Fund, Prepared
    <2> QED BY <1>2, <2>3 DEF Fund, TypeOK, QuotaSettledOnce
  <1>3. CASE Land
    BY <1>3 DEF Land, TypeOK, QuotaSettledOnce
  <1> QED BY <1>1, <1>2, <1>3 DEF Outside

LEMMA ApiTyped == ASSUME Typed, Api PROVE Typed'
  <1> USE DEF Typed, ledger, jobs, world
  <1>1. CASE Start
    <2> DEFINE p == [activation |-> "activating", quota |-> "activating"]
    <2>1. DOMAIN p = {"activation", "quota"} /\ p["quota"] = "activating"
      OBVIOUS
    <2>2. life' \in Life
      BY <1>1, <2>1, MoveType DEF Start, Dimensions
    <2>3. life.quota = "reserved"
      BY <1>1 DEF Start, CanMove, Prepared
    <2>4. life'.quota = "activating"
      BY <1>1, <2>1, PatchFields DEF Start, Move, TypeOK
    <2>5. op' \in [Types -> Op]
      BY <1>1, EnqueueType DEF Start
    <2> QED BY <1>1, <2>2, <2>3, <2>4, <2>5 DEF Start, TypeOK, QuotaSettledOnce
  <1>2. CASE Cancel
    <2>1. CASE life = Open
      <3>1. Finish("cancelled", {"CLOSE"}) /\ CanMove(life, Ending("cancelled"))
        BY <1>2, <2>1, OpenCanEnd DEF Cancel, CanMove
      <3>2. life' \in Life /\ life'.quota = life.quota /\ op' \in [Types -> Op]
        BY <3>1, FinishType
      <3> QED BY <1>2, <3>2 DEF Cancel, TypeOK, QuotaSettledOnce
    <2>2. CASE life # Open
      <3>1. WriteStatus("cancelled") /\ UNCHANGED op
        BY <1>2, <2>2 DEF Cancel
      <3>2. life' \in Life /\ life'.quota = life.quota
        BY <3>1, WriteStatusType, WriteStatusQuota
      <3> QED BY <1>2, <3>1, <3>2 DEF Cancel, TypeOK, QuotaSettledOnce
    <2> QED BY <2>1, <2>2
  <1> QED BY <1>1, <1>2 DEF Api

LEMMA ExpiryTyped == ASSUME Typed, Expiry PROVE Typed'
  <1> USE DEF Typed, ledger, world
  <1>1. CASE ExpiryRead
    BY <1>1 DEF ExpiryRead, TypeOK, QuotaSettledOnce
  <1>2. CASE ExpiryAsk
    <2>1. expiry' \in [pc : {"idle", "ask", "start", "expire"}, seen : Life]
      BY <1>2, StartsAt DEF ExpiryAsk, TypeOK, NoCheck
    <2> QED BY <1>2, <2>1 DEF ExpiryAsk, TypeOK, QuotaSettledOnce
  <1>3. CASE ExpiryWrite
    <2>0. expiry' \in [pc : {"idle", "ask", "start", "expire"}, seen : Life]
      BY <1>3, StartsAt DEF ExpiryWrite, NoCheck
    <2>1. CASE UNCHANGED <<life, quota, op>>
      BY <1>3, <2>0, <2>1 DEF ExpiryWrite, TypeOK, QuotaSettledOnce
    <2>2. CASE CanSettleFunding(expiry.seen, Activated) /\ StartRunning
      <3>1. /\ life' \in Life /\ life'.quota = "consumed"
            /\ quota' = [reserved |-> 0, used |-> 1]
        BY <2>2, FundingSettled, Patches DEF StartRunning
      <3>2. op' \in [Types -> Op]
        BY <2>2, EnqueueType DEF StartRunning
      <3> QED BY <1>3, <2>0, <3>1, <3>2 DEF ExpiryWrite, TypeOK, QuotaSettledOnce
    <2>3. CASE /\ CanSettleFunding(expiry.seen, Lapsed) /\ Move(Lapsed)
               /\ quota' = [quota EXCEPT !.reserved = @ - 1] /\ UNCHANGED op
      <3>1. /\ life' \in Life /\ life'.quota = "released"
            /\ quota' = [reserved |-> 0, used |-> 0]
        BY <2>3, FundingSettled, Patches
      <3> QED BY <1>3, <2>0, <2>3, <3>1 DEF ExpiryWrite, TypeOK, QuotaSettledOnce
    <2> QED BY <1>3, <2>1, <2>2, <2>3 DEF ExpiryWrite
  <1> QED BY <1>1, <1>2, <1>3 DEF Expiry

LEMMA OperatorTyped == ASSUME Typed, Operator PROVE Typed'
  <1> USE DEF Typed, ledger, world
  <1>1. ASSUME NEW t \in Types, Recover(t) PROVE Typed'
    <2>1. PICK to \in {"closing", "closed"} :
            /\ op' = [op EXCEPT ![t].phase =
                        IF to = "closing" THEN "live" ELSE "succeeded"]
            /\ rescue' = [rescue EXCEPT !.pc = "read", !.to = to]
      BY <1>1 DEF Recover
    <2>2. op' \in [Types -> Op]
      BY <2>1 DEF TypeOK, Op
    <2>3. rescue' \in [pc : {"idle", "read", "cas"}, seen : Life,
                       to : {"closing", "closed"}]
      BY <2>1 DEF TypeOK
    <2> QED BY <1>1, <2>2, <2>3 DEF Recover, TypeOK, QuotaSettledOnce
  <1>2. CASE RecoverRead
    BY <1>2 DEF RecoverRead, TypeOK, QuotaSettledOnce
  <1>3. CASE RecoverWrite
    <2> DEFINE p == [finalization |-> rescue.to]
    <2>1. DOMAIN p = {"finalization"}
      OBVIOUS
    <2>2. rescue' \in [pc : {"idle", "read", "cas"}, seen : Life,
                       to : {"closing", "closed"}]
      BY <1>3, StartsAt DEF RecoverWrite, NoRequest
    <2>3. life' \in Life /\ life'.quota = life.quota
      <3>1. CASE CanMove(rescue.seen, p)
        BY <1>3, <2>1, <3>1, MoveType, OtherPatch DEF RecoverWrite, Dimensions
      <3>2. CASE ~CanMove(rescue.seen, p)
        BY <1>3, <3>2 DEF RecoverWrite, TypeOK
      <3> QED BY <3>1, <3>2
    <2> QED BY <1>3, <2>2, <2>3 DEF RecoverWrite, TypeOK, QuotaSettledOnce
  <1> QED BY <1>1, <1>2, <1>3 DEF Operator

LEMMA LeaseTyped == ASSUME Typed, NEW t \in Types, LeaseEnds(t) PROVE Typed'
  <1>1. op' \in [Types -> Op]
    BY DEF LeaseEnds, Typed, TypeOK, Op
  <1> QED BY <1>1 DEF LeaseEnds, Typed, TypeOK, QuotaSettledOnce, ledger, world, jobs

LEMMA CommonTyped ==
  ASSUME Typed, NEW w \in Workers, Common(w) PROVE Typed'
  <1> USE DEF Typed, ledger, world, jobs
  <1>0. wk[w] \in Worker /\ wk[w].type \in Types
    BY DEF TypeOK, Worker
  <1>1. CASE Claim(w)
    <2>1. PICK t \in Types :
            /\ op' = [op EXCEPT ![t] = Taken(op[t])]
            /\ wk' = [wk EXCEPT ![w] = [Resting EXCEPT !.pc = "start", !.type = t,
                                                       !.op = Taken(op[t])]]
      BY <1>1 DEF Claim
    <2>2. Taken(op[t]) \in Op
      BY TakenType DEF TypeOK
    <2>3. [Resting EXCEPT !.pc = "start", !.type = t, !.op = Taken(op[t])] \in Worker
      BY <2>2, StartsAt DEF Resting, Worker, Steps
    <2> QED BY <1>1, <2>1, <2>2, <2>3 DEF Claim, TypeOK, QuotaSettledOnce
  <1>2. CASE Fault(w)
    <2>1. wk' \in [Workers -> Worker]
      BY <1>2, GotoType DEF Fault, Steps
    <2> QED BY <1>2, <2>1 DEF Fault, TypeOK, QuotaSettledOnce
  <1>3. CASE Crash(w)
    <2>1. wk' \in [Workers -> Worker]
      BY <1>3, RestType DEF Crash
    <2> QED BY <1>3, <2>1 DEF Crash, TypeOK, QuotaSettledOnce
  <1>4. CASE Throw(w)
    <2>1. wk' \in [Workers -> Worker]
      BY <1>4, RestType, GotoType DEF Throw, Steps
    <2>2. op' \in [Types -> Op]
      <3>1. CASE UNCHANGED op
        BY <3>1 DEF TypeOK
      <3>2. CASE op' = [op EXCEPT ![wk[w].type].phase = "manual",
                                  ![wk[w].type].leased = FALSE]
        BY <1>0, <3>2 DEF TypeOK, Op
      <3>3. CASE Write(w, "leased", FALSE)
        BY <3>3, WriteType
      <3> QED BY <1>4, <3>1, <3>2, <3>3 DEF Throw
    <2> QED BY <1>4, <2>1, <2>2 DEF Throw, TypeOK, QuotaSettledOnce
  <1>5. CASE Manual(w)
    <2>1. wk' \in [Workers -> Worker]
      <3>1. CASE Rest(w)
        BY <3>1, RestType
      <3>2. CASE wk' = [wk EXCEPT ![w].pc = "park", ![w].seen = life]
        <4>1. [wk[w] EXCEPT !.pc = "park", !.seen = life] \in Worker
          BY <1>0 DEF TypeOK, Worker, Steps
        <4>2. wk' = [wk EXCEPT ![w] = [wk[w] EXCEPT !.pc = "park", !.seen = life]]
          BY <3>2 DEF TypeOK
        <4> QED BY <4>1, <4>2 DEF TypeOK
      <3> QED BY <1>5, <3>1, <3>2 DEF Manual
    <2> QED BY <1>5, <2>1 DEF Manual, TypeOK, QuotaSettledOnce
  <1>6. CASE Park(w)
    <2>1. wk' \in [Workers -> Worker]
      BY <1>6, RestType DEF Park
    <2>2. life' \in Life /\ life'.quota = life.quota
      <3> DEFINE p == [finalization |-> "manual"]
      <3>1. DOMAIN p = {"finalization"}
        OBVIOUS
      <3>2. CASE CanMove(wk[w].seen, p)
        BY <1>6, <3>1, <3>2, MoveType, OtherPatch DEF Park, Dimensions
      <3>3. CASE ~CanMove(wk[w].seen, p)
        BY <1>6, <3>3 DEF Park, TypeOK
      <3> QED BY <3>2, <3>3
    <2> QED BY <1>6, <2>1, <2>2 DEF Park, TypeOK, QuotaSettledOnce
  <1>7. CASE Complete(w)
    <2>1. wk' \in [Workers -> Worker]
      BY <1>7, RestType DEF Complete
    <2>2. op' \in [Types -> Op]
      <3>1. CASE UNCHANGED op
        BY <3>1 DEF TypeOK
      <3>2. CASE op' = [op EXCEPT ![wk[w].type].phase = "succeeded",
                                  ![wk[w].type].leased = FALSE]
        BY <1>0, <3>2 DEF TypeOK, Op
      <3> QED BY <1>7, <3>1, <3>2 DEF Complete
    <2> QED BY <1>7, <2>1, <2>2 DEF Complete, TypeOK, QuotaSettledOnce
  <1> QED BY <1>1, <1>2, <1>3, <1>4, <1>5, <1>6, <1>7 DEF Common

\* A step that only moves its own worker.
LEMMA LocalTyped ==
  ASSUME Typed, wk' \in [Workers -> Worker], op' \in [Types -> Op],
         intent' \in {"none", "pending", "confirmed"},
         sent' \in BOOLEAN, paid' \in BOOLEAN,
         UNCHANGED <<life, quota, chain, time, expiry, rescue>>
  PROVE  Typed'
  BY DEF Typed, TypeOK, QuotaSettledOnce

LEMMA ActivationTyped ==
  ASSUME Typed, NEW w \in Workers, Activation(w) PROVE Typed'
  <1> USE DEF ledger, world, jobs
  <1>0. /\ wk[w] \in Worker /\ op \in [Types -> Op] /\ TypeOK /\ QuotaSettledOnce
        /\ intent \in {"none", "pending", "confirmed"}
        /\ sent \in BOOLEAN /\ paid \in BOOLEAN /\ life \in Life
    BY DEF Typed, TypeOK
  <1>1. CASE ActivateStart(w)
    <2>1. wk' \in [Workers -> Worker]
      <3>1. CASE Activating
        <4> DEFINE pc == IF wk[w].op.tx THEN "confirm" ELSE "probe"
        <4>1. [wk[w] EXCEPT !.seen = life, !.pc = pc] \in Worker
          BY <1>0 DEF Worker, Steps
        <4>2. wk' = [wk EXCEPT ![w] = [wk[w] EXCEPT !.seen = life, !.pc = pc]]
          BY <1>0, <1>1, <3>1 DEF ActivateStart, TypeOK
        <4> QED BY <1>0, <4>1, <4>2 DEF TypeOK
      <3>2. CASE ~Activating
        <4>1. Goto(w, IF AlreadyActive THEN "finish" ELSE "idle")
          BY <1>1, <3>2 DEF ActivateStart
        <4> QED BY <1>0, <4>1, GotoType DEF Steps
      <3> QED BY <3>1, <3>2
    <2> QED BY <1>0, <1>1, <2>1, LocalTyped DEF ActivateStart
  <1>2. CASE Probe(w)
    <2>1. wk' \in [Workers -> Worker]
      <3>1. PICK pc \in {"finalize", "submit", "idle"} : Goto(w, pc)
        BY <1>2 DEF Probe
      <3> QED BY <1>0, <3>1, GotoType DEF Steps
    <2> QED BY <1>0, <1>2, <2>1, LocalTyped DEF Probe
  <1>3. CASE SubmitActivation(w)
    <2>1. wk' \in [Workers -> Worker]
      BY <1>0, <1>3, GotoType, RestType DEF SubmitActivation, Steps
    <2>2. op' \in [Types -> Op]
      BY <1>0, <1>3, WriteType DEF SubmitActivation
    <2>3. sent' \in BOOLEAN
      BY <1>0, <1>3 DEF SubmitActivation
    <2> QED BY <1>0, <1>3, <2>1, <2>2, <2>3, LocalTyped DEF SubmitActivation
  <1>4. CASE RecordActivation(w)
    <2>1. wk' \in [Workers -> Worker]
      BY <1>0, <1>4, GotoType, RestType DEF RecordActivation, Steps
    <2>2. op' \in [Types -> Op]
      BY <1>0, <1>4, WriteType DEF RecordActivation
    <2> QED BY <1>0, <1>4, <2>1, <2>2, LocalTyped DEF RecordActivation
  <1>5. CASE Confirm(w)
    <2>1. wk' \in [Workers -> Worker]
      <3>1. PICK pc \in {"finalize", "idle"} : Goto(w, pc)
        BY <1>5 DEF Confirm
      <3> QED BY <1>0, <3>1, GotoType DEF Steps
    <2> QED BY <1>0, <1>5, <2>1, LocalTyped DEF Confirm
  <1>6. CASE FinalizeActivation(w)
    <2>1. wk' \in [Workers -> Worker]
      BY <1>0, <1>6, GotoType, RestType DEF FinalizeActivation, Steps
    <2>2. CASE UNCHANGED <<life, quota, op>>
      BY <1>0, <1>6, <2>1, <2>2, LocalTyped DEF FinalizeActivation
    <2>3. CASE CanSettleFunding(wk[w].seen, Activated) /\ StartRunning
      <3>1. /\ life' \in Life /\ life'.quota = "consumed"
            /\ quota' = [reserved |-> 0, used |-> 1]
        BY <1>0, <2>3, FundingSettled, Patches DEF StartRunning
      <3>2. op' \in [Types -> Op]
        BY <1>0, <2>3, EnqueueType DEF StartRunning
      <3> QED BY <1>6, <2>1, <3>1, <3>2
              DEF FinalizeActivation, Typed, TypeOK, QuotaSettledOnce
    <2> QED BY <1>6, <2>2, <2>3 DEF FinalizeActivation
  <1> QED BY <1>1, <1>2, <1>3, <1>4, <1>5, <1>6 DEF Activation

\* A step that ends the research, or leaves the record alone.
LEMMA EndTyped ==
  ASSUME Typed, wk' \in [Workers -> Worker], op' \in [Types -> Op],
         life' \in Life, life'.quota = life.quota,
         UNCHANGED <<ledger, world, jobs>>
  PROVE  Typed'
  BY DEF Typed, TypeOK, QuotaSettledOnce, ledger, world, jobs

LEMMA RunTyped ==
  ASSUME Typed, NEW w \in Workers, Run(w) PROVE Typed'
  <1> USE DEF ledger, world, jobs
  <1>0. /\ wk[w] \in Worker /\ op \in [Types -> Op] /\ TypeOK /\ QuotaSettledOnce
        /\ intent \in {"none", "pending", "confirmed"}
        /\ sent \in BOOLEAN /\ paid \in BOOLEAN /\ life \in Life
    BY DEF Typed, TypeOK
  <1>1. CASE RunStart(w)
    <2>1. PICK pc \in {"idle", "fail_run", "checkpoint"} : Goto(w, pc) \/ Rest(w)
      BY <1>1 DEF RunStart
    <2>2. wk' \in [Workers -> Worker]
      BY <1>0, <2>1, GotoType, RestType DEF Steps
    <2> QED BY <1>0, <1>1, <2>2, LocalTyped DEF RunStart
  <1>2. CASE FailReclaimedRun(w)
    <2>1. wk' \in [Workers -> Worker]
      BY <1>0, <1>2, GotoType, RestType DEF FailReclaimedRun, Steps
    <2>2. life' \in Life /\ life'.quota = life.quota /\ op' \in [Types -> Op]
      <3>1. CASE UNCHANGED <<life, op>>
        BY <1>0, <3>1
      <3>2. CASE CanMove(Open, Ending("failed")) /\ Finish("failed", {"CLOSE"})
        <4>1. CanMove(life, Ending("failed"))
          BY <3>2 DEF CanMove
        <4> QED BY <1>0, <3>2, <4>1, FinishType
      <3> QED BY <1>2, <3>1, <3>2 DEF FailReclaimedRun
    <2> QED BY <1>2, <2>1, <2>2, EndTyped DEF FailReclaimedRun
  <1>3. CASE Checkpoint(w)
    <2>1. wk' \in [Workers -> Worker]
      BY <1>0, <1>3, GotoType, RestType DEF Checkpoint, Steps
    <2> QED BY <1>0, <1>3, <2>1, LocalTyped DEF Checkpoint
  <1>4. CASE Stale(w)
    <2>1. wk' \in [Workers -> Worker]
      BY <1>0, <1>4, RestType DEF Stale
    <2> QED BY <1>0, <1>4, <2>1, LocalTyped DEF Stale
  <1>5. CASE AskToPay(w)
    <2>1. wk' \in [Workers -> Worker]
      BY <1>0, <1>5, GotoType DEF AskToPay, Steps
    <2> QED BY <1>0, <1>5, <2>1, LocalTyped DEF AskToPay
  <1>6. CASE Pay(w)
    <2>1. wk' \in [Workers -> Worker]
      BY <1>0, <1>6, GotoType DEF Pay, Steps
    <2>2. intent' \in {"none", "pending", "confirmed"}
      BY <1>0, <1>6 DEF Pay
    <2> QED BY <1>0, <1>6, <2>1, <2>2, LocalTyped DEF Pay
  <1>7. CASE AgentFails(w)
    <2>1. wk' \in [Workers -> Worker]
      BY <1>0, <1>7, GotoType DEF AgentFails, Steps
    <2>2. life' \in Life /\ life'.quota = life.quota
      <3>1. CASE UNCHANGED life
        BY <1>0, <3>1
      <3>2. CASE \E status \in {"failed", "cancelled"} : WriteStatus(status)
        BY <1>0, <3>2, WriteStatusType, WriteStatusQuota
      <3> QED BY <1>7, <3>1, <3>2 DEF AgentFails
    <2> QED BY <1>0, <1>7, <2>1, <2>2, EndTyped DEF AgentFails
  <1>8. CASE AgentReports(w)
    <2>1. PICK pc \in {"report", "finish"} : Goto(w, pc)
      BY <1>8 DEF AgentReports
    <2>2. wk' \in [Workers -> Worker]
      BY <1>0, <2>1, GotoType DEF Steps
    <2>3. life' \in Life /\ life'.quota = life.quota
      <3>1. CASE UNCHANGED life
        BY <1>0, <3>1
      <3>2. CASE WriteStatus("completed")
        BY <1>0, <3>2, WriteStatusType, WriteStatusQuota
      <3> QED BY <1>8, <3>1, <3>2 DEF AgentReports
    <2> QED BY <1>0, <1>8, <2>2, <2>3, EndTyped DEF AgentReports
  <1>9. CASE Report(w)
    <2>1. wk' \in [Workers -> Worker]
      <3>1. CASE Rest(w)
        BY <1>0, <3>1, RestType
      <3>2. CASE Holds(w)
        <4> DEFINE owed == (intent # "none")
        <4> DEFINE pc == IF life = Open THEN "close" ELSE "finish"
        <4>0. owed \in BOOLEAN /\ pc \in Steps
          BY DEF Steps
        <4>1. wk' = [wk EXCEPT ![w] = [wk[w] EXCEPT !.seen = life, !.owed = owed,
                                                    !.pc = pc]]
          BY <1>0, <1>9, <3>2 DEF Report, TypeOK
        <4> HIDE DEF owed, pc
        <4>2. [wk[w] EXCEPT !.seen = life, !.owed = owed, !.pc = pc] \in Worker
          BY <1>0, <4>0 DEF Worker
        <4> QED BY <1>0, <4>1, <4>2 DEF TypeOK
      <3> QED BY <1>9, <3>1, <3>2 DEF Report
    <2> QED BY <1>0, <1>9, <2>1, LocalTyped DEF Report
  <1>10. CASE CloseReport(w)
    <2>1. wk' \in [Workers -> Worker]
      BY <1>0, <1>10, GotoType, RestType DEF CloseReport, Steps
    <2>2. life' \in Life /\ life'.quota = life.quota /\ op' \in [Types -> Op]
      <3>1. CASE UNCHANGED <<life, op>>
        BY <1>0, <3>1
      <3>2. CASE /\ CanMove(wk[w].seen, Ending("completed"))
                 /\ \E S : Finish("completed", S)
        <4>1. CanMove(life, Ending("completed"))
          BY <3>2 DEF CanMove
        <4> QED BY <1>0, <3>2, <4>1, FinishType
      <3> QED BY <1>10, <3>1, <3>2 DEF CloseReport
    <2> QED BY <1>10, <2>1, <2>2, EndTyped DEF CloseReport
  <1> QED BY <1>1, <1>2, <1>3, <1>4, <1>5, <1>6, <1>7, <1>8, <1>9, <1>10 DEF Run

LEMMA SettlementTyped ==
  ASSUME Typed, NEW w \in Workers, Settlement(w) PROVE Typed'
  <1> USE DEF ledger, world, jobs
  <1>0. /\ wk[w] \in Worker /\ op \in [Types -> Op] /\ TypeOK
        /\ intent \in {"none", "pending", "confirmed"}
        /\ sent \in BOOLEAN /\ paid \in BOOLEAN
    BY DEF Typed, TypeOK
  <1>1. CASE SettleStart(w)
    <2>1. PICK pc \in {"mark", "submit_batch", "throw"} : Goto(w, pc)
      BY <1>1 DEF SettleStart
    <2>2. wk' \in [Workers -> Worker]
      BY <1>0, <2>1, GotoType DEF Steps
    <2> QED BY <1>0, <1>1, <2>2, LocalTyped DEF SettleStart
  <1>2. CASE CloseStart(w)
    <2>1. wk' \in [Workers -> Worker]
      BY <1>0, <1>2, GotoType DEF CloseStart, Steps
    <2> QED BY <1>0, <1>2, <2>1, LocalTyped DEF CloseStart
  <1>3. CASE SubmitBatch(w)
    <2>1. wk' \in [Workers -> Worker]
      BY <1>0, <1>3, GotoType DEF SubmitBatch, Steps
    <2> QED BY <1>0, <1>3, <2>1, LocalTyped DEF SubmitBatch
  <1>4. CASE MarkConfirmed(w)
    <2>1. wk' \in [Workers -> Worker]
      BY <1>0, <1>4, GotoType DEF MarkConfirmed, Steps
    <2>2. intent' \in {"none", "pending", "confirmed"}
      BY <1>0, <1>4 DEF MarkConfirmed
    <2> QED BY <1>0, <1>4, <2>1, <2>2, LocalTyped DEF MarkConfirmed
  <1>5. CASE RecordBatch(w)
    <2>1. wk' \in [Workers -> Worker]
      BY <1>0, <1>5, GotoType DEF RecordBatch, Steps
    <2>2. op' \in [Types -> Op]
      BY <1>0, <1>5, WriteType DEF RecordBatch
    <2> QED BY <1>0, <1>5, <2>1, <2>2, LocalTyped DEF RecordBatch
  <1>6. CASE EnqueueClose(w)
    <2>1. wk' \in [Workers -> Worker]
      BY <1>0, <1>6, GotoType DEF EnqueueClose, Steps
    <2>2. op' \in [Types -> Op]
      BY <1>0, <1>6, EnqueueType DEF EnqueueClose
    <2> QED BY <1>0, <1>6, <2>1, <2>2, LocalTyped DEF EnqueueClose
  <1> QED BY <1>1, <1>2, <1>3, <1>4, <1>5, <1>6 DEF Settlement

LEMMA NextTyped == Typed /\ [Next]_vars => Typed'
  <1> SUFFICES ASSUME Typed, [Next]_vars PROVE Typed'
    OBVIOUS
  <1>1. CASE UNCHANGED vars
    BY <1>1 DEF vars, Typed, TypeOK, QuotaSettledOnce
  <1>2. CASE Next
    BY <1>2, ApiTyped, ExpiryTyped, OperatorTyped, OutsideTyped, LeaseTyped,
       CommonTyped, ActivationTyped, RunTyped, SettlementTyped DEF Next
  <1> QED BY <1>1, <1>2

\* Every reachable state is well typed, for any configuration. The quota
\* bookkeeping is part of the invariant: without it the bucket could be
\* decremented below zero.
THEOREM FlowTypeCorrect == Spec => []TypeOK
  <1>1. Typed => TypeOK
    BY DEF Typed
  <1> QED BY <1>1, InitTyped, NextTyped, PTL DEF Spec

\* A reservation is consumed or released exactly once, whichever of the
\* activation workers and the expiry job decides the research first.
THEOREM QuotaOnce == Spec => []QuotaSettledOnce
  <1>1. Typed => QuotaSettledOnce
    BY DEF Typed
  <1> QED BY <1>1, InitTyped, NextTyped, PTL DEF Spec

-----------------------------------------------------------------------------
(* Who may run, and who may expire. The invariant adds what the two deciders     *)
(* learned from the chain: their knowledge stays true while they wait to write,  *)
(* since an active escrow stays active and none activates after the deadline.    *)
Knowledge ==
  /\ \A w \in Workers : wk[w].pc = "finalize" => chain = "active"
  /\ expiry.pc = "start" => chain = "active"
  /\ expiry.pc = "expire" \/ life.status = "funding_expired"
       => time = "after" /\ chain # "active"

FundedInv == Knowledge /\ RunIsFunded /\ RunningHasRun

\* What most steps amount to for these invariants: nobody learns anything, RUN is
\* neither queued nor removed, and a status changes only by ending what ran.
Quiet ==
  /\ UNCHANGED <<chain, time, quota, expiry>>
  /\ life'.status = life.status \/ /\ life.status \notin Ended
                                    /\ life'.status \in {"completed", "failed", "cancelled"}
  /\ op'["RUN"].phase = "absent" <=> op["RUN"].phase = "absent"
  /\ \A v \in Workers : wk'[v].pc = "finalize" => wk[v].pc = "finalize" \/ chain = "active"

LEMMA QuietKeeps == ASSUME FundedInv, Quiet PROVE FundedInv'
  BY DEF FundedInv, Quiet, Knowledge, RunIsFunded, RunningHasRun

LEMMA GotoQuiet ==
  ASSUME TypeOK, NEW w \in Workers, NEW pc, pc # "finalize", Goto(w, pc) \/ Rest(w)
  PROVE  \A v \in Workers : wk'[v].pc = "finalize" => wk[v].pc = "finalize"
  <1>1. Resting.pc = "idle"
    BY DEF Resting
  <1>2. ASSUME NEW v \in Workers, v # w PROVE wk'[v] = wk[v]
    BY <1>2 DEF TypeOK, Goto, Rest
  <1>3. wk'[w].pc \in {"idle", pc}
    BY <1>1 DEF TypeOK, Worker, Goto, Rest
  <1> QED BY <1>2, <1>3

LEMMA EnqueueQuiet ==
  ASSUME TypeOK, NEW S, Enqueue(S), "RUN" \notin S
  PROVE  op'["RUN"] = op["RUN"]
  BY DEF Enqueue, Types

LEMMA WriteQuiet ==
  ASSUME TypeOK, NEW w \in Workers, NEW value, NEW field \in {"leased", "tx"},
         Write(w, field, value)
  PROVE  op'["RUN"].phase = op["RUN"].phase
  <1>1. wk[w].type \in Types /\ "RUN" \in Types
    BY DEF TypeOK, Worker, Types
  <1>2. CASE wk[w].type # "RUN"
    BY <1>1, <1>2 DEF TypeOK, Write
  <1>3. CASE wk[w].type = "RUN"
    <2>1. op'["RUN"] = [op["RUN"] EXCEPT ![field] = value]
      BY <1>1, <1>3 DEF TypeOK, Write
    <2> QED BY <1>1, <2>1 DEF TypeOK, Op
  <1> QED BY <1>2, <1>3

\* No table leads out of an ended status.
LEMMA EndedStays ==
  ASSUME NEW a, NEW b, <<a, b>> \in Moves["status"]
  PROVE  a \notin Ended
  BY DEF Moves, Ended

LEMMA AllowedStatus ==
  ASSUME TypeOK, NEW e, NEW p, CanMove(e, p), Move(p), "status" \in DOMAIN p
  PROVE  life'.status = p["status"] /\ (life.status \in Ended => life'.status = life.status)
  <1>1. life'.status = p["status"]
    BY PatchFields DEF TypeOK, Move
  <1> QED BY <1>1, EndedStays DEF CanMove, Allowed

LEMMA OtherStatus ==
  ASSUME TypeOK, NEW p, Move(p), DOMAIN p \subseteq {"activation", "finalization", "quota"}
  PROVE  life'.status = life.status
  BY PatchFields DEF TypeOK, Move

LEMMA FinishQuiet ==
  ASSUME TypeOK, NEW s \in {"completed", "failed", "cancelled"}, NEW S, "RUN" \notin S,
         CanMove(life, Ending(s)), Finish(s, S)
  PROVE  /\ life'.status \in {"completed", "failed", "cancelled"}
         /\ life.status \in Ended => life'.status = life.status
         /\ op'["RUN"] = op["RUN"]
  <1>1. DOMAIN Ending(s) = {"status", "finalization"} /\ Ending(s)["status"] = s
    BY DEF Ending
  <1>2. Move(Ending(s)) /\ Enqueue(S)
    BY DEF Finish
  <1> QED BY <1>1, <1>2, AllowedStatus, EnqueueQuiet

LEMMA WriteStatusQuiet ==
  ASSUME TypeOK, NEW s, WriteStatus(s)
  PROVE  life'.status = s
  BY DEF TypeOK, WriteStatus, Life

\* A step that neither writes the record nor touches what Quiet names.
LEMMA LocalQuiet ==
  ASSUME UNCHANGED <<life, quota, chain, time, expiry>>,
         op'["RUN"].phase = op["RUN"].phase,
         \A v \in Workers : wk'[v].pc = "finalize" => wk[v].pc = "finalize"
  PROVE  Quiet
  BY DEF Quiet

LEMMA ApiQuiet == ASSUME TypeOK, Api PROVE Quiet
  <1> USE DEF ledger, world, jobs
  <1>1. CASE Start
    <2> DEFINE p == [activation |-> "activating", quota |-> "activating"]
    <2>1. life'.status = life.status
      <3>1. DOMAIN p = {"activation", "quota"}
        OBVIOUS
      <3> QED BY <1>1, <3>1, OtherStatus DEF Start
    <2>2. op'["RUN"] = op["RUN"]
      BY <1>1, EnqueueQuiet DEF Start
    <2> QED BY <1>1, <2>1, <2>2 DEF Start, Quiet
  <1>2. CASE Cancel
    <2>1. life.status = "running" /\ "running" \notin Ended
      BY <1>2 DEF Cancel, Ended
    <2>2. life'.status = "cancelled" /\ op'["RUN"] = op["RUN"]
      <3>1. CASE life = Open
        <4>1. Finish("cancelled", {"CLOSE"})
          BY <1>2, <3>1 DEF Cancel
        <4>2. DOMAIN Ending("cancelled") = {"status", "finalization"}
              /\ Ending("cancelled")["status"] = "cancelled"
          BY DEF Ending
        <4> QED BY <4>1, <4>2, PatchFields, EnqueueQuiet DEF Finish, Move, TypeOK
      <3>2. CASE life # Open
        BY <1>2, <3>2, WriteStatusQuiet DEF Cancel
      <3> QED BY <3>1, <3>2
    <2> QED BY <1>2, <2>1, <2>2 DEF Cancel, Quiet
  <1> QED BY <1>1, <1>2 DEF Api

LEMMA OperatorQuiet == ASSUME TypeOK, Operator PROVE Quiet
  <1> USE DEF ledger, world
  <1>1. ASSUME NEW t \in Types, Recover(t) PROVE Quiet
    <2>1. PICK phase \in {"live", "succeeded"} : op' = [op EXCEPT ![t].phase = phase]
      BY <1>1 DEF Recover
    <2>2. op[t].phase = "manual" /\ "RUN" \in Types
      BY <1>1 DEF Recover, Types
    <2>3. op'["RUN"].phase = "absent" <=> op["RUN"].phase = "absent"
      BY <2>1, <2>2 DEF TypeOK, Op
    <2> QED BY <1>1, <2>3 DEF Recover, Quiet
  <1>2. CASE RecoverRead
    BY <1>2 DEF RecoverRead, Quiet
  <1>3. CASE RecoverWrite
    <2>1. life'.status = life.status
      <3> DEFINE p == [finalization |-> rescue.to]
      <3>1. DOMAIN p = {"finalization"}
        OBVIOUS
      <3> QED BY <1>3, <3>1, OtherStatus DEF RecoverWrite
    <2> QED BY <1>3, <2>1 DEF RecoverWrite, Quiet
  <1> QED BY <1>1, <1>2, <1>3 DEF Operator

LEMMA LeaseQuiet == ASSUME TypeOK, NEW t \in Types, LeaseEnds(t) PROVE Quiet
  <1>1. op'["RUN"].phase = op["RUN"].phase
    BY DEF LeaseEnds, TypeOK, Op, Types
  <1> QED BY <1>1 DEF LeaseEnds, Quiet, ledger, world, jobs

LEMMA CommonQuiet == ASSUME TypeOK, NEW w \in Workers, Common(w) PROVE Quiet
  <1> USE DEF ledger, world, jobs
  <1>0. wk[w] \in Worker /\ wk[w].type \in Types /\ "RUN" \in Types
    BY DEF TypeOK, Worker, Types
  <1>1. CASE Claim(w)
    <2>1. PICK t \in Types :
            /\ op' = [op EXCEPT ![t] = Taken(op[t])]
            /\ wk' = [wk EXCEPT ![w] = [Resting EXCEPT !.pc = "start", !.type = t,
                                                       !.op = Taken(op[t])]]
      BY <1>1 DEF Claim
    <2>2. Taken(op[t]).phase = op[t].phase
      BY DEF Taken, TypeOK, Op
    <2>3. op'["RUN"].phase = op["RUN"].phase
      BY <1>0, <2>1, <2>2 DEF TypeOK
    <2>4. \A v \in Workers : wk'[v].pc = "finalize" => wk[v].pc = "finalize"
      BY <2>1 DEF TypeOK, Resting
    <2> QED BY <1>1, <2>3, <2>4, LocalQuiet DEF Claim
  <1>2. CASE Fault(w)
    BY <1>2, GotoQuiet, LocalQuiet DEF Fault
  <1>3. CASE Crash(w)
    BY <1>3, GotoQuiet, LocalQuiet DEF Crash
  <1>4. CASE Throw(w)
    <2>1. \A v \in Workers : wk'[v].pc = "finalize" => wk[v].pc = "finalize"
      BY <1>4, GotoQuiet DEF Throw
    <2>2. op'["RUN"].phase = "absent" <=> op["RUN"].phase = "absent"
      <3>1. CASE UNCHANGED op
        BY <3>1
      <3>2. CASE Holds(w) /\ op' = [op EXCEPT ![wk[w].type].phase = "manual",
                                              ![wk[w].type].leased = FALSE]
        BY <1>0, <3>2 DEF TypeOK, Op, Holds
      <3>3. CASE Write(w, "leased", FALSE)
        BY <3>3, WriteQuiet
      <3> QED BY <1>4, <3>1, <3>2, <3>3 DEF Throw
    <2> QED BY <1>4, <2>1, <2>2 DEF Throw, Quiet
  <1>5. CASE Manual(w)
    <2>1. \A v \in Workers : wk'[v].pc = "finalize" => wk[v].pc = "finalize"
      <3>1. CASE Rest(w)
        BY <3>1, GotoQuiet
      <3>2. CASE wk' = [wk EXCEPT ![w].pc = "park", ![w].seen = life]
        BY <1>0, <3>2 DEF TypeOK, Worker
      <3> QED BY <1>5, <3>1, <3>2 DEF Manual
    <2> QED BY <1>5, <2>1, LocalQuiet DEF Manual
  <1>6. CASE Park(w)
    <2>1. \A v \in Workers : wk'[v].pc = "finalize" => wk[v].pc = "finalize"
      BY <1>6, GotoQuiet DEF Park
    <2>2. life'.status = life.status
      <3> DEFINE p == [finalization |-> "manual"]
      <3>1. DOMAIN p = {"finalization"}
        OBVIOUS
      <3> QED BY <1>6, <3>1, OtherStatus DEF Park
    <2> QED BY <1>6, <2>1, <2>2 DEF Park, Quiet
  <1>7. CASE Complete(w)
    <2>1. \A v \in Workers : wk'[v].pc = "finalize" => wk[v].pc = "finalize"
      BY <1>7, GotoQuiet DEF Complete
    <2>2. op'["RUN"].phase = "absent" <=> op["RUN"].phase = "absent"
      <3>1. CASE UNCHANGED op
        BY <3>1
      <3>2. CASE Holds(w) /\ op' = [op EXCEPT ![wk[w].type].phase = "succeeded",
                                              ![wk[w].type].leased = FALSE]
        BY <1>0, <3>2 DEF TypeOK, Op, Holds
      <3> QED BY <1>7, <3>1, <3>2 DEF Complete
    <2> QED BY <1>7, <2>1, <2>2 DEF Complete, Quiet
  <1> QED BY <1>1, <1>2, <1>3, <1>4, <1>5, <1>6, <1>7 DEF Common

LEMMA RunQuiet == ASSUME TypeOK, NEW w \in Workers, Run(w) PROVE Quiet
  <1> USE DEF ledger, world, jobs
  <1>0. /\ wk[w] \in Worker /\ wk[w].type \in Types
        /\ "running" \notin Ended
    BY DEF TypeOK, Worker, Ended
  <1> DEFINE Still == \A v \in Workers : wk'[v].pc = "finalize" => wk[v].pc = "finalize"
  <1>1. CASE RunStart(w)
    <2>1. PICK pc \in {"idle", "fail_run", "checkpoint"} : Goto(w, pc) \/ Rest(w)
      BY <1>1 DEF RunStart
    <2>2. Still
      BY <2>1, GotoQuiet
    <2> QED BY <1>1, <2>2, LocalQuiet DEF RunStart
  <1>2. CASE FailReclaimedRun(w)
    <2>1. Still
      BY <1>2, GotoQuiet DEF FailReclaimedRun
    <2>2. CASE UNCHANGED <<life, op>>
      BY <1>2, <2>1, <2>2, LocalQuiet DEF FailReclaimedRun
    <2>3. CASE CanMove(Open, Ending("failed")) /\ Finish("failed", {"CLOSE"})
      <3>1. CanMove(life, Ending("failed"))
        BY <2>3 DEF CanMove
      <3>2. /\ life'.status \in {"completed", "failed", "cancelled"}
            /\ life.status \in Ended => life'.status = life.status
            /\ op'["RUN"] = op["RUN"]
        BY <2>3, <3>1, FinishQuiet
      <3> QED BY <1>2, <2>1, <3>2 DEF FailReclaimedRun, Quiet
    <2> QED BY <1>2, <2>2, <2>3 DEF FailReclaimedRun
  <1>3. CASE Checkpoint(w)
    <2>1. Still
      BY <1>3, GotoQuiet DEF Checkpoint
    <2> QED BY <1>3, <2>1, LocalQuiet DEF Checkpoint
  <1>4. CASE Stale(w)
    <2>1. Still
      BY <1>4, GotoQuiet DEF Stale
    <2> QED BY <1>4, <2>1, LocalQuiet DEF Stale
  <1>5. CASE AskToPay(w)
    <2>1. Still
      BY <1>5, GotoQuiet DEF AskToPay
    <2> QED BY <1>5, <2>1, LocalQuiet DEF AskToPay
  <1>6. CASE Pay(w)
    <2>1. Still
      BY <1>6, GotoQuiet DEF Pay
    <2> QED BY <1>6, <2>1, LocalQuiet DEF Pay
  <1>7. CASE AgentFails(w)
    <2>1. Still
      BY <1>7, GotoQuiet DEF AgentFails
    <2>2. CASE UNCHANGED life
      BY <1>7, <2>1, <2>2, LocalQuiet DEF AgentFails
    <2>3. CASE /\ life.status = "running"
               /\ \E status \in {"failed", "cancelled"} : WriteStatus(status)
      <3>1. life'.status \in {"failed", "cancelled"}
        BY <2>3, WriteStatusQuiet
      <3> QED BY <1>0, <1>7, <2>1, <2>3, <3>1 DEF AgentFails, Quiet
    <2> QED BY <1>7, <2>2, <2>3 DEF AgentFails
  <1>8. CASE AgentReports(w)
    <2>1. PICK pc \in {"report", "finish"} : Goto(w, pc)
      BY <1>8 DEF AgentReports
    <2>2. Still
      BY <2>1, GotoQuiet
    <2>3. CASE UNCHANGED life
      BY <1>8, <2>2, <2>3, LocalQuiet DEF AgentReports
    <2>4. CASE life.status = "running" /\ WriteStatus("completed")
      <3>1. life'.status = "completed"
        BY <2>4, WriteStatusQuiet
      <3> QED BY <1>0, <1>8, <2>2, <2>4, <3>1 DEF AgentReports, Quiet
    <2> QED BY <1>8, <2>3, <2>4 DEF AgentReports
  <1>9. CASE Report(w)
    <2>1. Still
      <3>1. CASE Rest(w)
        BY <3>1, GotoQuiet
      <3>2. CASE wk' = [wk EXCEPT ![w].seen = life, ![w].owed = (intent # "none"),
                                  ![w].pc = IF life = Open THEN "close" ELSE "finish"]
        BY <1>0, <3>2 DEF TypeOK, Worker
      <3> QED BY <1>9, <3>1, <3>2 DEF Report
    <2> QED BY <1>9, <2>1, LocalQuiet DEF Report
  <1>10. CASE CloseReport(w)
    <2>1. Still
      BY <1>10, GotoQuiet DEF CloseReport
    <2>2. CASE UNCHANGED <<life, op>>
      BY <1>10, <2>1, <2>2, LocalQuiet DEF CloseReport
    <2>3. CASE /\ CanMove(wk[w].seen, Ending("completed"))
               /\ Finish("completed", {"CLOSE"} \union
                    (IF wk[w].owed THEN {"SETTLE", "RECONCILE"} ELSE {}))
      <3>1. CanMove(life, Ending("completed"))
        BY <2>3 DEF CanMove
      <3>2. /\ life'.status \in {"completed", "failed", "cancelled"}
            /\ life.status \in Ended => life'.status = life.status
            /\ op'["RUN"] = op["RUN"]
        BY <2>3, <3>1, FinishQuiet
      <3> QED BY <1>10, <2>1, <3>2 DEF CloseReport, Quiet
    <2> QED BY <1>10, <2>2, <2>3 DEF CloseReport
  <1> QED BY <1>1, <1>2, <1>3, <1>4, <1>5, <1>6, <1>7, <1>8, <1>9, <1>10 DEF Run

LEMMA SettlementQuiet == ASSUME TypeOK, NEW w \in Workers, Settlement(w) PROVE Quiet
  <1> USE DEF ledger, world, jobs
  <1> DEFINE Still == \A v \in Workers : wk'[v].pc = "finalize" => wk[v].pc = "finalize"
  <1>1. CASE SettleStart(w)
    <2>1. PICK pc \in {"mark", "submit_batch", "throw"} : Goto(w, pc)
      BY <1>1 DEF SettleStart
    <2>2. Still
      BY <2>1, GotoQuiet
    <2> QED BY <1>1, <2>2, LocalQuiet DEF SettleStart
  <1>2. CASE CloseStart(w)
    BY <1>2, GotoQuiet, LocalQuiet DEF CloseStart
  <1>3. CASE SubmitBatch(w)
    BY <1>3, GotoQuiet, LocalQuiet DEF SubmitBatch
  <1>4. CASE MarkConfirmed(w)
    BY <1>4, GotoQuiet, LocalQuiet DEF MarkConfirmed
  <1>5. CASE RecordBatch(w)
    <2>1. Still
      BY <1>5, GotoQuiet DEF RecordBatch
    <2>2. op'["RUN"].phase = op["RUN"].phase
      BY <1>5, WriteQuiet DEF RecordBatch
    <2> QED BY <1>5, <2>1, <2>2, LocalQuiet DEF RecordBatch
  <1>6. CASE EnqueueClose(w)
    <2>1. Still
      BY <1>6, GotoQuiet DEF EnqueueClose
    <2>2. op'["RUN"] = op["RUN"]
      BY <1>6, EnqueueQuiet DEF EnqueueClose
    <2> QED BY <1>6, <2>1, <2>2, LocalQuiet DEF EnqueueClose
  <1> QED BY <1>1, <1>2, <1>3, <1>4, <1>5, <1>6 DEF Settlement

Outcome == life.status \in Ended => life'.status = life.status

\* The one transaction that starts a research, by whichever of the two deciders.
LEMMA StartRunningKeeps ==
  ASSUME Typed, FundedInv, NEW e, CanSettleFunding(e, Activated), StartRunning,
         chain = "active", UNCHANGED <<chain, time>>,
         expiry' = expiry \/ expiry' = NoCheck
  PROVE  FundedInv' /\ Outcome
  <1>1. life'.status = "running" /\ Outcome
    <2>1. CanMove(e, Activated) /\ Move(Activated)
      BY DEF CanSettleFunding, StartRunning
    <2>2. "status" \in DOMAIN Activated /\ Activated["status"] = "running"
      BY Patches DEF Dimensions
    <2> QED BY <2>1, <2>2, AllowedStatus DEF Typed, Outcome
  <1>2. quota'.used = 1
    <2>1. quota = [reserved |-> 1, used |-> 0]
      BY FundingSettled DEF StartRunning, Typed
    <2> QED BY <2>1 DEF StartRunning
  <1>3. op'["RUN"].phase # "absent"
    <2>1. op'["RUN"] = Enqueued("RUN")
      BY DEF StartRunning, Enqueue, Types
    <2>2. op["RUN"] \in Op
      BY DEF Typed, TypeOK, Types
    <2>3. CASE op["RUN"].phase = "absent"
      BY <2>1, <2>3 DEF Enqueued, NoOp
    <2>4. CASE op["RUN"].phase # "absent"
      <3>1. Taken(op["RUN"]).phase = op["RUN"].phase
        BY <2>2 DEF Taken, Op
      <3> QED BY <2>1, <2>4, <3>1 DEF Enqueued
    <2> QED BY <2>3, <2>4
  <1>4. expiry'.pc # "expire"
    BY DEF FundedInv, Knowledge, NoCheck
  <1> QED BY <1>1, <1>2, <1>3, <1>4 DEF FundedInv, Knowledge, RunIsFunded, RunningHasRun

LEMMA QuietSteps == ASSUME FundedInv, Quiet PROVE FundedInv' /\ Outcome
  BY QuietKeeps DEF Quiet, Outcome

LEMMA ActivationKeeps ==
  ASSUME Typed, FundedInv, NEW w \in Workers, Activation(w)
  PROVE  FundedInv' /\ Outcome
  <1> USE DEF ledger, world, jobs
  <1>0. TypeOK /\ wk[w] \in Worker
    BY DEF Typed, TypeOK
  <1> DEFINE Still == \A v \in Workers : wk'[v].pc = "finalize" => wk[v].pc = "finalize"
  <1>1. CASE ActivateStart(w)
    <2>1. Still
      <3>1. CASE Activating
        BY <1>0, <1>1, <3>1 DEF ActivateStart, TypeOK, Worker
      <3>2. CASE ~Activating
        <4>1. Goto(w, IF AlreadyActive THEN "finish" ELSE "idle")
          BY <1>1, <3>2 DEF ActivateStart
        <4> QED BY <1>0, <4>1, GotoQuiet
      <3> QED BY <3>1, <3>2
    <2> QED BY <1>1, <2>1, LocalQuiet, QuietSteps DEF ActivateStart
  <1>2. ASSUME Probe(w) \/ Confirm(w) PROVE FundedInv' /\ Outcome
    \* The answer "active" is only given by an active escrow.
    <2>1. PICK pc \in {"finalize", "submit", "idle"} :
            Goto(w, pc) /\ (pc = "finalize" => chain = "active")
      <3>1. \A answer \in Confirmations : answer = "active" => chain = "active"
        BY DEF Confirmations
      <3> QED BY <1>2, <3>1 DEF Probe, Confirm
    <2>2. \A v \in Workers : wk'[v].pc = "finalize"
                               => wk[v].pc = "finalize" \/ chain = "active"
      BY <1>0, <2>1, GotoQuiet
    <2>3. Quiet
      BY <1>2, <2>2 DEF Probe, Confirm, Quiet
    <2> QED BY <2>3, QuietSteps
  <1>3. CASE SubmitActivation(w)
    <2>1. Still
      BY <1>0, <1>3, GotoQuiet DEF SubmitActivation
    <2>2. op'["RUN"].phase = op["RUN"].phase
      BY <1>0, <1>3, WriteQuiet DEF SubmitActivation
    <2> QED BY <1>3, <2>1, <2>2, LocalQuiet, QuietSteps DEF SubmitActivation
  <1>4. CASE RecordActivation(w)
    <2>1. Still
      BY <1>0, <1>4, GotoQuiet DEF RecordActivation
    <2>2. op'["RUN"].phase = op["RUN"].phase
      BY <1>0, <1>4, WriteQuiet DEF RecordActivation
    <2> QED BY <1>4, <2>1, <2>2, LocalQuiet, QuietSteps DEF RecordActivation
  <1>5. CASE FinalizeActivation(w)
    <2>1. CASE CanSettleFunding(wk[w].seen, Activated)
      <3>1. chain = "active"
        BY <1>5 DEF FinalizeActivation, FundedInv, Knowledge
      <3> QED BY <1>5, <2>1, <3>1, StartRunningKeeps DEF FinalizeActivation
    <2>2. CASE ~CanSettleFunding(wk[w].seen, Activated)
      <3>1. Still
        BY <1>0, <1>5, <2>2, GotoQuiet DEF FinalizeActivation
      <3> QED BY <1>5, <2>2, <3>1, LocalQuiet, QuietSteps DEF FinalizeActivation
    <2> QED BY <2>1, <2>2
  <1> QED BY <1>1, <1>2, <1>3, <1>4, <1>5 DEF Activation

LEMMA ExpiryKeeps == ASSUME Typed, FundedInv, Expiry PROVE FundedInv' /\ Outcome
  <1> USE DEF ledger, world
  <1>1. CASE ExpiryRead
    BY <1>1 DEF ExpiryRead, FundedInv, Knowledge, RunIsFunded, RunningHasRun, Outcome
  <1>2. CASE ExpiryAsk
    \* "not_active" is only said when no activation can land any more.
    <2>1. /\ expiry'.pc = "expire" => time = "after" /\ chain # "active"
          /\ expiry'.pc = "start" => chain = "active"
      <3>1. PICK answer \in Reconciliations :
              expiry' =
                CASE answer = "not_active" -> [expiry EXCEPT !.pc = "expire"]
                  [] answer = "active" /\ expiry.seen.activation = "activating"
                                       /\ expiry.seen.quota = "activating"
                       -> [expiry EXCEPT !.pc = "start"]
                  [] OTHER -> NoCheck
        BY <1>2 DEF ExpiryAsk
      <3>2. /\ answer = "active" => chain = "active"
            /\ answer = "not_active" => time = "after" /\ chain # "active"
        BY DEF Reconciliations
      <3> QED BY <3>1, <3>2 DEF NoCheck, Typed, TypeOK
    <2> QED BY <1>2, <2>1
            DEF ExpiryAsk, FundedInv, Knowledge, RunIsFunded, RunningHasRun, Outcome
  <1>3. CASE ExpiryWrite
    <2>0. NoCheck.pc = "idle"
      BY DEF NoCheck
    <2>1. CASE UNCHANGED <<life, quota, op>>
      BY <1>3, <2>0, <2>1
         DEF ExpiryWrite, FundedInv, Knowledge, RunIsFunded, RunningHasRun, Outcome
    <2>2. CASE /\ expiry.pc = "start" /\ CanSettleFunding(expiry.seen, Activated)
               /\ StartRunning
      <3>1. chain = "active"
        BY <2>2 DEF FundedInv, Knowledge
      <3> QED BY <1>3, <2>2, <3>1, StartRunningKeeps DEF ExpiryWrite
    <2>3. CASE /\ expiry.pc = "expire" /\ CanSettleFunding(expiry.seen, Lapsed)
               /\ Move(Lapsed) /\ quota' = [quota EXCEPT !.reserved = @ - 1]
               /\ UNCHANGED op
      <3>1. time = "after" /\ chain # "active"
        BY <2>3 DEF FundedInv, Knowledge
      <3>2. life'.status = "funding_expired" /\ Outcome
        <4>1. "status" \in DOMAIN Lapsed /\ Lapsed["status"] = "funding_expired"
          BY Patches
        <4> QED BY <2>3, <4>1, AllowedStatus DEF CanSettleFunding, Typed, Outcome
      <3> QED BY <1>3, <2>0, <2>3, <3>1, <3>2
              DEF ExpiryWrite, FundedInv, Knowledge, RunIsFunded, RunningHasRun
    <2> QED BY <1>3, <2>1, <2>2, <2>3 DEF ExpiryWrite
  <1> QED BY <1>1, <1>2, <1>3 DEF Expiry

LEMMA OutsideKeeps == ASSUME Typed, FundedInv, Outside PROVE FundedInv' /\ Outcome
  <1> USE DEF ledger, jobs, FundedInv, Knowledge, RunIsFunded, RunningHasRun, Outcome
  <1>1. CASE Tick
    BY <1>1 DEF Tick
  <1>2. CASE Fund
    <2>1. life'.status = life.status
      <3>1. DOMAIN [activation |-> "funded"] = {"activation"}
        OBVIOUS
      <3> QED BY <1>2, <3>1, OtherStatus DEF Fund, Typed
    <2>2. chain = "none" /\ chain' = "funded"
      BY <1>2 DEF Fund
    <2> QED BY <1>2, <2>1, <2>2 DEF Fund
  <1>3. CASE Land
    BY <1>3 DEF Land
  <1> QED BY <1>1, <1>2, <1>3 DEF Outside

LEMMA InitFunded == Init => FundedInv
  <1> SUFFICES ASSUME Init PROVE FundedInv
    OBVIOUS
  <1>1. /\ life.status = "funding" /\ expiry.pc = "idle"
        /\ op["RUN"].phase = "absent" /\ \A w \in Workers : wk[w].pc = "idle"
    BY DEF Init, Prepared, NoCheck, NoOp, Types, Resting
  <1> QED BY <1>1 DEF FundedInv, Knowledge, RunIsFunded, RunningHasRun

LEMMA NextFunded == Typed /\ FundedInv /\ [Next]_vars => FundedInv' /\ Outcome
  <1> SUFFICES ASSUME Typed, FundedInv, [Next]_vars PROVE FundedInv' /\ Outcome
    OBVIOUS
  <1>1. CASE UNCHANGED vars
    BY <1>1 DEF vars, FundedInv, Knowledge, RunIsFunded, RunningHasRun, Outcome
  <1>2. CASE Api \/ Operator \/ \E t \in Types : LeaseEnds(t)
    BY <1>2, ApiQuiet, OperatorQuiet, LeaseQuiet, QuietSteps DEF Typed
  <1>3. CASE Expiry \/ Outside
    BY <1>3, ExpiryKeeps, OutsideKeeps
  <1>4. ASSUME NEW w \in Workers, Common(w) \/ Run(w) \/ Settlement(w)
        PROVE  FundedInv' /\ Outcome
    BY <1>4, CommonQuiet, RunQuiet, SettlementQuiet, QuietSteps DEF Typed
  <1>5. ASSUME NEW w \in Workers, Activation(w) PROVE FundedInv' /\ Outcome
    BY <1>5, ActivationKeeps
  <1> QED BY <1>1, <1>2, <1>3, <1>4, <1>5 DEF Next

LEMMA FundedAlways == Spec => [](Typed /\ FundedInv)
  BY InitTyped, NextTyped, InitFunded, NextFunded, PTL DEF Spec

\* The agent is only scheduled for an escrow that is active on chain and a quota
\* that was consumed for it, whatever broadcasts, retries and reclaims happen.
THEOREM FundedRun == Spec => []RunIsFunded
  <1>1. FundedInv => RunIsFunded
    BY DEF FundedInv
  <1> QED BY <1>1, FundedAlways, PTL

\* A research is never running without a RUN operation.
THEOREM RunIsQueued == Spec => []RunningHasRun
  <1>1. FundedInv => RunningHasRun
    BY DEF FundedInv
  <1> QED BY <1>1, FundedAlways, PTL

\* No research is declared expired while its escrow is, or can become, active:
\* the activation workers and the expiry job never both win.
THEOREM ExpiryIsSafe == Spec => []ExpiredIsUnfunded
  <1>1. FundedInv => ExpiredIsUnfunded
    BY DEF FundedInv, Knowledge, ExpiredIsUnfunded
  <1> QED BY <1>1, FundedAlways, PTL

\* Record, quota, chain and RUN operation agree on whether the research is on.
THEOREM OnIsFunded == Spec => []OnMeansFunded
  <1>1. RunIsFunded /\ RunningHasRun /\ ExpiredIsUnfunded => OnMeansFunded
    BY DEF OnMeansFunded
  <1> QED BY <1>1, FundedRun, RunIsQueued, ExpiryIsSafe, PTL

\* The first writer of an end wins: no late report, cancel, expiry or recovery
\* changes the outcome of a research that has ended.
THEOREM OutcomeHolds == Spec => OutcomeIsFinal
  <1>1. Typed /\ FundedInv /\ [Next]_vars
          => [life.status \in Ended => life'.status = life.status]_vars
    BY NextFunded DEF Outcome
  <1> QED BY <1>1, FundedAlways, PTL DEF Spec, OutcomeIsFinal

-----------------------------------------------------------------------------
(* Closing. For an operator who requeues closing operations only, the four        *)
(* dimensions never leave the legal combinations; and with an agent that leaves   *)
(* the record to the run worker, every end of a research has its CLOSE operation. *)
(* For any operator and any agent, a settlement that succeeded is paid, booked    *)
(* and closed.                                                                    *)

Ends         == {"completed", "failed", "cancelled"}
ClosingTypes == {"SETTLE", "RECONCILE", "CLOSE"}
SettleSteps  == {"submit_batch", "mark", "record_batch", "enqueue_close"}

\* A worker that is not idle handles an operation that exists; the settlement
\* steps are reached by SETTLE and RECONCILE only.
WorkerInv ==
  \A w \in Workers :
    /\ wk[w].pc # "idle" => op[wk[w].type].phase # "absent"
    /\ wk[w].pc \in SettleSteps => wk[w].type \in {"SETTLE", "RECONCILE"}

\* Closing operations, and a recovery under way, exist only after the end.
ClosingInv ==
  /\ LegalTuples /\ WorkerInv
  /\ \A t \in ClosingTypes : op[t].phase # "absent" => life.status \in Ends
  /\ rescue.pc # "idle" => life.status \in Ends

\* What every step does for this invariant.
Grows      == \A t \in Types : op[t].phase # "absent" => op'[t].phase # "absent"
NewAtEnd   == \A t \in ClosingTypes :
                op'[t].phase # "absent" => op[t].phase # "absent" \/ life'.status \in Ends
RescueAtEnd == rescue'.pc # "idle" => rescue.pc # "idle" \/ life'.status \in Ends
CloseQueued == life'.finalization \in {"closing", "manual"}
                 => \/ life.finalization \in {"closing", "manual"}
                    \/ op'["CLOSE"].phase # "absent"
Keeps == /\ Grows /\ NewAtEnd /\ RescueAtEnd /\ LegalTuples' /\ WorkerInv'
         /\ ~AgentOwnsStatus => CloseQueued

LEMMA KeepsInv ==
  ASSUME ClosingInv, Keeps, Outcome
  PROVE  ClosingInv'
  <1>1. life.status \in Ends => life'.status \in Ends
    BY DEF Outcome, Ended, Ends
  <1> QED BY <1>1 DEF ClosingInv, Keeps, NewAtEnd, RescueAtEnd

\* A step that leaves record and recovery alone.
LEMMA LocalKeeps ==
  ASSUME ClosingInv, UNCHANGED <<life, rescue>>, Grows, NewAtEnd, WorkerInv'
  PROVE  Keeps
  BY DEF ClosingInv, Keeps, LegalTuples, RescueAtEnd, CloseQueued

LEMMA SameOps == ASSUME op' = op PROVE Grows /\ NewAtEnd
  BY DEF Grows, NewAtEnd

\* A worker that goes on with its operation, or rests.
LEMMA GotoKeeps ==
  ASSUME TypeOK, WorkerInv, NEW w \in Workers, wk[w].pc # "idle", Grows, NEW pc,
         (Goto(w, pc) /\ (pc \in SettleSteps => wk[w].type \in {"SETTLE", "RECONCILE"}))
           \/ Rest(w)
  PROVE  WorkerInv'
  <1>1. ASSUME NEW v \in Workers, v # w PROVE wk'[v] = wk[v]
    BY <1>1 DEF TypeOK, Goto, Rest
  <1>2. wk[w] \in Worker /\ \A v \in Workers : wk[v].type \in Types
    BY DEF TypeOK, Worker
  <1>3. \/ wk'[w] = Resting
        \/ /\ wk'[w] = [wk[w] EXCEPT !.pc = pc]
           /\ pc \in SettleSteps => wk[w].type \in {"SETTLE", "RECONCILE"}
    BY DEF TypeOK, Goto, Rest
  <1>4. Resting.pc = "idle" /\ "idle" \notin SettleSteps
    BY DEF Resting, SettleSteps
  <1>5. \/ wk'[w].pc = "idle"
        \/ /\ wk'[w].pc = pc /\ wk'[w].type = wk[w].type
           /\ pc \in SettleSteps => wk[w].type \in {"SETTLE", "RECONCILE"}
    BY <1>2, <1>3, <1>4 DEF Worker
  <1> QED BY <1>1, <1>2, <1>4, <1>5 DEF WorkerInv, Grows

\* The workers stand still while operations are added.
LEMMA StillKeeps ==
  ASSUME TypeOK, WorkerInv, wk' = wk, Grows
  PROVE  WorkerInv'
  <1>1. \A v \in Workers : wk[v].type \in Types
    BY DEF TypeOK, Worker
  <1> QED BY <1>1 DEF WorkerInv, Grows

LEMMA EnqueueGrows ==
  ASSUME TypeOK, NEW S, Enqueue(S)
  PROVE  /\ Grows
         /\ \A t \in Types : t \notin S => op'[t] = op[t]
         /\ \A t \in Types \cap S : op'[t].phase # "absent"
  <1>1. ASSUME NEW t \in Types
        PROVE  Enqueued(t).phase # "absent"
    <2>1. op[t] \in Op
      BY DEF TypeOK
    <2>2. Taken(op[t]).phase = op[t].phase
      BY <2>1 DEF Taken, Op
    <2> QED BY <2>2 DEF Enqueued, NoOp
  <1> QED BY <1>1 DEF Enqueue, Grows

LEMMA WriteGrows ==
  ASSUME TypeOK, NEW w \in Workers, NEW value, NEW field \in {"leased", "tx"},
         Write(w, field, value)
  PROVE  Grows /\ NewAtEnd
  <1>1. wk[w].type \in Types
    BY DEF TypeOK, Worker
  <1>2. ASSUME NEW t \in Types PROVE op'[t].phase = op[t].phase
    <2>1. CASE t # wk[w].type
      BY <1>1, <2>1 DEF TypeOK, Write
    <2>2. CASE t = wk[w].type
      <3>1. op'[t] = [op[t] EXCEPT ![field] = value]
        BY <1>1, <2>2 DEF TypeOK, Write
      <3> QED BY <3>1 DEF TypeOK, Op
    <2> QED BY <2>1, <2>2
  <1> QED BY <1>2 DEF Grows, NewAtEnd, ClosingTypes, Types

\* The holder parks or completes its operation.
LEMMA PhaseGrows ==
  ASSUME TypeOK, NEW t \in Types, NEW p \in {"live", "manual", "succeeded"},
         op[t].phase # "absent",
         op' = [op EXCEPT ![t].phase = p, ![t].leased = FALSE]
           \/ op' = [op EXCEPT ![t].phase = p]
  PROVE  Grows /\ NewAtEnd
  <1>1. ASSUME NEW s \in Types PROVE op'[s].phase = IF s = t THEN p ELSE op[s].phase
    BY DEF TypeOK, Op
  <1> QED BY <1>1 DEF Grows, NewAtEnd, ClosingTypes, Types

-----------------------------------------------------------------------------
\* The record of an ended research.
Over(l) == /\ l.status \in Ends /\ l.activation = "active" /\ l.quota = "consumed"
           /\ l.finalization \in {"closing", "manual", "closed"}

LEMMA OverLegal == ASSUME Over(life') PROVE LegalTuples'
  BY DEF Over, LegalTuples, Ends

\* A running record is Open, an ended one Over, and the rest waits for funding.
LEMMA Cases ==
  ASSUME TypeOK, LegalTuples
  PROVE  /\ life.status \in {"funding", "funding_expired"} \/ life = Open \/ Over(life)
         /\ life.finalization = "none" \/ life = Open \/ Over(life)
         /\ life.status = "running" => life = Open
         /\ life.status \in Ends => Over(life)
         /\ life.finalization \in {"closing", "manual"} => Over(life)
  <1>1. /\ Patched(Prepared, Lapsed).status = "funding_expired"
        /\ Patched(Prepared, Lapsed).finalization = "none"
    <2>1. /\ DOMAIN Lapsed = {"status", "activation", "quota"}
          /\ Lapsed["status"] = "funding_expired"
      BY Patches
    <2>2. Prepared.finalization = "none"
      BY DEF Prepared
    <2> QED BY <2>1, <2>2, PatchFields, StartsAt
  <1>2. Prepared.status = "funding" /\ Prepared.finalization = "none"
    BY DEF Prepared
  <1>3. Open.status = "running" /\ Open.finalization = "open"
    BY DEF Open
  <1>4. /\ [Prepared EXCEPT !.activation = "funded"].status = "funding"
        /\ [Prepared EXCEPT !.activation = "funded"].finalization = "none"
        /\ [Prepared EXCEPT !.activation = "activating", !.quota = "activating"].status
             = "funding"
        /\ [Prepared EXCEPT !.activation = "activating", !.quota = "activating"].finalization
             = "none"
    BY DEF Prepared
  <1>5. Over(life) \/ life \in {Prepared, [Prepared EXCEPT !.activation = "funded"],
          [Prepared EXCEPT !.activation = "activating", !.quota = "activating"],
          Patched(Prepared, Lapsed), Open}
    BY DEF LegalTuples, Over, Ends
  <1> QED BY <1>1, <1>2, <1>3, <1>4, <1>5 DEF Over, Ends

\* The writes that end a research: requestFinalization and the bare status.
LEMMA FinishOver ==
  ASSUME TypeOK, LegalTuples, NEW s \in Ends, NEW S,
         life = Open \/ (s = "completed" /\ CanMove(life, Ending(s))), Finish(s, S)
  PROVE  Over(life')
  <1>1. /\ DOMAIN Ending(s) = {"status", "finalization"}
        /\ Ending(s)["status"] = s /\ Ending(s)["finalization"] = "closing"
    BY DEF Ending
  <1>2. /\ life'.status = s /\ life'.finalization = "closing"
        /\ life'.activation = life.activation /\ life'.quota = life.quota
    BY <1>1, PatchFields DEF Finish, Move, TypeOK
  <1>3. life = Open \/ Over(life)
    <2>1. ASSUME life # Open
          PROVE  life.status = "completed" \/ <<life.status, "completed">> \in Moves["status"]
      BY <1>1, <2>1 DEF CanMove, Allowed
    <2>2. <<life.status, "completed">> \in Moves["status"] => life.status = "running"
      BY DEF Moves
    <2>3. life.status \in {"funding", "funding_expired"} \/ life = Open \/ Over(life)
      BY Cases
    <2>4. Open.status = "running"
      BY DEF Open
    <2> QED BY <2>1, <2>2, <2>3, <2>4
  <1> QED BY <1>2, <1>3 DEF Over, Open

LEMMA WriteStatusOver ==
  ASSUME TypeOK, LegalTuples, NEW s \in Ends, life.status = "running", WriteStatus(s)
  PROVE  Over(life')
  <1>1. life = Open
    BY Cases
  <1> QED BY <1>1 DEF WriteStatus, Open, Over

\* Only the finalization of an ended record moves, and never out of Over.
LEMMA FinalizationOver ==
  ASSUME TypeOK, NEW f \in {"closing", "closed", "manual"}, Over(life),
         Move([finalization |-> f])
  PROVE  Over(life')
  <1> DEFINE p == [finalization |-> f]
  <1>1. DOMAIN p = {"finalization"} /\ p["finalization"] = f
    OBVIOUS
  <1>2. /\ life'.finalization = f /\ life'.status = life.status
        /\ life'.activation = life.activation /\ life'.quota = life.quota
    BY <1>1, PatchFields DEF Move, TypeOK
  <1> QED BY <1>2 DEF Over
-----------------------------------------------------------------------------
(* One lemma per group of actions. *)

LEMMA ApiKeeps == ASSUME TypeOK, ClosingInv, Api PROVE Keeps
  <1> USE DEF ledger, world, jobs
  <1>0. LegalTuples /\ WorkerInv
    BY DEF ClosingInv
  <1>1. CASE Start
    <2> DEFINE p == [activation |-> "activating", quota |-> "activating"]
    <2>1. Grows /\ NewAtEnd
      <3>1. Enqueue({"ACTIVATE"})
        BY <1>1 DEF Start
      <3> QED BY <3>1, EnqueueGrows DEF NewAtEnd, ClosingTypes, Types
    <2>2. life = [Prepared EXCEPT !.activation = "funded"]
      BY <1>1 DEF Start, CanMove
    <2>3. life' = [Prepared EXCEPT !.activation = "activating", !.quota = "activating"]
      <3>1. DOMAIN p = {"activation", "quota"} /\ p["activation"] = "activating"
            /\ p["quota"] = "activating"
        OBVIOUS
      <3>2. life' = Patched(life, p)
        BY <1>1 DEF Start, Move
      <3>3. /\ life'.status = life.status /\ life'.activation = "activating"
            /\ life'.finalization = life.finalization /\ life'.quota = "activating"
            /\ life' = [status |-> life'.status, activation |-> life'.activation,
                        finalization |-> life'.finalization, quota |-> life'.quota]
        BY <3>1, <3>2, PatchFields DEF TypeOK
      <3> QED BY <2>2, <3>3 DEF Prepared
    <2>4. WorkerInv'
      BY <1>0, <1>1, <2>1, StillKeeps DEF Start
    <2>5. life'.finalization = "none"
      BY <2>3 DEF Prepared
    <2> QED BY <1>1, <2>1, <2>3, <2>4, <2>5
            DEF Start, Keeps, LegalTuples, RescueAtEnd, CloseQueued
  <1>2. CASE Cancel
    <2>1. life = Open
      BY <1>0, <1>2, Cases DEF Cancel
    <2>2. Finish("cancelled", {"CLOSE"}) /\ wk' = wk /\ rescue' = rescue
      BY <1>2, <2>1 DEF Cancel
    <2>3. Over(life')
      BY <1>0, <2>1, <2>2, FinishOver DEF Ends
    <2>4. Grows /\ op'["CLOSE"].phase # "absent"
      BY <2>2, EnqueueGrows DEF Finish, Types
    <2>5. NewAtEnd /\ LegalTuples' /\ WorkerInv'
      BY <1>0, <2>2, <2>3, <2>4, StillKeeps, OverLegal DEF NewAtEnd, Over
    <2> QED BY <2>2, <2>4, <2>5 DEF Keeps, RescueAtEnd, CloseQueued
  <1> QED BY <1>1, <1>2 DEF Api

LEMMA OutsideClosing == ASSUME TypeOK, ClosingInv, Outside PROVE Keeps
  <1> USE DEF ledger, jobs
  <1>0. LegalTuples /\ WorkerInv
    BY DEF ClosingInv
  <1>1. Grows /\ NewAtEnd /\ WorkerInv'
    <2>1. op' = op /\ wk' = wk
      BY DEF Outside, Tick, Fund, Land
    <2> QED BY <1>0, <2>1, SameOps, StillKeeps
  <1>2. CASE Tick \/ Land
    BY <1>1, <1>2, LocalKeeps DEF Tick, Land
  <1>3. CASE Fund
    <2> DEFINE p == [activation |-> "funded"]
    <2>1. life' = [Prepared EXCEPT !.activation = "funded"]
      <3>1. DOMAIN p = {"activation"} /\ p["activation"] = "funded"
        OBVIOUS
      <3> QED BY <1>3, <3>1, PatchFields, StartsAt DEF Fund, Move, Prepared
    <2>2. life'.finalization = "none"
      BY <2>1 DEF Prepared
    <2> QED BY <1>1, <1>3, <2>1, <2>2
            DEF Fund, Keeps, LegalTuples, RescueAtEnd, CloseQueued
  <1> QED BY <1>2, <1>3 DEF Outside

LEMMA OperatorKeeps ==
  ASSUME TypeOK, ClosingInv, Recoverable \subseteq ClosingTypes, Operator
  PROVE  Keeps
  <1> USE DEF ledger, world
  <1>0. LegalTuples /\ WorkerInv
    BY DEF ClosingInv
  <1>1. ASSUME NEW t \in Types, Recover(t) PROVE Keeps
    <2>1. t \in ClosingTypes /\ op[t].phase = "manual"
      BY <1>1 DEF Recover
    <2>2. life.status \in Ends
      BY <2>1 DEF ClosingInv
    <2>3. Grows /\ NewAtEnd
      <3>1. PICK p \in {"live", "succeeded"} : op' = [op EXCEPT ![t].phase = p]
        BY <1>1 DEF Recover
      <3> QED BY <2>1, <3>1, PhaseGrows
    <2>4. WorkerInv' /\ life' = life
      BY <1>0, <1>1, <2>3, StillKeeps DEF Recover
    <2> QED BY <1>0, <2>2, <2>3, <2>4 DEF Keeps, LegalTuples, RescueAtEnd, CloseQueued
  <1>2. ASSUME RecoverRead \/ RecoverWrite PROVE Keeps
    <2>1. Grows /\ NewAtEnd /\ WorkerInv'
      BY <1>0, <1>2, SameOps, StillKeeps DEF RecoverRead, RecoverWrite
    <2>2. rescue.pc # "idle"
      BY <1>2 DEF RecoverRead, RecoverWrite
    <2>3. Over(life)
      BY <1>0, <2>2, Cases DEF ClosingInv
    <2>4. LegalTuples'
      <3>1. CASE life' = life
        BY <1>0, <3>1 DEF LegalTuples
      <3>2. CASE RecoverWrite /\ Move([finalization |-> rescue.to])
        BY <2>3, <3>2, FinalizationOver, OverLegal DEF TypeOK
      <3> QED BY <1>2, <3>1, <3>2 DEF RecoverRead, RecoverWrite
    <2>5. CloseQueued
      <3>1. CASE life' = life
        BY <3>1 DEF CloseQueued
      <3>2. CASE CanMove(rescue.seen, [finalization |-> rescue.to]) /\ RecoverWrite
                 /\ Move([finalization |-> rescue.to])
        <4> DEFINE p == [finalization |-> rescue.to]
        <4>1. DOMAIN p = {"finalization"} /\ p["finalization"] = rescue.to
          OBVIOUS
        <4>2. life'.finalization = rescue.to
          BY <3>2, <4>1, PatchFields DEF Move, TypeOK
        <4>3. rescue.to = life.finalization
              \/ <<life.finalization, rescue.to>> \in Moves["finalization"]
          BY <3>2, <4>1 DEF CanMove, Allowed
        <4>4. ASSUME NEW f, <<"closed", f>> \in Moves["finalization"] PROVE FALSE
          BY <4>4 DEF Moves
        <4> QED BY <2>3, <4>2, <4>3, <4>4 DEF Over, CloseQueued
      <3> QED BY <1>2, <3>1, <3>2 DEF RecoverRead, RecoverWrite
    <2> QED BY <2>1, <2>2, <2>4, <2>5 DEF Keeps, RescueAtEnd
  <1> QED BY <1>1, <1>2 DEF Operator

LEMMA ExpiryClosing == ASSUME Typed, ClosingInv, Expiry PROVE Keeps
  <1> USE DEF ledger, world
  <1>0. LegalTuples /\ WorkerInv /\ TypeOK
    BY DEF ClosingInv, Typed
  <1>1. CASE ExpiryRead \/ ExpiryAsk
    <2>1. Grows /\ NewAtEnd /\ WorkerInv'
      BY <1>0, <1>1, SameOps, StillKeeps DEF ExpiryRead, ExpiryAsk
    <2> QED BY <1>1, <2>1, LocalKeeps DEF ExpiryRead, ExpiryAsk
  <1>2. CASE ExpiryWrite
    <2>1. CASE UNCHANGED <<life, quota, op>>
      <3>1. Grows /\ NewAtEnd /\ WorkerInv'
        BY <1>0, <1>2, <2>1, SameOps, StillKeeps DEF ExpiryWrite
      <3> QED BY <1>2, <2>1, <3>1, LocalKeeps DEF ExpiryWrite
    <2>2. CASE CanSettleFunding(expiry.seen, Activated) /\ StartRunning
      <3>1. Grows /\ NewAtEnd
        BY <1>0, <2>2, EnqueueGrows DEF StartRunning, NewAtEnd, ClosingTypes, Types
      <3>2. life' = Open
        BY <1>0, <2>2, Patches, PatchFields DEF StartRunning, Move, TypeOK, Open, Dimensions
      <3>3. life'.finalization = "open"
        BY <3>2 DEF Open
      <3>4. WorkerInv'
        BY <1>0, <1>2, <3>1, StillKeeps DEF ExpiryWrite
      <3> QED BY <1>2, <3>1, <3>2, <3>3, <3>4
              DEF ExpiryWrite, Keeps, LegalTuples, RescueAtEnd, CloseQueued
    <2>3. CASE CanSettleFunding(expiry.seen, Lapsed) /\ Move(Lapsed) /\ UNCHANGED op
      <3>1. Grows /\ NewAtEnd /\ WorkerInv'
        BY <1>0, <1>2, <2>3, SameOps, StillKeeps DEF ExpiryWrite
      <3>2. ~Over(life) /\ life # Open /\ life # Patched(Prepared, Lapsed)
        <4>1. Patched(Prepared, Lapsed).quota = "released"
          BY Patches, PatchFields, StartsAt
        <4> QED BY <2>3, <4>1 DEF CanSettleFunding, Over, Open
      <3>3. life.finalization = "none"
        BY <1>0, <3>2, Cases
      <3>4. life' = Patched(Prepared, Lapsed)
        <4>1. /\ life'.status = "funding_expired" /\ life'.activation = "expired"
              /\ life'.finalization = "none" /\ life'.quota = "released"
              /\ life' = [status |-> life'.status, activation |-> life'.activation,
                          finalization |-> life'.finalization, quota |-> life'.quota]
          BY <1>0, <2>3, <3>3, Patches, PatchFields DEF Move, TypeOK
        <4> DEFINE q == Patched(Prepared, Lapsed)
        <4>2. /\ q.status = "funding_expired" /\ q.activation = "expired"
              /\ q.finalization = Prepared.finalization /\ q.quota = "released"
              /\ q = [status |-> q.status, activation |-> q.activation,
                      finalization |-> q.finalization, quota |-> q.quota]
          BY Patches, PatchFields, StartsAt
        <4>3. Prepared.finalization = "none"
          BY DEF Prepared
        <4> QED BY <4>1, <4>2, <4>3
      <3>5. life'.finalization = "none"
        BY <1>0, <2>3, <3>3, Patches, PatchFields DEF Move, TypeOK
      <3> QED BY <1>2, <3>1, <3>4, <3>5
              DEF ExpiryWrite, Keeps, LegalTuples, RescueAtEnd, CloseQueued
    <2> QED BY <1>2, <2>1, <2>2, <2>3 DEF ExpiryWrite
  <1> QED BY <1>1, <1>2 DEF Expiry

LEMMA LeaseKeeps == ASSUME TypeOK, ClosingInv, NEW t \in Types, LeaseEnds(t) PROVE Keeps
  <1>1. ASSUME NEW s \in Types PROVE op'[s].phase = op[s].phase
    BY DEF LeaseEnds, TypeOK, Op
  <1>2. Grows /\ NewAtEnd
    BY <1>1 DEF Grows, NewAtEnd, ClosingTypes, Types
  <1>3. WorkerInv'
    BY <1>2, StillKeeps DEF LeaseEnds, ClosingInv
  <1> QED BY <1>2, <1>3, LocalKeeps DEF LeaseEnds, jobs

LEMMA CommonKeeps == ASSUME TypeOK, ClosingInv, NEW w \in Workers, Common(w) PROVE Keeps
  <1> USE DEF ledger, world, jobs
  <1>0. /\ LegalTuples /\ WorkerInv /\ wk[w] \in Worker /\ wk[w].type \in Types
        /\ wk[w].pc # "idle" => op[wk[w].type].phase # "absent"
    BY DEF ClosingInv, WorkerInv, TypeOK, Worker
  <1>1. CASE Claim(w)
    <2>1. PICK t \in Types :
            /\ op[t].phase = "live" /\ op' = [op EXCEPT ![t] = Taken(op[t])]
            /\ wk' = [wk EXCEPT ![w] = [Resting EXCEPT !.pc = "start", !.type = t,
                                                       !.op = Taken(op[t])]]
      BY <1>1 DEF Claim, Claimable
    <2>2. Taken(op[t]).phase = op[t].phase
      BY DEF Taken, TypeOK, Op
    <2>3. ASSUME NEW s \in Types PROVE op'[s].phase = op[s].phase
      BY <2>1, <2>2 DEF TypeOK
    <2>4. Grows /\ NewAtEnd
      BY <2>3 DEF Grows, NewAtEnd, ClosingTypes, Types
    <2>5. WorkerInv'
      <3>1. wk'[w].pc = "start" /\ wk'[w].type = t
        BY <2>1 DEF TypeOK, Resting
      <3>2. ASSUME NEW v \in Workers, v # w PROVE wk'[v] = wk[v] /\ wk[v].type \in Types
        BY <2>1, <3>2 DEF TypeOK, Worker
      <3>3. "start" \notin SettleSteps
        BY DEF SettleSteps
      <3> QED BY <1>0, <2>1, <2>3, <3>1, <3>2, <3>3 DEF WorkerInv
    <2> QED BY <1>1, <2>4, <2>5, LocalKeeps DEF Claim
  <1>2. CASE Fault(w)
    <2>1. WorkerInv'
      BY <1>0, <1>2, SameOps, GotoKeeps DEF Fault, SettleSteps
    <2> QED BY <1>2, <2>1, SameOps, LocalKeeps DEF Fault
  <1>3. CASE Crash(w)
    <2>1. WorkerInv'
      BY <1>0, <1>3, SameOps, GotoKeeps DEF Crash
    <2> QED BY <1>3, <2>1, SameOps, LocalKeeps DEF Crash
  <1>4. CASE Throw(w)
    <2>0. wk[w].pc # "idle"
      BY <1>4 DEF Throw
    <2>1. Grows /\ NewAtEnd
      <3>1. CASE UNCHANGED op
        BY <3>1, SameOps
      <3>2. CASE op' = [op EXCEPT ![wk[w].type].phase = "manual",
                                  ![wk[w].type].leased = FALSE]
        BY <1>0, <2>0, <3>2, PhaseGrows
      <3>3. CASE Write(w, "leased", FALSE)
        BY <3>3, WriteGrows
      <3> QED BY <1>4, <3>1, <3>2, <3>3 DEF Throw
    <2>2. PICK pc \in {"manual", "idle"} : Goto(w, pc) \/ Rest(w)
      BY <1>4 DEF Throw
    <2>3. WorkerInv'
      BY <1>0, <2>0, <2>1, <2>2, GotoKeeps DEF SettleSteps
    <2> QED BY <1>4, <2>1, <2>3, LocalKeeps DEF Throw
  <1>5. CASE Manual(w)
    <2>0. wk[w].pc # "idle" /\ Grows /\ NewAtEnd
      BY <1>5, SameOps DEF Manual
    <2>1. WorkerInv'
      <3>1. CASE Rest(w)
        BY <1>0, <2>0, <3>1, GotoKeeps
      <3>2. CASE wk' = [wk EXCEPT ![w].pc = "park", ![w].seen = life]
        <4>1. wk'[w].pc = "park" /\ wk'[w].type = wk[w].type
          BY <1>0, <3>2 DEF TypeOK, Worker
        <4>2. \A v \in Workers : v # w => wk'[v] = wk[v]
          BY <3>2 DEF TypeOK
        <4>3. "park" \notin SettleSteps
          BY DEF SettleSteps
        <4> QED BY <1>0, <1>5, <2>0, <4>1, <4>2, <4>3 DEF Manual, WorkerInv
      <3> QED BY <1>5, <3>1, <3>2 DEF Manual
    <2> QED BY <1>5, <2>0, <2>1, LocalKeeps DEF Manual
  <1>6. CASE Park(w)
    <2>0. wk[w].pc # "idle" /\ Grows /\ NewAtEnd
      BY <1>6, SameOps DEF Park
    <2>1. WorkerInv'
      BY <1>0, <1>6, <2>0, GotoKeeps DEF Park
    <2>2. CASE life' = life
      BY <1>6, <2>0, <2>1, <2>2, LocalKeeps DEF Park
    <2>3. CASE CanMove(wk[w].seen, [finalization |-> "manual"])
               /\ Move([finalization |-> "manual"])
      <3> DEFINE p == [finalization |-> "manual"]
      <3>1. DOMAIN p = {"finalization"} /\ p["finalization"] = "manual"
        OBVIOUS
      <3>2. life.finalization = "manual" \/ <<life.finalization, "manual">> \in Moves["finalization"]
        BY <2>3, <3>1 DEF CanMove, Allowed
      <3>3. <<life.finalization, "manual">> \in Moves["finalization"]
              => life.finalization = "closing"
        BY DEF Moves
      <3>4. Over(life')
        BY <1>0, <2>3, <3>2, <3>3, Cases, FinalizationOver
      <3> QED BY <1>6, <2>0, <2>1, <3>2, <3>3, <3>4, OverLegal
              DEF Park, Keeps, RescueAtEnd, CloseQueued
    <2> QED BY <1>6, <2>2, <2>3 DEF Park
  <1>7. CASE Complete(w)
    <2>0. wk[w].pc # "idle"
      BY <1>7 DEF Complete
    <2>1. Grows /\ NewAtEnd
      <3>1. CASE UNCHANGED op
        BY <3>1, SameOps
      <3>2. CASE op' = [op EXCEPT ![wk[w].type].phase = "succeeded",
                                  ![wk[w].type].leased = FALSE]
        BY <1>0, <2>0, <3>2, PhaseGrows
      <3> QED BY <1>7, <3>1, <3>2 DEF Complete
    <2>2. WorkerInv'
      BY <1>0, <1>7, <2>0, <2>1, GotoKeeps DEF Complete
    <2> QED BY <1>7, <2>1, <2>2, LocalKeeps DEF Complete
  <1> QED BY <1>1, <1>2, <1>3, <1>4, <1>5, <1>6, <1>7 DEF Common

LEMMA ActivationClosing ==
  ASSUME Typed, ClosingInv, NEW w \in Workers, Activation(w)
  PROVE  Keeps
  <1> USE DEF ledger, world, jobs
  <1>0. /\ LegalTuples /\ WorkerInv /\ TypeOK /\ wk[w] \in Worker
        /\ wk[w].pc # "idle" => op[wk[w].type].phase # "absent"
    BY DEF ClosingInv, WorkerInv, Typed, TypeOK
  <1>1. CASE ActivateStart(w)
    <2>0. wk[w].pc # "idle" /\ Grows /\ NewAtEnd
      BY <1>1, SameOps DEF ActivateStart, Step
    <2>1. WorkerInv'
      <3>1. CASE Activating
        <4>1. wk'[w].pc \in {"confirm", "probe"} /\ wk'[w].type = wk[w].type
          BY <1>0, <1>1, <3>1 DEF ActivateStart, TypeOK, Worker
        <4>2. \A v \in Workers : v # w => wk'[v] = wk[v]
          BY <1>0, <1>1, <3>1 DEF ActivateStart, TypeOK
        <4>3. {"confirm", "probe"} \cap SettleSteps = {}
          BY DEF SettleSteps
        <4> QED BY <1>0, <1>1, <2>0, <4>1, <4>2, <4>3 DEF ActivateStart, WorkerInv
      <3>2. CASE ~Activating
        <4>1. Goto(w, IF AlreadyActive THEN "finish" ELSE "idle")
          BY <1>1, <3>2 DEF ActivateStart
        <4> QED BY <1>0, <2>0, <4>1, GotoKeeps DEF SettleSteps
      <3> QED BY <3>1, <3>2
    <2> QED BY <1>1, <2>0, <2>1, LocalKeeps DEF ActivateStart
  <1>2. ASSUME Probe(w) \/ Confirm(w) PROVE Keeps
    <2>0. wk[w].pc # "idle" /\ Grows /\ NewAtEnd
      BY <1>2, SameOps DEF Probe, Confirm
    <2>1. PICK pc \in {"finalize", "submit", "idle"} : Goto(w, pc)
      BY <1>2 DEF Probe, Confirm
    <2>2. WorkerInv'
      BY <1>0, <2>0, <2>1, GotoKeeps DEF SettleSteps
    <2> QED BY <1>2, <2>0, <2>2, LocalKeeps DEF Probe, Confirm
  <1>3. ASSUME SubmitActivation(w) \/ RecordActivation(w) PROVE Keeps
    <2>0. wk[w].pc # "idle"
      BY <1>3 DEF SubmitActivation, RecordActivation
    <2>1. Grows /\ NewAtEnd
      BY <1>0, <1>3, SameOps, WriteGrows DEF SubmitActivation, RecordActivation
    <2>2. PICK pc \in {"record", "confirm"} : Goto(w, pc) \/ Rest(w)
      BY <1>3 DEF SubmitActivation, RecordActivation
    <2>3. WorkerInv'
      BY <1>0, <2>0, <2>1, <2>2, GotoKeeps DEF SettleSteps
    <2> QED BY <1>3, <2>1, <2>3, LocalKeeps DEF SubmitActivation, RecordActivation
  <1>4. CASE FinalizeActivation(w)
    <2>0. wk[w].pc # "idle"
      BY <1>4 DEF FinalizeActivation
    <2>1. CASE UNCHANGED <<life, quota, op>> /\ Rest(w)
      <3>1. WorkerInv'
        BY <1>0, <2>0, <2>1, SameOps, GotoKeeps
      <3> QED BY <1>4, <2>1, <3>1, SameOps, LocalKeeps DEF FinalizeActivation
    <2>2. CASE StartRunning /\ Goto(w, "finish")
      <3>1. Grows /\ NewAtEnd
        BY <1>0, <2>2, EnqueueGrows DEF StartRunning, NewAtEnd, ClosingTypes, Types
      <3>2. life' = Open
        BY <1>0, <2>2, Patches, PatchFields DEF StartRunning, Move, TypeOK, Open, Dimensions
      <3>3. life'.finalization = "open"
        BY <3>2 DEF Open
      <3>4. WorkerInv'
        BY <1>0, <2>0, <2>2, <3>1, GotoKeeps DEF SettleSteps
      <3> QED BY <1>4, <3>1, <3>2, <3>3, <3>4
              DEF FinalizeActivation, Keeps, LegalTuples, RescueAtEnd, CloseQueued
    <2> QED BY <1>4, <2>1, <2>2 DEF FinalizeActivation
  <1> QED BY <1>1, <1>2, <1>3, <1>4 DEF Activation

LEMMA RunKeeps == ASSUME TypeOK, ClosingInv, NEW w \in Workers, Run(w) PROVE Keeps
  <1> USE DEF ledger, world, jobs
  <1>0. /\ LegalTuples /\ WorkerInv /\ wk[w] \in Worker
        /\ wk[w].pc # "idle" => op[wk[w].type].phase # "absent"
    BY DEF ClosingInv, WorkerInv, TypeOK
  <1>1. ASSUME RunStart(w) \/ Checkpoint(w) \/ Stale(w) \/ AskToPay(w) \/ Pay(w)
        PROVE  Keeps
    <2>0. wk[w].pc # "idle" /\ Grows /\ NewAtEnd
      BY <1>1, SameOps DEF RunStart, Checkpoint, Stale, AskToPay, Pay, Step
    <2>1. PICK pc \in {"fail_run", "checkpoint", "agent", "pay"} : Goto(w, pc) \/ Rest(w)
      BY <1>1 DEF RunStart, Checkpoint, Stale, AskToPay, Pay
    <2>2. WorkerInv'
      BY <1>0, <2>0, <2>1, GotoKeeps DEF SettleSteps
    <2> QED BY <1>1, <2>0, <2>2, LocalKeeps DEF RunStart, Checkpoint, Stale, AskToPay, Pay
  <1>2. ASSUME NEW s \in Ends, NEW S, "CLOSE" \in S, wk[w].pc # "idle", rescue' = rescue,
               life = Open \/ (s = "completed" /\ CanMove(life, Ending(s))),
               Finish(s, S), Goto(w, "finish")
        PROVE  Keeps
    <2>1. Over(life')
      BY <1>0, <1>2, FinishOver
    <2>2. Grows /\ op'["CLOSE"].phase # "absent"
      BY <1>2, EnqueueGrows DEF Finish, Types
    <2>3. WorkerInv'
      BY <1>0, <1>2, <2>2, GotoKeeps DEF SettleSteps
    <2> QED BY <1>2, <2>1, <2>2, <2>3, OverLegal
            DEF Keeps, NewAtEnd, RescueAtEnd, CloseQueued, Over
  <1>3. ASSUME UNCHANGED <<life, op, rescue>>, wk[w].pc # "idle", Rest(w)
        PROVE  Keeps
    <2>1. Grows /\ NewAtEnd
      BY <1>3, SameOps
    <2>2. WorkerInv'
      BY <1>0, <1>3, <2>1, GotoKeeps
    <2> QED BY <1>3, <2>1, <2>2, LocalKeeps
  <1>4. CASE FailReclaimedRun(w)
    <2>1. wk[w].pc # "idle" /\ rescue' = rescue
      BY <1>4 DEF FailReclaimedRun
    <2>2. CASE CanMove(Open, Ending("failed"))
      <3>1. life = Open /\ Finish("failed", {"CLOSE"}) /\ Goto(w, "finish")
        BY <1>4, <2>2 DEF FailReclaimedRun, CanMove
      <3> QED BY <1>2, <2>1, <3>1 DEF Ends
    <2> QED BY <1>3, <1>4, <2>1, <2>2 DEF FailReclaimedRun
  <1>5. CASE CloseReport(w)
    <2>1. wk[w].pc # "idle" /\ rescue' = rescue
      BY <1>5 DEF CloseReport
    <2> DEFINE S == {"CLOSE"} \union
                      (IF wk[w].owed THEN {"SETTLE", "RECONCILE"} ELSE {})
    <2>2. CASE CanMove(wk[w].seen, Ending("completed"))
      <3>1. CanMove(life, Ending("completed"))
        BY <2>2 DEF CanMove
      <3>2. Finish("completed", S) /\ Goto(w, "finish") /\ "CLOSE" \in S
        BY <1>5, <2>2 DEF CloseReport
      <3> HIDE DEF S
      <3> QED BY <1>2, <2>1, <3>1, <3>2 DEF Ends
    <2> QED BY <1>3, <1>5, <2>1, <2>2 DEF CloseReport
  <1>6. ASSUME AgentFails(w) \/ AgentReports(w) PROVE Keeps
    <2>0. wk[w].pc # "idle" /\ Grows /\ NewAtEnd /\ rescue' = rescue
      BY <1>6, SameOps DEF AgentFails, AgentReports
    <2>1. PICK pc \in {"finish", "report"} : Goto(w, pc)
      BY <1>6 DEF AgentFails, AgentReports
    <2>2. WorkerInv'
      BY <1>0, <2>0, <2>1, GotoKeeps DEF SettleSteps
    <2>3. CASE life' = life
      BY <2>0, <2>2, <2>3, LocalKeeps
    <2>4. CASE life' # life
      <3>1. AgentOwnsStatus /\ life.status = "running"
        BY <1>6, <2>4 DEF AgentFails, AgentReports
      <3>2. PICK s \in Ends : WriteStatus(s)
        BY <1>6, <2>4 DEF AgentFails, AgentReports, Ends
      <3>3. Over(life')
        BY <1>0, <3>1, <3>2, WriteStatusOver
      <3> QED BY <2>0, <2>2, <3>1, <3>3, OverLegal DEF Keeps, RescueAtEnd
    <2> QED BY <2>3, <2>4
  <1>7. CASE Report(w)
    <2>0. wk[w].pc # "idle" /\ Grows /\ NewAtEnd
      BY <1>7, SameOps DEF Report
    <2>1. CASE Rest(w)
      BY <1>3, <1>7, <2>0, <2>1 DEF Report
    <2>2. CASE Holds(w)
      <3>1. wk'[w].pc \in {"close", "finish"} /\ wk'[w].type = wk[w].type
        BY <1>0, <1>7, <2>2 DEF Report, TypeOK, Worker
      <3>2. \A v \in Workers : v # w => wk'[v] = wk[v]
        BY <1>7, <2>2 DEF Report, TypeOK
      <3>3. {"close", "finish"} \cap SettleSteps = {}
        BY DEF SettleSteps
      <3>4. WorkerInv'
        BY <1>0, <1>7, <2>0, <3>1, <3>2, <3>3 DEF Report, WorkerInv
      <3> QED BY <1>7, <2>0, <3>4, LocalKeeps DEF Report
    <2> QED BY <1>7, <2>1, <2>2 DEF Report
  <1> QED BY <1>1, <1>4, <1>5, <1>6, <1>7 DEF Run

LEMMA SettlementKeeps ==
  ASSUME TypeOK, ClosingInv, NEW w \in Workers, Settlement(w)
  PROVE  Keeps
  <1> USE DEF ledger, world, jobs
  <1>0. /\ LegalTuples /\ WorkerInv /\ wk[w] \in Worker
        /\ wk[w].pc # "idle" => op[wk[w].type].phase # "absent"
        /\ wk[w].pc \in SettleSteps => wk[w].type \in {"SETTLE", "RECONCILE"}
    BY DEF ClosingInv, WorkerInv, TypeOK
  <1>1. ASSUME SettleStart(w) \/ CloseStart(w) \/ SubmitBatch(w) \/ MarkConfirmed(w)
        PROVE  Keeps
    <2>0. wk[w].pc # "idle" /\ Grows /\ NewAtEnd
      BY <1>1, SameOps DEF SettleStart, CloseStart, SubmitBatch, MarkConfirmed, Step
    <2>1. PICK pc \in SettleSteps \union {"throw"} :
            Goto(w, pc) /\ (pc \in SettleSteps => wk[w].type \in {"SETTLE", "RECONCILE"})
      <3>1. CASE SettleStart(w)
        BY <3>1 DEF SettleStart, SettleSteps
      <3>2. CASE CloseStart(w)
        BY <3>2 DEF CloseStart, SettleSteps
      <3>3. CASE SubmitBatch(w) \/ MarkConfirmed(w)
        BY <1>0, <3>3 DEF SubmitBatch, MarkConfirmed, SettleSteps
      <3> QED BY <1>1, <3>1, <3>2, <3>3
    <2>2. WorkerInv'
      BY <1>0, <2>0, <2>1, GotoKeeps
    <2> QED BY <1>1, <2>0, <2>2, LocalKeeps
            DEF SettleStart, CloseStart, SubmitBatch, MarkConfirmed
  <1>2. CASE RecordBatch(w)
    <2>1. wk[w].pc # "idle" /\ wk[w].type \in {"SETTLE", "RECONCILE"}
      BY <1>0, <1>2 DEF RecordBatch, SettleSteps
    <2>2. Grows /\ NewAtEnd
      BY <1>2, SameOps, WriteGrows DEF RecordBatch
    <2>3. PICK pc \in {"enqueue_close", "throw"} : Goto(w, pc)
      BY <1>2 DEF RecordBatch
    <2>4. WorkerInv'
      BY <1>0, <2>1, <2>2, <2>3, GotoKeeps
    <2> QED BY <1>2, <2>2, <2>4, LocalKeeps DEF RecordBatch
  <1>3. CASE EnqueueClose(w)
    <2>1. wk[w].pc # "idle" /\ wk[w].type \in {"SETTLE", "RECONCILE"}
      BY <1>0, <1>3 DEF EnqueueClose, SettleSteps
    <2>2. life.status \in Ends /\ life' = life
      BY <1>0, <1>3, <2>1 DEF EnqueueClose, ClosingInv, ClosingTypes
    <2>3. Grows /\ NewAtEnd
      BY <1>3, <2>2, EnqueueGrows DEF EnqueueClose, NewAtEnd
    <2>4. WorkerInv'
      BY <1>0, <1>3, <2>1, <2>3, GotoKeeps DEF EnqueueClose, SettleSteps
    <2> QED BY <1>3, <2>3, <2>4, LocalKeeps DEF EnqueueClose
  <1> QED BY <1>1, <1>2, <1>3 DEF Settlement
-----------------------------------------------------------------------------
LEMMA InitClosing == ASSUME Init PROVE ClosingInv /\ ClosingHasClose
  <1>1. /\ \A t \in ClosingTypes : op[t].phase = "absent"
        /\ \A w \in Workers : wk[w].pc = "idle"
        /\ rescue.pc = "idle" /\ life.finalization = "none"
    BY DEF Init, ClosingTypes, Types, NoOp, Resting, NoRequest, Prepared
  <1>2. LegalTuples
    BY DEF Init, LegalTuples
  <1> QED BY <1>1, <1>2 DEF ClosingInv, WorkerInv, SettleSteps, ClosingHasClose

LEMMA NextKeeps ==
  ASSUME Typed, ClosingInv, Recoverable \subseteq ClosingTypes, [Next]_vars
  PROVE  Keeps
  <1>0. TypeOK
    BY DEF Typed
  <1>1. CASE Next
    BY <1>0, <1>1, ApiKeeps, OutsideClosing, OperatorKeeps, ExpiryClosing, LeaseKeeps,
       CommonKeeps, ActivationClosing, RunKeeps, SettlementKeeps DEF Next
  <1>2. CASE UNCHANGED vars
    <2>1. Grows /\ NewAtEnd /\ UNCHANGED <<life, rescue>> /\ wk' = wk
      BY <1>2, SameOps DEF vars, jobs
    <2>2. WorkerInv'
      BY <1>0, <2>1, StillKeeps DEF ClosingInv
    <2> QED BY <2>1, <2>2, LocalKeeps
  <1> QED BY <1>1, <1>2

\* With an operator who requeues closing operations only, the four dimensions of
\* the record never leave the combinations of design.md, whichever of API, jobs
\* and workers writes last.
THEOREM LegalRecord ==
  ASSUME Recoverable \subseteq ClosingTypes
  PROVE  Spec => []LegalTuples
  <1>1. Init => ClosingInv
    BY InitClosing
  <1>2. Typed /\ FundedInv /\ ClosingInv /\ [Next]_vars => ClosingInv'
    BY NextKeeps, KeepsInv, NextFunded
  <1>3. ClosingInv => LegalTuples
    BY DEF ClosingInv
  <1> QED BY <1>1, <1>2, <1>3, FundedAlways, PTL DEF Spec

\* When the run worker is the only one to end a run, every research whose
\* finances are being closed, or were parked, has its CLOSE operation.
THEOREM CloseIsQueued ==
  ASSUME Recoverable \subseteq ClosingTypes, ~AgentOwnsStatus
  PROVE  Spec => []ClosingHasClose
  <1>1. Init => ClosingInv /\ ClosingHasClose
    BY InitClosing
  <1>2. ASSUME Typed, FundedInv, ClosingInv, ClosingHasClose, [Next]_vars
        PROVE  (ClosingInv /\ ClosingHasClose)'
    <2>1. Keeps /\ Outcome
      BY <1>2, NextKeeps, NextFunded
    <2>2. ClosingInv'
      BY <1>2, <2>1, KeepsInv
    <2>3. ClosingHasClose'
      <3>1. "CLOSE" \in Types
        BY DEF Types
      <3> QED BY <1>2, <2>1, <3>1 DEF Keeps, Grows, CloseQueued, ClosingHasClose
    <2> QED BY <2>2, <2>3
  <1>3. Typed /\ FundedInv /\ ClosingInv /\ ClosingHasClose /\ [Next]_vars
          => (ClosingInv /\ ClosingHasClose)'
    BY <1>2
  <1> QED BY <1>1, <1>3, FundedAlways, PTL DEF Spec
-----------------------------------------------------------------------------
(* What a settled operation means. Paid, booked and closed are reached in this   *)
(* order and never undone; where a worker stands says how far it got.            *)

ActivateSteps == {"probe", "submit", "record", "confirm", "finalize"}
RunSteps      == {"fail_run", "checkpoint", "agent", "pay", "report", "close"}
Booked        == paid /\ intent = "confirmed"
HasClose      == op["CLOSE"].phase # "absent"

At(pc, type) ==
  /\ pc \in ActivateSteps => type = "ACTIVATE"
  /\ pc \in RunSteps => type = "RUN"
  /\ pc \in SettleSteps => type \in {"SETTLE", "RECONCILE"}
  /\ pc = "mark" => paid
  /\ pc \in {"record_batch", "enqueue_close"} => Booked
  /\ pc = "finish" /\ type \in {"SETTLE", "RECONCILE"} => Booked /\ HasClose

PaidInv == /\ paid => intent # "none"
           /\ SettledIsPaid
           /\ \A w \in Workers : At(wk[w].pc, wk[w].type)

\* What every step does for this invariant.
Lasts == /\ paid => paid'
         /\ intent # "none" => intent' # "none"
         /\ intent = "confirmed" => intent' = "confirmed"
         /\ paid' => paid \/ intent' # "none"
         /\ HasClose => HasClose'
NewSuccess == \A t \in {"SETTLE", "RECONCILE"} :
                op'[t].phase = "succeeded"
                  => op[t].phase = "succeeded" \/ (Booked /\ HasClose)
AllAt   == \A w \in Workers : At(wk[w].pc, wk[w].type)
Settles == Lasts /\ NewSuccess /\ AllAt'

LEMMA SettlesInv == ASSUME PaidInv, Settles PROVE PaidInv'
  BY DEF PaidInv, Settles, Lasts, NewSuccess, AllAt, SettledIsPaid, Booked, HasClose

LEMMA AtLasts ==
  ASSUME Lasts, NEW pc, NEW type, At(pc, type)
  PROVE  At(pc, type)'
  BY DEF Lasts, At, Booked, HasClose

\* Nothing is paid or booked.
LEMMA QuietLasts ==
  ASSUME UNCHANGED <<paid, intent>>, Grows
  PROVE  Lasts
  BY DEF Lasts, Grows, HasClose, Types

LEMMA StillSettles ==
  ASSUME PaidInv, Lasts, NewSuccess, wk' = wk
  PROVE  Settles
  <1>1. ASSUME NEW v \in Workers PROVE At(wk[v].pc, wk[v].type)'
    <2>1. PICK pc, type : pc = wk[v].pc /\ type = wk[v].type
      OBVIOUS
    <2>2. At(pc, type)
      BY <2>1 DEF PaidInv
    <2>3. At(pc, type)'
      BY <2>2, AtLasts
    <2>4. wk'[v].pc = pc /\ wk'[v].type = type
      BY <2>1
    <2> QED BY <2>3, <2>4 DEF At, Booked, HasClose
  <1> QED BY <1>1 DEF Settles, AllAt

\* One worker moves to where the invariant lets it stand.
LEMMA MoveSettles ==
  ASSUME TypeOK, PaidInv, Lasts, NewSuccess, NEW w \in Workers,
         \A v \in Workers : v # w => wk'[v] = wk[v],
         NEW pc, NEW type, wk'[w].pc = pc, wk'[w].type = type, At(pc, type)'
  PROVE  Settles
  <1>1. ASSUME NEW v \in Workers PROVE At(wk[v].pc, wk[v].type)'
    <2>1. CASE v = w
      BY <2>1 DEF At, Booked, HasClose
    <2>2. CASE v # w
      <3>1. PICK p, t : p = wk[v].pc /\ t = wk[v].type
        OBVIOUS
      <3>2. At(p, t)
        BY <3>1 DEF PaidInv
      <3>3. At(p, t)'
        BY <3>2, AtLasts
      <3>4. wk'[v].pc = p /\ wk'[v].type = t
        BY <2>2, <3>1
      <3> QED BY <3>3, <3>4 DEF At, Booked, HasClose
    <2> QED BY <2>1, <2>2
  <1> QED BY <1>1 DEF Settles, AllAt

LEMMA GotoSettles ==
  ASSUME TypeOK, PaidInv, Lasts, NewSuccess, NEW w \in Workers, NEW pc,
         Goto(w, pc) \/ Rest(w),
         \A type \in Types : type = wk[w].type => At(pc, type)'
  PROVE  Settles
  <1>1. \A v \in Workers : v # w => wk'[v] = wk[v]
    BY DEF TypeOK, Goto, Rest
  <1>2. wk[w] \in Worker
    BY DEF TypeOK
  <1>3. PICK type \in Types : type = wk[w].type
    BY <1>2 DEF Worker
  <1>4. CASE wk'[w] = Resting
    <2>1. wk'[w].pc = "idle" /\ wk'[w].type = "ACTIVATE"
      BY <1>4 DEF Resting
    <2>2. At("idle", "ACTIVATE")'
      BY DEF At, ActivateSteps, RunSteps, SettleSteps
    <2> QED BY <1>1, <2>1, <2>2, MoveSettles
  <1>5. CASE wk'[w] = [wk[w] EXCEPT !.pc = pc]
    <2>1. wk'[w].pc = pc /\ wk'[w].type = type
      BY <1>2, <1>3, <1>5 DEF Worker
    <2>2. At(pc, type)'
      BY <1>3
    <2> QED BY <1>1, <2>1, <2>2, MoveSettles
  <1> QED BY <1>4, <1>5 DEF TypeOK, Goto, Rest

\* Operations are enqueued, or fields other than the phase are written.
LEMMA SameSuccess == ASSUME op' = op PROVE NewSuccess
  BY DEF NewSuccess

LEMMA EnqueueSuccess == ASSUME TypeOK, NEW S, Enqueue(S) PROVE NewSuccess
  <1>1. ASSUME NEW t \in Types, op'[t].phase = "succeeded"
        PROVE  op[t].phase = "succeeded"
    <2>1. op[t] \in Op
      BY DEF TypeOK
    <2>2. Taken(op[t]).phase = op[t].phase
      BY <2>1 DEF Taken, Op
    <2>3. op'[t] = IF t \in S THEN Enqueued(t) ELSE op[t]
      BY DEF Enqueue
    <2> QED BY <1>1, <2>2, <2>3 DEF Enqueued, NoOp
  <1> QED BY <1>1 DEF NewSuccess, Types

LEMMA WriteSuccess ==
  ASSUME TypeOK, NEW w \in Workers, NEW value, NEW field \in {"leased", "tx"},
         Write(w, field, value)
  PROVE  NewSuccess
  <1>1. wk[w].type \in Types
    BY DEF TypeOK, Worker
  <1>2. ASSUME NEW t \in Types PROVE op'[t].phase = op[t].phase
    <2>1. CASE t # wk[w].type
      BY <1>1, <2>1 DEF TypeOK, Write
    <2>2. CASE t = wk[w].type
      <3>1. op'[t] = [op[t] EXCEPT ![field] = value]
        BY <1>1, <2>2 DEF TypeOK, Write
      <3> QED BY <3>1 DEF TypeOK, Op
    <2> QED BY <2>1, <2>2
  <1> QED BY <1>2 DEF NewSuccess, Types

LEMMA PhaseSuccess ==
  ASSUME TypeOK, NEW t \in Types, NEW p \in {"live", "manual", "succeeded"},
         p = "succeeded" /\ t \in {"SETTLE", "RECONCILE"} => Booked /\ HasClose,
         op' = [op EXCEPT ![t].phase = p, ![t].leased = FALSE]
           \/ op' = [op EXCEPT ![t].phase = p]
  PROVE  NewSuccess
  <1>1. ASSUME NEW s \in Types PROVE op'[s].phase = IF s = t THEN p ELSE op[s].phase
    BY DEF TypeOK, Op
  <1> QED BY <1>1 DEF NewSuccess, Types
-----------------------------------------------------------------------------
(* One lemma per group of actions. *)

\* A step that leaves the ledger of settlement, its operations and the workers.
LEMMA AsideSettles ==
  ASSUME TypeOK, PaidInv, wk' = wk, UNCHANGED <<paid, intent>>, Grows, NewSuccess
  PROVE  Settles
  BY QuietLasts, StillSettles

LEMMA ApiSettles ==
  ASSUME TypeOK, PaidInv, Api \/ Outside
  PROVE  Settles
  <1> USE DEF ledger, world, jobs
  <1>1. UNCHANGED <<paid, intent>> /\ wk' = wk
    BY DEF Api, Outside, Start, Cancel, Tick, Fund, Land
  <1>2. op' = op \/ \E S \in {{"ACTIVATE"}, {"CLOSE"}} : Enqueue(S)
    BY DEF Api, Outside, Start, Cancel, Finish, Tick, Fund, Land
  <1>3. Grows /\ NewSuccess
    BY <1>2, SameOps, SameSuccess, EnqueueGrows, EnqueueSuccess
  <1> QED BY <1>1, <1>3, AsideSettles

LEMMA ExpirySettles == ASSUME TypeOK, PaidInv, Expiry PROVE Settles
  <1> USE DEF ledger, world
  <1>1. UNCHANGED <<paid, intent>> /\ wk' = wk
    BY DEF Expiry, ExpiryRead, ExpiryAsk, ExpiryWrite
  <1>2. op' = op \/ Enqueue({"RUN"})
    BY DEF Expiry, ExpiryRead, ExpiryAsk, ExpiryWrite, StartRunning
  <1>3. Grows /\ NewSuccess
    BY <1>2, SameOps, SameSuccess, EnqueueGrows, EnqueueSuccess
  <1> QED BY <1>1, <1>3, AsideSettles

LEMMA OperatorSettles == ASSUME TypeOK, PaidInv, Operator PROVE Settles
  <1> USE DEF ledger, world
  <1>1. UNCHANGED <<paid, intent>> /\ wk' = wk
    BY DEF Operator, Recover, RecoverRead, RecoverWrite
  <1>2. ASSUME NEW t \in Types, Recover(t) PROVE Grows /\ NewSuccess
    <2>1. op[t].phase # "absent"
      BY <1>2 DEF Recover
    <2>2. PICK p \in {"live", "succeeded"} :
            op' = [op EXCEPT ![t].phase = p] /\ (p = "succeeded" => t = "CLOSE")
      BY <1>2 DEF Recover
    <2> QED BY <2>1, <2>2, PhaseGrows, PhaseSuccess
  <1>3. ASSUME RecoverRead \/ RecoverWrite PROVE op' = op
    BY <1>3 DEF RecoverRead, RecoverWrite
  <1>4. Grows /\ NewSuccess
    BY <1>2, <1>3, SameOps, SameSuccess DEF Operator
  <1> QED BY <1>1, <1>4, AsideSettles

LEMMA LeaseSettles == ASSUME TypeOK, PaidInv, NEW t \in Types, LeaseEnds(t) PROVE Settles
  <1>1. ASSUME NEW s \in Types PROVE op'[s].phase = op[s].phase
    BY DEF LeaseEnds, TypeOK, Op
  <1>2. Grows /\ NewSuccess
    BY <1>1 DEF Grows, NewSuccess, Types
  <1> QED BY <1>2, AsideSettles DEF LeaseEnds, ledger, world

\* Where steps other than those of a settlement may stand.
LEMMA Elsewhere ==
  ASSUME NEW type
  PROVE  /\ \A pc \in {"idle", "start", "throw", "manual", "park"} : At(pc, type)'
         /\ type = "ACTIVATE" => \A pc \in ActivateSteps \union {"finish"} : At(pc, type)'
         /\ type = "RUN" => \A pc \in RunSteps \union {"finish"} : At(pc, type)'
  BY DEF At, ActivateSteps, RunSteps, SettleSteps

LEMMA CommonSettles == ASSUME TypeOK, PaidInv, NEW w \in Workers, Common(w) PROVE Settles
  <1> USE DEF ledger, world, jobs
  <1>0. wk[w] \in Worker /\ wk[w].type \in Types /\ At(wk[w].pc, wk[w].type)
    BY DEF TypeOK, Worker, PaidInv
  <1>1. UNCHANGED <<paid, intent>>
    BY DEF Common, Claim, Fault, Crash, Throw, Manual, Park, Complete
  <1>2. CASE Claim(w)
    <2>1. PICK t \in Types :
            /\ op[t].phase = "live" /\ op' = [op EXCEPT ![t] = Taken(op[t])]
            /\ wk' = [wk EXCEPT ![w] = [Resting EXCEPT !.pc = "start", !.type = t,
                                                       !.op = Taken(op[t])]]
      BY <1>2 DEF Claim, Claimable
    <2>2. Taken(op[t]).phase = op[t].phase
      BY DEF Taken, TypeOK, Op
    <2>3. ASSUME NEW s \in Types PROVE op'[s].phase = op[s].phase
      BY <2>1, <2>2 DEF TypeOK
    <2>4. Lasts /\ NewSuccess
      BY <1>1, <2>3, QuietLasts DEF Grows, NewSuccess, Types
    <2>5. wk'[w].pc = "start" /\ wk'[w].type = t /\ \A v \in Workers : v # w => wk'[v] = wk[v]
      BY <2>1 DEF TypeOK, Resting
    <2>6. At("start", t)'
      BY Elsewhere
    <2> QED BY <2>4, <2>5, <2>6, MoveSettles
  <1>3. ASSUME Fault(w) \/ Crash(w) PROVE Settles
    <2>1. Lasts /\ NewSuccess
      BY <1>1, <1>3, SameOps, SameSuccess, QuietLasts DEF Fault, Crash
    <2>2. Goto(w, "throw") \/ Rest(w)
      BY <1>3 DEF Fault, Crash
    <2>3. \A type \in Types : At("throw", type)'
      BY Elsewhere
    <2> QED BY <2>1, <2>2, <2>3, GotoSettles
  <1>4. CASE Throw(w)
    <2>1. Grows /\ NewSuccess
      <3>1. CASE UNCHANGED op
        BY <3>1, SameOps, SameSuccess
      <3>2. CASE Holds(w) /\ op' = [op EXCEPT ![wk[w].type].phase = "manual",
                                              ![wk[w].type].leased = FALSE]
        <4>1. op[wk[w].type].phase # "absent"
          BY <3>2 DEF Holds
        <4> QED BY <1>0, <3>2, <4>1, PhaseGrows, PhaseSuccess
      <3>3. CASE Write(w, "leased", FALSE)
        BY <3>3, WriteGrows, WriteSuccess
      <3> QED BY <1>4, <3>1, <3>2, <3>3 DEF Throw
    <2>2. PICK pc \in {"manual", "idle"} : Goto(w, pc) \/ Rest(w)
      BY <1>4 DEF Throw
    <2>3. \A type \in Types : At(pc, type)'
      BY Elsewhere
    <2> QED BY <1>1, <2>1, <2>2, <2>3, QuietLasts, GotoSettles
  <1>5. ASSUME Manual(w) \/ Park(w) PROVE Settles
    <2>1. Lasts /\ NewSuccess
      BY <1>1, <1>5, SameOps, SameSuccess, QuietLasts DEF Manual, Park
    <2>2. CASE Rest(w)
      <3>1. \A type \in Types : At("idle", type)'
        BY Elsewhere
      <3> QED BY <2>1, <2>2, <3>1, GotoSettles
    <2>3. CASE wk' = [wk EXCEPT ![w].pc = "park", ![w].seen = life]
      <3>1. PICK t \in Types : t = wk[w].type
        BY <1>0
      <3>2. wk'[w].pc = "park" /\ wk'[w].type = t
        BY <1>0, <2>3, <3>1 DEF TypeOK, Worker
      <3>3. \A v \in Workers : v # w => wk'[v] = wk[v]
        BY <2>3 DEF TypeOK
      <3>4. At("park", t)'
        BY Elsewhere
      <3> QED BY <2>1, <3>2, <3>3, <3>4, MoveSettles
    <2> QED BY <1>5, <2>2, <2>3 DEF Manual, Park
  <1>6. CASE Complete(w)
    <2>1. Grows /\ NewSuccess
      <3>1. CASE UNCHANGED op
        BY <3>1, SameOps, SameSuccess
      <3>2. CASE Holds(w) /\ op' = [op EXCEPT ![wk[w].type].phase = "succeeded",
                                              ![wk[w].type].leased = FALSE]
        <4>1. op[wk[w].type].phase # "absent"
          BY <3>2 DEF Holds
        <4>2. wk[w].type \in {"SETTLE", "RECONCILE"} => Booked /\ HasClose
          BY <1>0, <1>6 DEF Complete, At
        <4> QED BY <1>0, <3>2, <4>1, <4>2, PhaseGrows, PhaseSuccess
      <3> QED BY <1>6, <3>1, <3>2 DEF Complete
    <2>2. Rest(w)
      BY <1>6 DEF Complete
    <2>3. \A type \in Types : At("idle", type)'
      BY Elsewhere
    <2> QED BY <1>1, <2>1, <2>2, <2>3, QuietLasts, GotoSettles
  <1> QED BY <1>2, <1>3, <1>4, <1>5, <1>6 DEF Common

LEMMA ActivationSettles ==
  ASSUME TypeOK, PaidInv, NEW w \in Workers, Activation(w)
  PROVE  Settles
  <1> USE DEF ledger, world, jobs
  <1>0. wk[w] \in Worker /\ wk[w].type \in Types /\ At(wk[w].pc, wk[w].type)
    BY DEF TypeOK, Worker, PaidInv
  <1>1. UNCHANGED <<paid, intent>>
    BY DEF Activation, ActivateStart, Probe, SubmitActivation, RecordActivation, Confirm,
           FinalizeActivation
  <1>2. wk[w].type = "ACTIVATE"
    BY <1>0 DEF Activation, ActivateStart, Probe, SubmitActivation, RecordActivation,
                Confirm, FinalizeActivation, Step, At, ActivateSteps
  <1>3. Grows /\ NewSuccess
    <2>1. \/ op' = op
          \/ \E v \in BOOLEAN : Write(w, "leased", v) \/ Write(w, "tx", v)
          \/ Enqueue({"RUN"})
      BY DEF Activation, ActivateStart, Probe, SubmitActivation, RecordActivation, Confirm,
             FinalizeActivation, StartRunning
    <2> QED BY <2>1, SameOps, SameSuccess, WriteGrows, WriteSuccess, EnqueueGrows,
               EnqueueSuccess
  <1>4. CASE ActivateStart(w) /\ Activating
    <2>1. wk'[w].pc \in {"confirm", "probe"} /\ wk'[w].type = "ACTIVATE"
      BY <1>0, <1>2, <1>4 DEF ActivateStart, TypeOK, Worker
    <2>2. \A v \in Workers : v # w => wk'[v] = wk[v]
      BY <1>4 DEF ActivateStart, TypeOK
    <2>3. PICK pc \in {"confirm", "probe"} : wk'[w].pc = pc
      BY <2>1
    <2>4. At(pc, "ACTIVATE")'
      BY Elsewhere DEF ActivateSteps
    <2> QED BY <1>1, <1>3, <2>1, <2>2, <2>3, <2>4, QuietLasts, MoveSettles
  <1>5. CASE ~(ActivateStart(w) /\ Activating)
    <2>1. PICK pc \in ActivateSteps \union {"finish", "idle"} : Goto(w, pc) \/ Rest(w)
      BY <1>5 DEF Activation, ActivateStart, Probe, SubmitActivation, RecordActivation,
                  Confirm, FinalizeActivation, ActivateSteps
    <2>2. \A type \in Types : type = wk[w].type => At(pc, type)'
      BY <1>2, Elsewhere
    <2> QED BY <1>1, <1>3, <2>1, <2>2, QuietLasts, GotoSettles
  <1> QED BY <1>4, <1>5

LEMMA RunSettles == ASSUME TypeOK, PaidInv, NEW w \in Workers, Run(w) PROVE Settles
  <1> USE DEF ledger, world, jobs
  <1>0. wk[w] \in Worker /\ wk[w].type \in Types /\ At(wk[w].pc, wk[w].type)
    BY DEF TypeOK, Worker, PaidInv
  <1>2. wk[w].type = "RUN"
    BY <1>0 DEF Run, RunStart, FailReclaimedRun, Checkpoint, Stale, AskToPay, Pay,
                AgentFails, AgentReports, Report, CloseReport, Step, At, RunSteps
  <1>3. Grows /\ NewSuccess
    <2>1. op' = op \/ Enqueue({"CLOSE"} \union {"SETTLE", "RECONCILE"}) \/ Enqueue({"CLOSE"})
      BY DEF Run, RunStart, FailReclaimedRun, Checkpoint, Stale, AskToPay, Pay,
             AgentFails, AgentReports, Report, CloseReport, Finish
    <2> QED BY <2>1, SameOps, SameSuccess, EnqueueGrows, EnqueueSuccess
  <1>4. Lasts
    <2>1. paid' = paid /\ (intent' = intent \/ (intent = "none" /\ intent' = "pending"))
      BY DEF Run, RunStart, FailReclaimedRun, Checkpoint, Stale, AskToPay, Pay,
             AgentFails, AgentReports, Report, CloseReport
    <2>2. HasClose => HasClose'
      BY <1>3 DEF HasClose, Grows, Types
    <2> QED BY <2>1, <2>2 DEF Lasts, PaidInv
  <1>5. CASE Report(w) /\ Holds(w)
    <2>1. wk'[w].pc \in {"close", "finish"} /\ wk'[w].type = "RUN"
      BY <1>0, <1>2, <1>5 DEF Report, TypeOK, Worker
    <2>2. \A v \in Workers : v # w => wk'[v] = wk[v]
      BY <1>5 DEF Report, TypeOK
    <2>3. PICK pc \in {"close", "finish"} : wk'[w].pc = pc
      BY <2>1
    <2>4. At(pc, "RUN")'
      BY Elsewhere DEF RunSteps
    <2> QED BY <1>3, <1>4, <2>1, <2>2, <2>3, <2>4, MoveSettles
  <1>6. CASE ~(Report(w) /\ Holds(w))
    <2>1. PICK pc \in RunSteps \union {"finish", "idle"} : Goto(w, pc) \/ Rest(w)
      BY <1>6 DEF Run, RunStart, FailReclaimedRun, Checkpoint, Stale, AskToPay, Pay,
                  AgentFails, AgentReports, Report, CloseReport, RunSteps
    <2>2. \A type \in Types : type = wk[w].type => At(pc, type)'
      BY <1>2, Elsewhere
    <2> QED BY <1>3, <1>4, <2>1, <2>2, GotoSettles
  <1> QED BY <1>5, <1>6

LEMMA SettlementSettles ==
  ASSUME TypeOK, PaidInv, NEW w \in Workers, Settlement(w)
  PROVE  Settles
  <1> USE DEF ledger, world, jobs
  <1>0. /\ wk[w] \in Worker /\ wk[w].type \in Types /\ At(wk[w].pc, wk[w].type)
        /\ paid => intent # "none"
        /\ intent \in {"none", "pending", "confirmed"}
    BY DEF TypeOK, Worker, PaidInv
  <1>1. ASSUME SettleStart(w) \/ CloseStart(w) PROVE Settles
    <2>1. Lasts /\ NewSuccess
      BY <1>1, SameOps, SameSuccess, QuietLasts DEF SettleStart, CloseStart
    <2>2. PICK pc \in {"mark", "submit_batch", "throw"} :
            Goto(w, pc) /\ (pc = "mark" => paid)
              /\ (pc # "throw" => wk[w].type \in {"SETTLE", "RECONCILE"})
      BY <1>1 DEF SettleStart, CloseStart, Recoveries
    <2>3. paid' = paid
      BY <1>1 DEF SettleStart, CloseStart
    <2>4. \A type \in Types : type = wk[w].type => At(pc, type)'
      BY <2>2, <2>3 DEF At, ActivateSteps, RunSteps, SettleSteps
    <2> QED BY <2>1, <2>2, <2>4, GotoSettles
  <1>2. CASE SubmitBatch(w)
    <2>1. paid' /\ intent' = intent /\ intent = "pending" /\ op' = op /\ Goto(w, "mark")
      BY <1>2 DEF SubmitBatch
    <2>2. Lasts /\ NewSuccess
      BY <2>1, SameSuccess DEF Lasts, HasClose
    <2>3. wk[w].type \in {"SETTLE", "RECONCILE"}
      BY <1>0, <1>2 DEF SubmitBatch, At, SettleSteps
    <2>4. \A type \in Types : type = wk[w].type => At("mark", type)'
      BY <2>1, <2>3 DEF At, ActivateSteps, RunSteps, SettleSteps
    <2> QED BY <2>1, <2>2, <2>4, GotoSettles
  <1>3. CASE MarkConfirmed(w)
    <2>1. /\ paid /\ paid' = paid /\ intent' = "confirmed" /\ op' = op
          /\ Goto(w, "record_batch")
      BY <1>0, <1>3 DEF MarkConfirmed, At
    <2>2. Lasts /\ NewSuccess
      BY <2>1, SameSuccess DEF Lasts, HasClose
    <2>3. wk[w].type \in {"SETTLE", "RECONCILE"}
      BY <1>0, <1>3 DEF MarkConfirmed, At, SettleSteps
    <2>4. \A type \in Types : type = wk[w].type => At("record_batch", type)'
      BY <2>1, <2>3 DEF At, ActivateSteps, RunSteps, SettleSteps, Booked
    <2> QED BY <2>1, <2>2, <2>4, GotoSettles
  <1>4. ASSUME RecordBatch(w) \/ EnqueueClose(w) PROVE Settles
    <2>1. UNCHANGED <<paid, intent>>
      BY <1>4 DEF RecordBatch, EnqueueClose
    <2>2. Grows /\ NewSuccess
      BY <1>4, SameOps, SameSuccess, WriteGrows, WriteSuccess, EnqueueGrows, EnqueueSuccess
         DEF RecordBatch, EnqueueClose
    <2>3. Booked /\ wk[w].type \in {"SETTLE", "RECONCILE"}
      BY <1>0, <1>4 DEF RecordBatch, EnqueueClose, At, SettleSteps
    <2>4. Booked'
      BY <2>1, <2>3 DEF Booked
    <2>5. CASE RecordBatch(w)
      <3>1. PICK pc \in {"enqueue_close", "throw"} : Goto(w, pc)
        BY <2>5 DEF RecordBatch
      <3>2. \A type \in Types : type = wk[w].type => At(pc, type)'
        BY <2>3, <2>4, <3>1 DEF At, ActivateSteps, RunSteps, SettleSteps
      <3> QED BY <2>1, <2>2, <3>1, <3>2, QuietLasts, GotoSettles
    <2>6. CASE EnqueueClose(w)
      <3>1. HasClose'
        BY <2>6, EnqueueGrows DEF EnqueueClose, HasClose, Types
      <3>2. \A type \in Types : type = wk[w].type => At("finish", type)'
        BY <2>3, <2>4, <3>1 DEF At, ActivateSteps, RunSteps, SettleSteps
      <3> QED BY <2>1, <2>2, <2>6, <3>2, QuietLasts, GotoSettles DEF EnqueueClose
    <2> QED BY <1>4, <2>5, <2>6
  <1> QED BY <1>1, <1>2, <1>3, <1>4 DEF Settlement

LEMMA NextSettles == ASSUME Typed, PaidInv, [Next]_vars PROVE PaidInv'
  <1>0. TypeOK
    BY DEF Typed
  <1>1. CASE Next
    <2>1. Settles
      BY <1>0, <1>1, ApiSettles, ExpirySettles, OperatorSettles, LeaseSettles,
         CommonSettles, ActivationSettles, RunSettles, SettlementSettles DEF Next
    <2> QED BY <2>1, SettlesInv
  <1>2. CASE UNCHANGED vars
    <2>1. wk' = wk /\ UNCHANGED <<paid, intent>> /\ op' = op
      BY <1>2 DEF vars
    <2> QED BY <1>0, <2>1, SameOps, SameSuccess, AsideSettles, SettlesInv
  <1> QED BY <1>1, <1>2

\* A SETTLE or RECONCILE operation that succeeded has its batch on chain, its intent
\* booked and CLOSE queued, whatever crashes, faults, reclaims and recoveries happen:
\* no configuration of agent or operator is assumed.
THEOREM SettlementIsPayment == Spec => []SettledIsPaid
  <1>1. Init => PaidInv
    <2>1. ASSUME Init PROVE PaidInv
      <3>1. /\ ~paid /\ \A w \in Workers : wk[w].pc = "idle"
            /\ \A t \in Types : op[t].phase = "absent"
        BY <2>1 DEF Init, NoOp, Resting
      <3> QED BY <3>1 DEF PaidInv, SettledIsPaid, At, ActivateSteps, RunSteps, SettleSteps,
                          Types
    <2> QED BY <2>1
  <1>2. Typed /\ PaidInv /\ [Next]_vars => PaidInv'
    BY NextSettles
  <1>3. PaidInv => SettledIsPaid
    BY DEF PaidInv
  <1> QED BY <1>1, <1>2, <1>3, FundedAlways, PTL DEF Spec
=============================================================================
