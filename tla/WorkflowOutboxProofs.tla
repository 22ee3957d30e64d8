------------------------- MODULE WorkflowOutboxProofs -------------------------
(* Theorems about WorkflowOutbox, for every set of keys and workers and every    *)
(* lease, batch and retry setting.                                               *)
EXTENDS WorkflowOutbox, TLAPS

-----------------------------------------------------------------------------
(* What the row operators return. *)

\* A takeover writes a well-formed row, one above the row that was read.
LEMMA ReclaimedRow ==
  ASSUME NEW r \in Row, NEW seen_ \in Row, NEW owner \in Owners, NEW now \in Nat
  PROVE  /\ Reclaimed(r, seen_, owner, now) \in Row
         /\ Reclaimed(r, seen_, owner, now).token = seen_.token + 1
         /\ Reclaimed(r, seen_, owner, now).attempts = seen_.attempts + 1
         /\ Reclaimed(r, seen_, owner, now).phase = r.phase
  <1> DEFINE s == Reclaimed(r, seen_, owner, now)
  <1>1. s.token = seen_.token + 1 /\ s.attempts = seen_.attempts + 1 /\ s.phase = r.phase
    BY DEF Reclaimed, Row
  <1>2. s \in Row
    <2>1. seen_.token + 1 \in Nat /\ seen_.attempts + 1 \in Nat /\ now + LeaseDur \in Nat
      BY LeaseAssumption DEF Row
    <2> QED BY <2>1 DEF Reclaimed, Row
  <1> QED BY <1>1, <1>2

KeepsFence(r, s) == /\ s.token = r.token /\ s.attempts = r.attempts
                    /\ s.phase = "absent" => r.phase = "absent"

\* The writes of a holder, and of the operator, leave fence and attempts alone.
LEMMA HolderRow ==
  ASSUME NEW r \in Row, NEW now \in Nat, NEW phase \in Phases
  PROVE  \A s \in {Renewed(r, now), Checkpointed(r), Broadcast(r),
                   Released(r, phase, now), Completed(r), Recovered(r, phase, now)} :
           s \in Row /\ KeepsFence(r, s)
  <1>0. /\ now + LeaseDur \in Nat /\ {"running", "broadcasting", "succeeded"} \subseteq Phases
        /\ "absent" \notin Phases /\ NoLease \in Nat
    BY LeaseAssumption DEF NoLease, Phases, Live, Terminal
  <1> DEFINE Good(s) == s \in Row /\ KeepsFence(r, s)
  <1> USE DEF KeepsFence
  <1>1. Good(Renewed(r, now))
    BY <1>0 DEF Renewed, Row
  <1>2. Good(Checkpointed(r))
    BY <1>0 DEF Checkpointed, Row
  <1>3. Good(Broadcast(r))
    BY <1>0 DEF Broadcast, Row
  <1>4. Good(Released(r, phase, now)) /\ Good(Recovered(r, phase, now))
    BY <1>0 DEF Released, Recovered, Row
  <1>5. Good(Completed(r))
    BY <1>0 DEF Completed, Row
  <1> QED BY <1>1, <1>2, <1>3, <1>4, <1>5

LEMMA FreshRows ==
  /\ Absent \in Row
  /\ \A owner \in Owners, now \in Nat : Inserted(owner, now) \in Row
  BY LeaseAssumption DEF Absent, Inserted, Row, NoLease, Phases, Live, Terminal

LEMMA RetryDelayType == ASSUME NEW a \in Nat PROVE RetryDelay(a) \in Nat
  BY OutboxAssumption DEF RetryDelay

LEMMA NoCallType == NoCall \in Call
  <1>1. (CHOOSE k \in Keys : TRUE) \in Keys
    BY OutboxAssumption
  <1> QED BY <1>1, FreshRows DEF NoCall, Call

LEMMA SamplesType == ASSUME TypeOK, NEW w \in Workers PROVE Samples(w) \subseteq 0..clock
  BY DEF Samples, TypeOK, Call

LEMMA AskSamplesType ==
  ASSUME TypeOK, NEW k \in Keys
  PROVE  AskSamples(k) \subseteq 0..clock /\ Seen(k) \in Row /\ NoRead \in Read
  BY FreshRows DEF AskSamples, Seen, NoRead, Read, TypeOK

\* What a producer's claim writes: an insert over an absent row, or the takeover of
\* a due row under the fence that follows the one it read.
LEMMA ProducerWrites ==
  ASSUME TypeOK, NEW k \in Keys
  PROVE  /\ Enqueue(k) => \E now \in 0..clock :
              /\ row[k].phase = "absent"
              /\ Answered(k, Inserted(Producer, now))
         /\ Reenqueue(k) => \E now \in 0..clock :
              LET got == Reclaimed(row[k], Seen(k), Producer, now) IN
              /\ CanClaim(row[k], now) /\ Due(row[k], clock)
              /\ got \in Row /\ got.token = Seen(k).token + 1
              /\ got.attempts = Seen(k).attempts + 1 /\ got.phase = row[k].phase
              /\ Answered(k, got)
  <1>1. row[k] \in Row /\ clock \in Nat
    BY DEF TypeOK
  <1>2. ASSUME Enqueue(k)
        PROVE  \E now \in 0..clock :
                 row[k].phase = "absent" /\ Answered(k, Inserted(Producer, now))
    BY <1>2, AskSamplesType DEF Enqueue
  <1>3. ASSUME Reenqueue(k)
        PROVE  \E now \in 0..clock :
                 LET got == Reclaimed(row[k], Seen(k), Producer, now) IN
                 /\ CanClaim(row[k], now) /\ Due(row[k], clock)
                 /\ got \in Row /\ got.token = Seen(k).token + 1
                 /\ got.attempts = Seen(k).attempts + 1 /\ got.phase = row[k].phase
                 /\ Answered(k, got)
    <2>1. PICK now \in 0..clock :
            /\ CanClaim(row[k], now)
            /\ Answered(k, Reclaimed(row[k], Seen(k), Producer, now))
      BY <1>3, AskSamplesType DEF Reenqueue
    <2>2. Due(row[k], clock)
      BY <2>1, <1>1 DEF CanClaim, Due, Row
    <2>3. now \in Nat /\ Producer \in Owners /\ Seen(k) \in Row
      BY <1>1, AskSamplesType, OutboxAssumption
    <2>4. /\ Reclaimed(row[k], Seen(k), Producer, now) \in Row
          /\ Reclaimed(row[k], Seen(k), Producer, now).token = Seen(k).token + 1
          /\ Reclaimed(row[k], Seen(k), Producer, now).attempts = Seen(k).attempts + 1
          /\ Reclaimed(row[k], Seen(k), Producer, now).phase = row[k].phase
      BY ONLY <2>3, <1>1, ReclaimedRow
    <2> QED BY <2>1, <2>2, <2>4
  <1> QED BY <1>2, <1>3

-----------------------------------------------------------------------------
(* Type correctness. *)

\* A holder's step keeps the types whatever row operator it applies.
LEMMA HandlingType ==
  ASSUME TypeOK, NEW w \in Workers, Handling(w)
  PROVE  TypeOK'
  <1> DEFINE k == call[w].key
  <1>1. /\ k \in Keys /\ row[k] \in Row /\ call[w].op \in Row /\ began[w] \in Nat
        /\ Stamp \in Nat /\ BackoffBase \in Nat /\ Samples(w) \subseteq Nat
    <2>1. call[w] \in Call /\ clock \in Nat /\ began[w] \in Nat /\ row \in [Keys -> Row]
      BY DEF TypeOK
    <2>2. k \in Keys /\ row[k] \in Row /\ call[w].op \in Row
      BY <2>1 DEF Call
    <2>3. Stamp \in Nat
      BY <2>1 DEF Stamp
    <2>4. Samples(w) \subseteq Nat
      BY <2>1, SamplesType
    <2> QED BY <2>1, <2>2, <2>3, <2>4, OutboxAssumption
  <1>2. /\ RetryDelay(call[w].op.attempts) \in Nat
        /\ {"queued", "manual"} \subseteq Phases
    BY <1>1, RetryDelayType DEF Row, Phases, Live, Terminal
  <1>3. \/ \E now \in Nat, r \in Row : Mutate(w, now, r)
        \/ UNCHANGED <<row, clock, asked, due, began>>
    <2>1. CASE Renew(w)
      BY <2>1, <1>1, <1>2, HolderRow DEF Renew
    <2>2. CASE Checkpoint(w)
      BY <2>2, <1>1, <1>2, HolderRow DEF Checkpoint
    <2>3. CASE RecordBroadcast(w)
      BY <2>3, <1>1, <1>2, HolderRow DEF RecordBroadcast
    <2>4. CASE Complete(w)
      BY <2>4, <1>1, <1>2, HolderRow DEF Complete
    <2>5. CASE GiveBack(w)
      <3>1. PICK now \in Samples(w) :
              Mutate(w, now, Released(row[k], "queued", now + BackoffBase))
        BY <2>5 DEF GiveBack
      <3>2. now \in Nat /\ now + BackoffBase \in Nat
        BY <1>1
      <3> QED BY <3>1, <3>2, <1>1, <1>2, HolderRow
    <2>6. CASE Throw(w)
      <3>1. Failed(w) \in Row
        <4>1. began[w] + RetryDelay(call[w].op.attempts) \in Nat
          BY <1>1, <1>2
        <4> QED BY <4>1, <1>1, <1>2, HolderRow DEF Failed
      <3> QED BY <2>6, <3>1, <1>1 DEF Throw
    <2>7. CASE Return(w)
      BY <2>7 DEF Return
    <2> QED BY <2>1, <2>2, <2>3, <2>4, <2>5, <2>6, <2>7 DEF Handling
  <1>4. /\ row' \in [Keys -> Row] /\ clock' = clock /\ asked' = asked
        /\ due' = due /\ began' = began
    BY <1>1, <1>3 DEF Mutate, TypeOK
  <1>5. Continue(w) \/ NextInBatch(w)
    BY DEF Handling, Renew, Checkpoint, RecordBroadcast, Complete, GiveBack,
           Throw, Return
  <1>6. pc' \in [Workers -> {"idle", "loop", "write", "handle"}]
    BY <1>5 DEF Continue, NextInBatch, TypeOK
  <1>7. call' \in [Workers -> Call]
    <2>1. CASE Continue(w)
      BY <2>1, <1>1 DEF Continue, TypeOK, Call
    <2>2. CASE NextInBatch(w)
      BY <2>2, NoCallType DEF NextInBatch, TypeOK
    <2> QED BY <1>5, <2>1, <2>2
  <1> QED BY <1>4, <1>6, <1>7 DEF TypeOK

\* Every step keeps the types.
LEMMA TypeStep == ASSUME TypeOK, [Next]_vars PROVE TypeOK'
  <1>1. ASSUME NEW k \in Keys, Enqueue(k) PROVE TypeOK'
    <2>1. PICK now \in 0..clock : Answered(k, Inserted(Producer, now))
      BY <1>1, ProducerWrites
    <2>2. Inserted(Producer, now) \in Row /\ NoRead \in Read
      <3>1. now \in Nat /\ Producer \in Owners
        BY OutboxAssumption DEF TypeOK
      <3> QED BY <3>1, FreshRows, AskSamplesType
    <2> QED BY <2>1, <2>2 DEF Answered, TypeOK, local
  <1>2. ASSUME NEW k \in Keys, Reenqueue(k) PROVE TypeOK'
    <2>1. PICK now \in 0..clock :
            /\ Reclaimed(row[k], Seen(k), Producer, now) \in Row
            /\ Answered(k, Reclaimed(row[k], Seen(k), Producer, now))
      BY <1>2, ProducerWrites
    <2> QED BY <2>1, AskSamplesType DEF Answered, TypeOK, local
  <1>3. ASSUME NEW k \in Keys, Recover(k) PROVE TypeOK'
    <2>1. PICK phase \in {"queued", "succeeded"} :
            row' = [row EXCEPT ![k] = Recovered(row[k], phase, clock)]
      BY <1>3 DEF Recover
    <2>2. phase \in Phases
      BY DEF Phases, Live, Terminal
    <2> QED BY <1>3, <2>1, <2>2, HolderRow DEF Recover, TypeOK, local
  <1>4. ASSUME NEW w \in Workers, Scan(w) PROVE TypeOK'
    <2>1. ListDue \subseteq Entry
      BY DEF ListDue, FirstOf, Entries, Entry, TypeOK, Row
    <2> QED BY <1>4, <2>1 DEF Scan, TypeOK
  <1>5. ASSUME NEW w \in Workers, Leave(w) PROVE TypeOK'
    BY <1>5, NoCallType DEF Leave, TypeOK
  <1>6. ASSUME NEW w \in Workers, Take(w) PROVE TypeOK'
    <2>1. PICK e \in due[w] :
            /\ due' = [due EXCEPT ![w] = @ \ {e}]
            /\ call' = [call EXCEPT ![w] =
                          [key |-> e.key, op |-> row[e.key], at |-> Stamp]]
      BY <1>6 DEF Take
    <2>2. [key |-> e.key, op |-> row[e.key], at |-> Stamp] \in Call
      BY DEF TypeOK, Entry, Call, Stamp
    <2> QED BY <1>6, <2>1, <2>2 DEF Take, TypeOK
  <1>7. ASSUME NEW w \in Workers, Claim(w) PROVE TypeOK'
    <2> DEFINE k == call[w].key
    <2>1. k \in Keys /\ row[k] \in Row /\ RowRead(w) \in Row /\ OwnerOf[w] \in Owners
      BY OutboxAssumption DEF TypeOK, Call, RowRead
    <2>2. PICK now \in Samples(w) :
            /\ row' = [row EXCEPT ![k] = Reclaimed(row[k], RowRead(w), OwnerOf[w], now)]
            /\ call' = [call EXCEPT ![w] =
                 [key |-> k, op |-> Reclaimed(row[k], RowRead(w), OwnerOf[w], now),
                  at |-> Stamp]]
      BY <1>7 DEF Claim
    <2>3. now \in Nat /\ Stamp \in Nat
      BY SamplesType DEF TypeOK, Stamp
    <2>4. Reclaimed(row[k], RowRead(w), OwnerOf[w], now) \in Row
      BY <2>1, <2>3, ReclaimedRow
    <2> HIDE DEF k
    <2> QED BY <1>7, <2>1, <2>2, <2>3, <2>4 DEF Claim, TypeOK, Call
  <1>8. ASSUME NEW w \in Workers, Skip(w) PROVE TypeOK'
    BY <1>8, NoCallType DEF Skip, NextInBatch, TypeOK
  <1>9. CASE Tick
    BY <1>9 DEF Tick, TypeOK, local
  <1>10. CASE UNCHANGED vars
    BY <1>10 DEF vars, TypeOK
  <1>11. ASSUME NEW k \in Keys, Ask(k) \/ Decline(k) PROVE TypeOK'
    <2>1. [op |-> row[k], at |-> clock] \in Read /\ NoRead \in Read
      BY AskSamplesType DEF TypeOK, Read
    <2> QED BY <1>11, <2>1 DEF Ask, Decline, TypeOK, local
  <1> QED
    BY <1>1, <1>2, <1>3, <1>4, <1>5, <1>6, <1>7, <1>8, <1>9, <1>10, <1>11, HandlingType
       DEF Next, Producers, Worker, EndOfBatch, Crash

\* Every reachable state is well typed.
THEOREM TypeCorrect == Spec => []TypeOK
  <1>1. Init => TypeOK
    BY FreshRows, NoCallType DEF Init, TypeOK, Read, NoRead
  <1>2. TypeOK /\ [Next]_vars => TypeOK'
    BY TypeStep
  <1> QED BY <1>1, <1>2, PTL DEF Spec
-----------------------------------------------------------------------------
(* The shapes of a step, as far as fences are concerned. *)

\* No worker starts handling, none changes what it handles.
HandlersKept ==
  \A w \in Workers :
    pc'[w] = "handle" => /\ pc[w] = "handle" /\ call'[w].key = call[w].key
                         /\ call'[w].op = call[w].op

FencesKept == \A k \in Keys : KeepsFence(row[k], row'[k])

LEMMA HandlingShape ==
  ASSUME TypeOK, NEW w \in Workers, Handling(w)
  PROVE  HandlersKept /\ FencesKept
  <1> DEFINE k == call[w].key
  <1>1. /\ call[w] \in Call /\ k \in Keys /\ row[k] \in Row /\ call[w].op \in Row
        /\ row \in [Keys -> Row] /\ call \in [Workers -> Call]
        /\ pc \in [Workers -> {"idle", "loop", "write", "handle"}]
    BY DEF TypeOK, Call
  <1>2. Continue(w) \/ NextInBatch(w)
    BY DEF Handling, Renew, Checkpoint, RecordBroadcast, Complete, GiveBack,
           Throw, Return
  <1>3. pc[w] = "handle"
    BY DEF Handling, Renew, Checkpoint, RecordBroadcast, Complete, GiveBack,
           Throw, Return, Mutate
  <1>4. HandlersKept
    <2>1. CASE Continue(w)
      <3>1. call'[w].key = k /\ call'[w].op = call[w].op
        BY <1>1, <2>1 DEF Continue, Call
      <3>2. \A v \in Workers \ {w} : call'[v] = call[v]
        BY <1>1, <2>1 DEF Continue
      <3> QED BY <2>1, <3>1, <3>2 DEF Continue, HandlersKept
    <2>2. CASE NextInBatch(w)
      BY <1>1, <2>2 DEF NextInBatch, HandlersKept
    <2> QED BY <1>2, <2>1, <2>2
  <1>5. row' = row \/ \E r : KeepsFence(row[k], r) /\ row' = [row EXCEPT ![k] = r]
    <2>1. /\ Samples(w) \subseteq Nat /\ BackoffBase \in Nat /\ began[w] \in Nat
          /\ RetryDelay(call[w].op.attempts) \in Nat
      BY <1>1, SamplesType, RetryDelayType, OutboxAssumption DEF TypeOK, Row
    <2>2. "queued" \in Phases /\ "manual" \in Phases
      BY DEF Phases, Live, Terminal
    <2>3. ASSUME NEW now \in Nat, NEW phase \in Phases
          PROVE  /\ KeepsFence(row[k], Renewed(row[k], now))
                 /\ KeepsFence(row[k], Checkpointed(row[k]))
                 /\ KeepsFence(row[k], Broadcast(row[k]))
                 /\ KeepsFence(row[k], Completed(row[k]))
                 /\ KeepsFence(row[k], Released(row[k], phase, now))
      BY <1>1, HolderRow
    <2>4. CASE Renew(w)
      BY <2>1, <2>2, <2>3, <2>4 DEF Renew, Mutate
    <2>5. CASE Checkpoint(w) \/ RecordBroadcast(w) \/ Complete(w)
      <3>1. 0 \in Nat
        OBVIOUS
      <3> QED BY <2>2, <2>3, <2>5, <3>1 DEF Checkpoint, RecordBroadcast, Complete, Mutate
    <2>6. CASE GiveBack(w)
      <3>1. PICK now \in Samples(w) :
              row' = [row EXCEPT ![k] = Released(row[k], "queued", now + BackoffBase)]
        BY <2>6 DEF GiveBack, Mutate
      <3>2. now + BackoffBase \in Nat
        BY <2>1
      <3> QED BY <2>2, <2>3, <3>1, <3>2
    <2>7. CASE Throw(w)
      <3>1. row' = [row EXCEPT ![k] = Failed(w)]
        BY <2>7 DEF Throw, Mutate
      <3>2. began[w] + RetryDelay(call[w].op.attempts) \in Nat
        BY <2>1
      <3>3. KeepsFence(row[k], Failed(w))
        BY <2>1, <2>2, <2>3, <3>2 DEF Failed
      <3> QED BY <3>1, <3>3
    <2>8. CASE Return(w)
      BY <2>8 DEF Return
    <2> QED BY <2>4, <2>5, <2>6, <2>7, <2>8 DEF Handling
  <1>6. FencesKept
    <2>1. CASE row' = row
      BY <2>1 DEF FencesKept, KeepsFence
    <2>2. CASE \E r : KeepsFence(row[k], r) /\ row' = [row EXCEPT ![k] = r]
      BY <2>2, <1>1 DEF FencesKept, KeepsFence
    <2> QED BY <1>5, <2>1, <2>2
  <1> QED BY <1>4, <1>6

\* Only an enqueue, a takeover by a producer and a worker's claim move a fence.
LEMMA StepShape ==
  ASSUME TypeOK, [Next]_vars
  PROVE  \/ HandlersKept /\ FencesKept
         \/ HandlersKept /\ \E k \in Keys : Enqueue(k) \/ Reenqueue(k)
         \/ \E w \in Workers : Claim(w)
  <1> USE DEF TypeOK
  <1>1. ASSUME UNCHANGED <<pc, call>> PROVE HandlersKept
    BY <1>1 DEF HandlersKept
  <1>2. CASE \E k \in Keys : Enqueue(k) \/ Reenqueue(k)
    BY <1>1, <1>2 DEF Enqueue, Reenqueue, Answered, local
  <1>3. ASSUME NEW k \in Keys, Recover(k) PROVE HandlersKept /\ FencesKept
    <2>1. PICK phase \in {"queued", "succeeded"} :
            row' = [row EXCEPT ![k] = Recovered(row[k], phase, clock)]
      BY <1>3 DEF Recover
    <2>2. KeepsFence(row[k], Recovered(row[k], phase, clock))
      <3>1. phase \in Phases /\ row[k] \in Row /\ clock \in Nat
        BY DEF Phases, Live, Terminal
      <3> QED BY <3>1, HolderRow
    <2> QED BY <1>1, <1>3, <2>1, <2>2 DEF FencesKept, KeepsFence, Recover, local
  <1>4. ASSUME NEW w \in Workers, Scan(w) \/ Leave(w) \/ Skip(w) \/ Take(w)
        PROVE  HandlersKept /\ FencesKept
    BY <1>4 DEF Scan, Leave, Skip, Take, NextInBatch, HandlersKept, FencesKept, KeepsFence
  <1>5. CASE Tick \/ UNCHANGED vars \/ \E k \in Keys : Ask(k) \/ Decline(k)
    BY <1>1, <1>5 DEF Tick, Ask, Decline, vars, local, FencesKept, KeepsFence
  <1> QED BY <1>2, <1>3, <1>4, <1>5, HandlingShape
             DEF Next, Producers, Worker, EndOfBatch, Crash

-----------------------------------------------------------------------------
(* Mutual exclusion with the memory repository: every token handed out is at   *)
(* most the row's, and no two workers have the same one for the same operation. *)

FencedInv ==
  /\ \A k \in Keys : row[k].phase = "absent" => row[k].token = 0
  /\ \A w \in Workers :
       pc[w] = "handle" => call[w].op.token <= row[call[w].key].token
  /\ \A v, w \in Workers :
       v # w /\ pc[v] = "handle" /\ pc[w] = "handle" /\ call[v].key = call[w].key
         => call[v].op.token # call[w].op.token

LEMMA FencedInvStep ==
  ASSUME TypeOK, FencedInv, [Next]_vars, Synchronous
  PROVE  FencedInv'
  <1>0. \A w \in Workers : /\ call[w].key \in Keys /\ call[w].op.token \in Nat
                           /\ row[call[w].key].token \in Nat
    BY DEF TypeOK, Call, Row
  <1>1. ASSUME HandlersKept,
               \A k \in Keys : /\ row'[k].token >= row[k].token
                               /\ row'[k].phase = "absent" => row'[k].token = 0
        PROVE  FencedInv'
    <2>1. ASSUME NEW w \in Workers, pc'[w] = "handle"
          PROVE  call'[w].op.token <= row'[call'[w].key].token
      <3>1. /\ pc[w] = "handle" /\ call'[w].key = call[w].key
            /\ call'[w].op = call[w].op
        BY <1>1, <2>1 DEF HandlersKept
      <3>2. call[w].op.token <= row[call[w].key].token
        BY <3>1 DEF FencedInv
      <3>3. row'[call[w].key].token \in Nat
        BY <1>0, TypeStep DEF TypeOK, Row
      <3> QED BY <1>0, <1>1, <3>1, <3>2, <3>3
    <2> QED BY <1>1, <2>1 DEF HandlersKept, FencedInv
  <1>2. CASE HandlersKept /\ FencesKept
    <2>1. \A k \in Keys : row[k].token \in Nat
      BY DEF TypeOK, Row
    <2> QED BY <1>1, <1>2, <2>1 DEF FencesKept, KeepsFence, FencedInv
  <1>3. ASSUME HandlersKept, NEW k \in Keys, Enqueue(k) PROVE FencedInv'
    <2>1. PICK now : row' = [row EXCEPT ![k] = Inserted(Producer, now)] /\ row[k].token = 0
      BY <1>3, ProducerWrites DEF Answered, FencedInv
    <2>2. /\ Inserted(Producer, now).token = 1
          /\ Inserted(Producer, now).phase = "queued"
      BY DEF Inserted
    <2>3. \A j \in Keys : row[j].token \in Nat
      BY DEF TypeOK, Row
    <2> QED BY <1>1, <1>3, <2>1, <2>2, <2>3 DEF FencedInv, TypeOK
  <1>4. ASSUME HandlersKept, NEW k \in Keys, Reenqueue(k) PROVE FencedInv'
    <2>0. Seen(k) = row[k]
      BY DEF Seen
    <2>1. PICK now :
            /\ row' = [row EXCEPT ![k] = Reclaimed(row[k], row[k], Producer, now)]
            /\ Reclaimed(row[k], row[k], Producer, now).token = row[k].token + 1
            /\ Reclaimed(row[k], row[k], Producer, now).phase = row[k].phase
            /\ Due(row[k], clock)
      BY <1>4, <2>0, ProducerWrites DEF Answered
    <2>2. row[k].phase # "absent"
      BY <2>1 DEF Due, Live
    <2>3. /\ Reclaimed(row[k], row[k], Producer, now).token = row[k].token + 1
          /\ Reclaimed(row[k], row[k], Producer, now).phase = row[k].phase
      BY <2>1
    <2>4. \A j \in Keys : row[j].token \in Nat
      BY DEF TypeOK, Row
    <2> QED BY <1>1, <1>4, <2>1, <2>2, <2>3, <2>4 DEF FencedInv, TypeOK
  <1>5. ASSUME NEW w \in Workers, Claim(w) PROVE FencedInv'
    <2> DEFINE k == call[w].key
    <2>0. RowRead(w) = row[k] /\ \A now \in Nat : Claimable(w, now) => row[k].phase # "absent"
      BY DEF RowRead, Claimable, CanClaim, Due, Live
    <2>1. PICK now \in Samples(w) :
            /\ row' = [row EXCEPT ![k] = Reclaimed(row[k], row[k], OwnerOf[w], now)]
            /\ call' = [call EXCEPT ![w] =
                 [key |-> k, op |-> Reclaimed(row[k], row[k], OwnerOf[w], now),
                  at |-> Stamp]]
            /\ row[k].phase # "absent"
      <3>1. Samples(w) \subseteq Nat
        BY SamplesType DEF TypeOK
      <3> HIDE DEF k
      <3> QED BY <1>5, <2>0, <3>1 DEF Claim, k
    <2>2. pc' = [pc EXCEPT ![w] = "handle"] /\ pc[w] = "write"
      BY <1>5 DEF Claim
    <2>3. now \in Nat /\ OwnerOf[w] \in Owners /\ row[k] \in Row /\ k \in Keys
      <3>1. now \in Nat
        BY SamplesType DEF TypeOK
      <3>2. k \in Keys
        BY <1>0
      <3>3. row[k] \in Row
        BY <3>2 DEF TypeOK
      <3>4. OwnerOf[w] \in Owners
        BY OutboxAssumption
      <3> QED BY <3>1, <3>2, <3>3, <3>4
    <2> DEFINE got == Reclaimed(row[k], row[k], OwnerOf[w], now)
    <2>4. got.token = row[k].token + 1 /\ got.phase = row[k].phase
      BY <2>3, ReclaimedRow
    <2>5. /\ call'[w].key = k /\ call'[w].op = got /\ row'[k] = got
          /\ \A v \in Workers \ {w} : call'[v] = call[v] /\ pc'[v] = pc[v]
          /\ \A j \in Keys \ {k} : row'[j] = row[j]
      BY <2>1, <2>2, <2>3 DEF TypeOK
    <2>6. row[k].token \in Nat
      BY <2>3 DEF Row
    <2> HIDE DEF k, got
    <2>7. \A v \in Workers \ {w} :
            pc[v] = "handle" /\ call[v].key = k => call[v].op.token <= row[k].token
      BY DEF FencedInv
    <2>8. \A j \in Keys : row'[j].phase = "absent" => row'[j].token = 0
      BY <2>1, <2>4, <2>5 DEF FencedInv
    <2>9. ASSUME NEW v \in Workers, pc'[v] = "handle"
          PROVE  call'[v].op.token <= row'[call'[v].key].token
      <3>1. CASE v = w
        BY <3>1, <2>4, <2>5, <2>6
      <3>2. CASE v # w /\ call[v].key = k
        BY <3>2, <2>4, <2>5, <2>6, <2>7, <2>9, <1>0
      <3>3. CASE v # w /\ call[v].key # k
        BY <3>3, <2>5, <2>9, <1>0 DEF FencedInv
      <3> QED BY <3>1, <3>2, <3>3
    <2>10. ASSUME NEW u \in Workers, NEW v \in Workers, v # u, pc'[v] = "handle",
                  pc'[u] = "handle", call'[v].key = call'[u].key
           PROVE  call'[v].op.token # call'[u].op.token
      <3>1. CASE v = w
        BY <3>1, <2>4, <2>5, <2>6, <2>7, <2>10, <1>0
      <3>2. CASE u = w
        BY <3>2, <2>4, <2>5, <2>6, <2>7, <2>10, <1>0
      <3>3. CASE v # w /\ u # w
        BY <3>3, <2>5, <2>10 DEF FencedInv
      <3> QED BY <3>1, <3>2, <3>3
    <2> QED BY <2>8, <2>9, <2>10 DEF FencedInv
  <1> QED BY <1>2, <1>3, <1>4, <1>5, StepShape

\* With the memory repository at most one worker can write an operation.
THEOREM MutualExclusion == Synchronous => (Spec => []OneHolder)
  <1> SUFFICES ASSUME Synchronous PROVE Spec => []OneHolder
    OBVIOUS
  <1>1. Init => FencedInv
    BY DEF Init, FencedInv, Absent
  <1>2. TypeOK /\ FencedInv /\ [Next]_vars => FencedInv'
    BY FencedInvStep
  <1>3. FencedInv => OneHolder
    BY DEF FencedInv, OneHolder, Holds, CanMutate
  <1> QED BY <1>1, <1>2, <1>3, TypeCorrect, PTL DEF Spec

\* With the memory repository a fence never falls, and a worker's claim always
\* raises it.
THEOREM MemoryFences == Synchronous => (Spec => FencesNeverFall /\ ClaimsAreFenced)
  <1> SUFFICES ASSUME Synchronous PROVE Spec => FencesNeverFall /\ ClaimsAreFenced
    OBVIOUS
  <1> DEFINE Rise == \A k \in Keys : row'[k].token >= row[k].token
             Fenced == \A w \in Workers :
                         pc[w] = "write" /\ pc'[w] = "handle"
                           => call'[w].op.token > row[call[w].key].token
  <1>1. ASSUME TypeOK, FencedInv, [Next]_vars PROVE Rise /\ Fenced
    <2>0. \A k \in Keys : row[k] \in Row /\ row[k].token \in Nat
      BY <1>1 DEF TypeOK, Row
    <2>1. HandlersKept => Fenced
      BY DEF HandlersKept
    <2>2. FencesKept => Rise
      BY <2>0 DEF FencesKept, KeepsFence
    <2>3. ASSUME NEW k \in Keys, Enqueue(k) PROVE Rise
      <3>1. PICK now : /\ row' = [row EXCEPT ![k] = Inserted(Producer, now)]
                       /\ row[k].token = 0
        BY <1>1, <2>3, ProducerWrites DEF Answered, FencedInv
      <3>2. Inserted(Producer, now).token = 1
        BY DEF Inserted
      <3> QED BY <1>1, <2>0, <3>1, <3>2 DEF TypeOK
    <2>4. ASSUME NEW k \in Keys, Reenqueue(k) PROVE Rise
      <3>1. Seen(k) = row[k]
        BY DEF Seen
      <3>2. PICK now :
              /\ row' = [row EXCEPT ![k] = Reclaimed(row[k], row[k], Producer, now)]
              /\ Reclaimed(row[k], row[k], Producer, now).token = row[k].token + 1
        BY <1>1, <2>4, <3>1, ProducerWrites DEF Answered
      <3> QED BY <1>1, <2>0, <3>2 DEF TypeOK
    <2>5. ASSUME NEW w \in Workers, Claim(w) PROVE Rise /\ Fenced
      <3> DEFINE k == call[w].key
      <3>1. RowRead(w) = row[k]
        BY DEF RowRead
      <3>2. PICK now \in Samples(w) :
              /\ row' = [row EXCEPT ![k] = Reclaimed(row[k], row[k], OwnerOf[w], now)]
              /\ call' = [call EXCEPT ![w] =
                   [key |-> k, op |-> Reclaimed(row[k], row[k], OwnerOf[w], now),
                    at |-> Stamp]]
        BY <2>5, <3>1 DEF Claim
      <3>3. pc' = [pc EXCEPT ![w] = "handle"]
        BY <2>5 DEF Claim
      <3>4. now \in Nat
        BY <1>1, SamplesType DEF TypeOK
      <3>5. k \in Keys
        BY <1>1 DEF TypeOK, Call
      <3>6. Reclaimed(row[k], row[k], OwnerOf[w], now).token = row[k].token + 1
        <4>1. row[k] \in Row /\ OwnerOf[w] \in Owners
          BY <2>0, <3>5, OutboxAssumption
        <4> HIDE DEF k
        <4> QED BY <3>4, <4>1, ReclaimedRow
      <3>7. Rise
        BY <1>1, <2>0, <3>2, <3>5, <3>6 DEF TypeOK
      <3>8. call'[w].op.token > row[k].token
        <4>1. call'[w].op = Reclaimed(row[k], row[k], OwnerOf[w], now)
          BY <1>1, <3>2 DEF TypeOK
        <4> QED BY <2>0, <3>5, <3>6, <4>1
      <3>9. \A v \in Workers \ {w} : pc'[v] = pc[v]
        BY <1>1, <3>3 DEF TypeOK
      <3> QED BY <3>7, <3>8, <3>9
    <2> QED BY <1>1, <2>1, <2>2, <2>3, <2>4, <2>5, StepShape
  <1>2. Init => FencedInv
    BY DEF Init, FencedInv, Absent
  <1>3. TypeOK /\ FencedInv /\ [Next]_vars => FencedInv'
    BY FencedInvStep
  <1>4. Spec => []FencedInv
    BY <1>2, <1>3, TypeCorrect, PTL DEF Spec
  <1>5. TypeOK /\ FencedInv /\ [Next]_vars => [Rise]_vars /\ [Fenced]_vars
    BY <1>1
  <1> QED BY <1>4, <1>5, TypeCorrect, PTL DEF Spec, FencesNeverFall, ClaimsAreFenced

-----------------------------------------------------------------------------
(* Both repositories: what a step may do to a row. *)

\* Every write is a claim of a due row, an insert, a recovery or a holder's; the
\* last two keep the fence.
LEMMA RowStep ==
  ASSUME TypeOK, [Next]_vars, NEW k \in Keys, row'[k] # row[k]
  PROVE  \/ row[k].phase = "absent"
         \/ Due(row[k], clock)
         \/ /\ row[k].phase = "manual" /\ row'[k].owner = "nobody"
            /\ row'[k].token = row[k].token
         \/ /\ row[k].phase \in Live
            /\ row'[k].owner \in {row[k].owner, "nobody"}
            /\ row'[k].token = row[k].token
  <1>1. ASSUME NEW j \in Keys, Enqueue(j) \/ Reenqueue(j) \/ Recover(j)
        PROVE  \/ row[k].phase = "absent" \/ Due(row[k], clock)
               \/ /\ row[k].phase = "manual" /\ row'[k].owner = "nobody"
                  /\ row'[k].token = row[k].token
    <2>1. CASE Enqueue(j) \/ Reenqueue(j)
      <3>1. j = k
        <4>1. PICK r : Answered(j, r)
          BY <2>1, ProducerWrites
        <4> QED BY <4>1 DEF Answered, TypeOK
      <3> QED BY <2>1, <3>1, ProducerWrites
    <2>2. CASE Recover(j)
      BY <2>2 DEF Recover, TypeOK, Recovered, Released, Row
    <2> QED BY <1>1, <2>1, <2>2
  <1>2. ASSUME NEW w \in Workers, Claim(w) PROVE Due(row[k], clock)
    <2>1. PICK now \in Samples(w) : Claimable(w, now)
      BY <1>2 DEF Claim
    <2>2. call[w].key = k
      BY <1>2 DEF Claim, TypeOK
    <2>3. now \in 0..clock
      BY SamplesType
    <2> QED BY <2>1, <2>2, <2>3 DEF Claimable, CanClaim, Due, TypeOK, Row
  <1>3. ASSUME NEW w \in Workers, Handling(w)
        PROVE  /\ row[k].phase \in Live
               /\ row'[k].owner \in {row[k].owner, "nobody"}
               /\ row'[k].token = row[k].token
    <2>1. PICK r : /\ row' = [row EXCEPT ![call[w].key] = r]
                   /\ r.owner \in {row[call[w].key].owner, "nobody"}
                   /\ row[call[w].key].phase \in Live
      <3>1. row[call[w].key] \in Row
        BY DEF TypeOK, Call
      <3>2. ASSUME NEW now, NEW phase, NEW s \in Row
            PROVE  /\ Renewed(s, now).owner = s.owner
                   /\ Checkpointed(s).owner = s.owner
                   /\ Broadcast(s).owner = s.owner
                   /\ Completed(s).owner = "nobody"
                   /\ Released(s, phase, now).owner = "nobody"
        BY DEF Renewed, Checkpointed, Broadcast, Completed, Released, Row
      <3>3. CASE Renew(w)
        <4>1. PICK now :
                /\ row' = [row EXCEPT ![call[w].key] = Renewed(row[call[w].key], now)]
                /\ row[call[w].key].phase \in Live
          BY <3>3 DEF Renew, Mutate, CanMutate
        <4> QED BY <3>1, <3>2, <4>1
      <3>4. CASE Checkpoint(w)
        <4>1. /\ row' = [row EXCEPT ![call[w].key] = Checkpointed(row[call[w].key])]
              /\ row[call[w].key].phase \in Live
          BY <3>4 DEF Checkpoint, Mutate, CanMutate
        <4> QED BY <3>1, <3>2, <4>1
      <3>5. CASE RecordBroadcast(w)
        <4>1. /\ row' = [row EXCEPT ![call[w].key] = Broadcast(row[call[w].key])]
              /\ row[call[w].key].phase \in Live
          BY <3>5 DEF RecordBroadcast, Mutate, CanMutate
        <4> QED BY <3>1, <3>2, <4>1
      <3>6. CASE Complete(w)
        <4>1. /\ row' = [row EXCEPT ![call[w].key] = Completed(row[call[w].key])]
              /\ row[call[w].key].phase \in Live
          BY <3>6 DEF Complete, Mutate, CanMutate
        <4> QED BY <3>1, <3>2, <4>1
      <3>7. CASE GiveBack(w) \/ Throw(w)
        BY <3>1, <3>2, <3>7 DEF GiveBack, Throw, Failed, Mutate, CanMutate
      <3>8. CASE Return(w)
        BY <3>8 DEF Return
      <3> QED BY <1>3, <3>3, <3>7, <3>8, <3>4, <3>5, <3>6 DEF Handling
    <2>2. call[w].key = k
      BY <2>1 DEF TypeOK
    <2>3. row'[k].token = row[k].token
      BY <1>3, HandlingShape DEF FencesKept, KeepsFence
    <2> QED BY <2>1, <2>2, <2>3 DEF TypeOK
  <1>4. ASSUME NEW w \in Workers, Scan(w) \/ Leave(w) \/ Take(w) \/ Skip(w)
        PROVE  FALSE
    BY <1>4 DEF Scan, Leave, Take, Skip
  <1>5. CASE Tick \/ UNCHANGED vars \/ \E j \in Keys : Ask(j) \/ Decline(j)
    BY <1>5 DEF Tick, Ask, Decline, vars
  <1> QED BY <1>1, <1>2, <1>3, <1>4, <1>5
             DEF Next, Producers, Worker, EndOfBatch, Crash

\* A completed operation is never written again, with either repository.
THEOREM CompletionIsFinal == Spec => SucceededIsFinal
  <1>1. TypeOK /\ [Next]_vars
          => [\A k \in Keys : row[k].phase = "succeeded" => row'[k] = row[k]]_vars
    BY RowStep DEF Due, Live
  <1> QED BY <1>1, TypeCorrect, PTL DEF Spec, SucceededIsFinal

\* A worker starts to handle an operation only when it is due at that moment.
LEMMA ClaimsAreDue ==
  ASSUME TypeOK, [Next]_vars, NEW w \in Workers, pc[w] = "write", pc'[w] = "handle"
  PROVE  Due(row[call[w].key], clock)
  <1>1. ~HandlersKept
    BY DEF HandlersKept
  <1>2. PICK v \in Workers : Claim(v)
    BY <1>1, StepShape
  <1>3. v = w
    BY <1>2 DEF Claim, TypeOK
  <1>4. PICK now \in Samples(w) : Claimable(w, now)
    BY <1>2, <1>3 DEF Claim
  <1>5. now \in 0..clock
    BY SamplesType
  <1>6. row[call[w].key] \in Row
    BY DEF TypeOK, Call
  <1> QED BY <1>4, <1>5, <1>6 DEF Claimable, CanClaim, Due, TypeOK, Row

\* A running lease is never taken over, with either repository, under one workerId
\* or several: however old the clock sample and the row a claim started from.
THEOREM LeasesHold == Spec => NoPreemption
  <1> DEFINE Timely ==
               /\ \A w \in Workers :
                    pc[w] = "write" /\ pc'[w] = "handle" => Due(row[call[w].key], clock)
               /\ \A k \in Keys :
                    \/ row'[k].token # row[k].token
                    \/ row'[k].owner \notin {row[k].owner, "nobody"}
                      => row[k].phase = "absent" \/ Due(row[k], clock)
  <1>1. TypeOK /\ [Next]_vars => Timely
    BY RowStep, ClaimsAreDue
  <1>2. TypeOK /\ [Next]_vars => [Timely]_vars
    BY <1>1
  <1> QED BY <1>2, TypeCorrect, PTL DEF Spec, NoPreemption

-----------------------------------------------------------------------------
(* Both repositories: attempts and fence of an operation count the same claims,  *)
(* on the row and in the copies that a producer read and a worker was given.     *)

Counted == /\ \A k \in Keys : row[k].attempts = row[k].token
           /\ \A k \in Keys : asked[k].op.attempts = asked[k].op.token
           /\ \A w \in Workers : call[w].op.attempts = call[w].op.token

\* What a worker holds is what it held, nothing, a row, or what it just claimed.
LEMMA CallStep ==
  ASSUME TypeOK, [Next]_vars, NEW w \in Workers
  PROVE  \/ call'[w].op = call[w].op
         \/ call'[w].op = Absent
         \/ \E k \in Keys : call'[w].op = row[k]
         \/ Claim(w)
  <1> USE DEF TypeOK
  <1>1. CASE UNCHANGED call
    BY <1>1
  <1>2. ASSUME NEW v \in Workers, Leave(v) \/ Skip(v) \/ NextInBatch(v)
        PROVE  call'[w].op = call[w].op \/ call'[w].op = Absent
    BY <1>2 DEF Leave, Skip, NextInBatch, NoCall
  <1>3. ASSUME NEW v \in Workers, Take(v)
        PROVE  call'[w].op = call[w].op \/ \E k \in Keys : call'[w].op = row[k]
    <2>1. PICK e \in due[v] :
            call' = [call EXCEPT ![v] = [key |-> e.key, op |-> row[e.key], at |-> Stamp]]
      BY <1>3 DEF Take
    <2>2. e.key \in Keys
      BY DEF Entry
    <2> QED BY <2>1, <2>2
  <1>4. ASSUME NEW v \in Workers, Claim(v) PROVE call'[w].op = call[w].op \/ v = w
    BY <1>4 DEF Claim
  <1>5. ASSUME NEW v \in Workers, Continue(v) PROVE call'[w].op = call[w].op
    BY <1>5 DEF Continue, Call
  <1>6. ASSUME NEW v \in Workers, Handling(v) PROVE Continue(v) \/ NextInBatch(v)
    BY <1>6 DEF Handling, Renew, Checkpoint, RecordBroadcast, Complete, GiveBack, Throw,
                Return
  <1>7. CASE Producers \/ Tick \/ UNCHANGED vars
    BY <1>1, <1>7 DEF Producers, Ask, Enqueue, Reenqueue, Decline, Answered, Recover,
                      Tick, vars, local
  <1>8. ASSUME NEW v \in Workers, Scan(v) PROVE UNCHANGED call
    BY <1>8 DEF Scan
  <1> QED BY <1>1, <1>2, <1>3, <1>4, <1>5, <1>6, <1>7, <1>8
             DEF Next, Worker, EndOfBatch, Crash

\* What a producer has read is what it had read, a row, or nothing.
LEMMA AskedStep ==
  ASSUME TypeOK, [Next]_vars, NEW k \in Keys
  PROVE  asked'[k].op \in {asked[k].op, row[k], Absent}
  <1> USE DEF TypeOK
  <1>1. CASE UNCHANGED asked
    BY <1>1
  <1>2. ASSUME NEW j \in Keys, Ask(j) \/ Enqueue(j) \/ Reenqueue(j) \/ Decline(j)
        PROVE  asked'[k].op \in {asked[k].op, row[k], Absent}
    BY <1>2 DEF Ask, Enqueue, Reenqueue, Decline, Answered, NoRead
  <1>3. ASSUME NEW j \in Keys, Recover(j) PROVE UNCHANGED asked
    BY <1>3 DEF Recover
  <1>4. ASSUME NEW w \in Workers, Worker(w) PROVE UNCHANGED asked
    BY <1>4 DEF Worker, Scan, EndOfBatch, Crash, Leave, Take, Claim, Skip, Handling,
                Renew, Checkpoint, RecordBroadcast, Complete, GiveBack, Return, Throw,
                Mutate
  <1>5. CASE Tick \/ UNCHANGED vars
    BY <1>5 DEF Tick, vars
  <1> QED BY <1>1, <1>2, <1>3, <1>4, <1>5 DEF Next, Producers

LEMMA CountedStep == ASSUME TypeOK, Counted, [Next]_vars PROVE Counted'
  <1>1. ASSUME NEW w \in Workers, Claim(w)
        PROVE  /\ \A k \in Keys : row'[k].attempts = row'[k].token
               /\ call'[w].op.attempts = call'[w].op.token
    <2> DEFINE k == call[w].key
    <2>1. k \in Keys /\ row[k] \in Row /\ RowRead(w) \in Row /\ OwnerOf[w] \in Owners
      BY OutboxAssumption DEF TypeOK, Call, RowRead
    <2>2. RowRead(w).attempts = RowRead(w).token
      BY <2>1 DEF Counted, RowRead
    <2>3. PICK now \in Samples(w) :
            /\ row' = [row EXCEPT ![k] = Reclaimed(row[k], RowRead(w), OwnerOf[w], now)]
            /\ call' = [call EXCEPT ![w] =
                 [key |-> k, op |-> Reclaimed(row[k], RowRead(w), OwnerOf[w], now),
                  at |-> Stamp]]
      BY <1>1 DEF Claim
    <2>4. now \in Nat
      BY SamplesType DEF TypeOK
    <2> HIDE DEF k
    <2> DEFINE got == Reclaimed(row[k], RowRead(w), OwnerOf[w], now)
    <2>5. got.attempts = got.token
      <3>1. got.token = RowRead(w).token + 1 /\ got.attempts = RowRead(w).attempts + 1
        BY ONLY <2>1, <2>4, ReclaimedRow DEF got
      <3> HIDE DEF got
      <3> QED BY ONLY <2>2, <3>1
    <2> HIDE DEF got
    <2> QED BY <2>1, <2>3, <2>5 DEF TypeOK, Counted, got
  <1>2. \A k \in Keys : row'[k].attempts = row'[k].token
    <2>1. CASE FencesKept
      BY <2>1 DEF FencesKept, KeepsFence, Counted
    <2>2. ASSUME NEW k \in Keys, Enqueue(k)
          PROVE  \A j \in Keys : row'[j].attempts = row'[j].token
      BY <2>2, ProducerWrites DEF Answered, Inserted, TypeOK, Counted
    <2>3. ASSUME NEW k \in Keys, Reenqueue(k)
          PROVE  \A j \in Keys : row'[j].attempts = row'[j].token
      <3>1. Seen(k).attempts = Seen(k).token
        BY DEF Seen, Counted
      <3>2. PICK r : r.attempts = r.token /\ Answered(k, r)
        BY <2>3, <3>1, ProducerWrites
      <3> QED BY <3>2 DEF Answered, TypeOK, Counted
    <2> QED BY <1>1, <2>1, <2>2, <2>3, StepShape
  <1>3. ASSUME NEW w \in Workers PROVE call'[w].op.attempts = call'[w].op.token
    BY <1>1, CallStep DEF Counted, Absent
  <1>4. ASSUME NEW k \in Keys PROVE asked'[k].op.attempts = asked'[k].op.token
    BY AskedStep DEF Counted, Absent
  <1> QED BY <1>2, <1>3, <1>4 DEF Counted

LEMMA CountedAlways == Spec => []Counted
  <1>1. Init => Counted
    BY DEF Init, Counted, NoCall, NoRead, Absent
  <1> QED BY <1>1, CountedStep, TypeCorrect, PTL DEF Spec

-----------------------------------------------------------------------------
(* What each write does to the row of its operation. *)

\* The operation stays open under its fence.
StaysOpen(r, s) == s.phase \in Live /\ s.token = r.token

LEMMA OpenRow ==
  ASSUME NEW r \in Row, r.phase \in Live, NEW now, NEW owner
  PROVE  /\ StaysOpen(r, Renewed(r, now)) /\ StaysOpen(r, Checkpointed(r))
         /\ StaysOpen(r, Broadcast(r)) /\ StaysOpen(r, Released(r, "queued", now))
         /\ Completed(r).phase = "succeeded" /\ Completed(r).token = r.token
         /\ Released(r, "manual", now).phase = "manual"
         /\ Released(r, "manual", now).token = r.token
         /\ Released(r, "manual", now).attempts = r.attempts
  BY DEF StaysOpen, Renewed, Checkpointed, Broadcast, Released, Completed, Row, Live

\* A holder keeps its operation open, completes it, or parks it once its attempts
\* are used up and lets it go.
LEMMA HandlingOutcome ==
  ASSUME TypeOK, Counted, NEW w \in Workers, Handling(w)
  PROVE  LET k == call[w].key
             s == row'[k]
         IN  /\ pc[w] = "handle" /\ k \in Keys
             /\ \A j \in Keys \ {k} : row'[j] = row[j]
             /\ Continue(w) \/ NextInBatch(w)
             /\ \/ s = row[k]
                \/ /\ row[k].phase \in Live /\ row[k].token = call[w].op.token
                   /\ \/ StaysOpen(row[k], s)
                      \/ /\ s.phase = "succeeded" /\ s.token = row[k].token
                         /\ Continue(w)
                      \/ /\ s.phase = "manual" /\ s.token = row[k].token
                         /\ s.attempts = row[k].attempts
                         /\ row[k].token >= MaxAttempts /\ NextInBatch(w)
  <1> DEFINE k == call[w].key
             s == row'[k]
  <1>1. k \in Keys /\ row[k] \in Row /\ row \in [Keys -> Row]
    BY DEF TypeOK, Call
  <1>2. Continue(w) \/ NextInBatch(w)
    BY DEF Handling, Renew, Checkpoint, RecordBroadcast, Complete, GiveBack, Throw, Return
  <1>3. pc[w] = "handle"
    BY DEF Handling, Renew, Checkpoint, RecordBroadcast, Complete, GiveBack, Throw,
           Return, Mutate
  <1> DEFINE Held == row[k].phase \in Live /\ row[k].token = call[w].op.token
  <1>4. ASSUME NEW now, NEW r, Mutate(w, now, r)
        PROVE  Held /\ s = r /\ \A j \in Keys \ {k} : row'[j] = row[j]
    BY <1>1, <1>4 DEF Mutate, CanMutate
  <1> DEFINE Others == \A j \in Keys \ {k} : row'[j] = row[j]
  <1>5. CASE Renew(w) \/ Checkpoint(w) \/ RecordBroadcast(w) \/ GiveBack(w)
    <2>1. PICK now, r : Mutate(w, now, r) /\ (Held => StaysOpen(row[k], r))
      <3>1. CASE Renew(w)
        BY <3>1, <1>1, OpenRow DEF Renew
      <3>2. CASE Checkpoint(w)
        BY <3>2, <1>1, OpenRow DEF Checkpoint
      <3>3. CASE RecordBroadcast(w)
        BY <3>3, <1>1, OpenRow DEF RecordBroadcast
      <3>4. CASE GiveBack(w)
        BY <3>4, <1>1, OpenRow DEF GiveBack
      <3> QED BY <1>5, <3>1, <3>2, <3>3, <3>4
    <2>2. Held /\ s = r /\ Others
      BY <2>1, <1>4
    <2>3. StaysOpen(row[k], s)
      BY <2>1, <2>2
    <2> QED BY <1>1, <1>2, <1>3, <2>2, <2>3
  <1>6. CASE Complete(w)
    <2>1. PICK now : Mutate(w, now, Completed(row[k]))
      BY <1>6 DEF Complete
    <2>2. Held /\ s = Completed(row[k]) /\ Others
      BY <2>1, <1>4
    <2>3. s.phase = "succeeded" /\ s.token = row[k].token
      BY <2>2, <1>1, OpenRow
    <2>4. Continue(w)
      BY <1>6 DEF Complete
    <2> QED BY <1>1, <1>3, <2>2, <2>3, <2>4
  <1>7. CASE Throw(w)
    <2>1. PICK now : Mutate(w, now, Failed(w))
      BY <1>7 DEF Throw
    <2>2. Held /\ s = Failed(w) /\ Others
      BY <2>1, <1>4
    <2>3. NextInBatch(w)
      BY <1>7 DEF Throw
    <2>4. CASE call[w].op.attempts >= MaxAttempts
      <3>1. s = Released(row[k], "manual", began[w])
        BY <2>2, <2>4 DEF Failed
      <3>2. s.phase = "manual" /\ s.token = row[k].token /\ s.attempts = row[k].attempts
        BY <3>1, <2>2, <1>1, OpenRow
      <3>3. row[k].token >= MaxAttempts
        BY <2>2, <2>4 DEF Counted
      <3> QED BY <1>1, <1>3, <2>2, <2>3, <3>2, <3>3
    <2>5. CASE ~(call[w].op.attempts >= MaxAttempts)
      <3>1. s = Released(row[k], "queued", began[w] + RetryDelay(call[w].op.attempts))
        BY <2>2, <2>5 DEF Failed
      <3>2. StaysOpen(row[k], s)
        BY <3>1, <2>2, <1>1, OpenRow
      <3> QED BY <1>1, <1>3, <2>2, <2>3, <3>2
    <2> QED BY <2>4, <2>5
  <1>8. CASE Return(w)
    BY <1>1, <1>2, <1>3, <1>8 DEF Return
  <1> QED BY <1>5, <1>6, <1>7, <1>8 DEF Handling

\* Both repositories park an operation only after it was handed out MaxAttempts
\* times, however many of its holders lost their lease without a word.
THEOREM ParkingIsExhaustion == Spec => []ParkedIsExhausted
  <1>1. Init => ParkedIsExhausted
    BY DEF Init, ParkedIsExhausted, Absent
  <1>2. ASSUME TypeOK, Counted, ParkedIsExhausted, [Next]_vars PROVE ParkedIsExhausted'
    <2> SUFFICES ASSUME NEW k \in Keys, row'[k].phase = "manual", row'[k] # row[k]
                 PROVE  row'[k].attempts >= MaxAttempts
      BY <1>2 DEF ParkedIsExhausted
    <2> USE DEF TypeOK
    <2>1. ASSUME NEW j \in Keys, Enqueue(j) \/ Reenqueue(j) \/ Recover(j) PROVE FALSE
      <3>1. j = k
        <4>1. \E r : row' = [row EXCEPT ![j] = r]
          BY <1>2, <2>1, ProducerWrites DEF Answered, Recover
        <4> QED BY <4>1
      <3>2. CASE Enqueue(j)
        BY <1>2, <3>1, <3>2, ProducerWrites DEF Answered, Inserted
      <3>3. CASE Reenqueue(j)
        <4>1. PICK r : Answered(k, r) /\ r.phase = row[k].phase /\ Due(row[k], clock)
          BY <1>2, <3>1, <3>3, ProducerWrites
        <4> QED BY <4>1 DEF Answered, Due, Live
      <3>4. CASE Recover(j)
        <4>1. PICK phase \in {"queued", "succeeded"} :
                row'[k] = Recovered(row[k], phase, clock)
          BY <3>1, <3>4 DEF Recover
        <4>2. row'[k].phase = phase
          BY <4>1 DEF Recovered, Released, Row
        <4> QED BY <4>2
      <3> QED BY <2>1, <3>2, <3>3, <3>4
    <2>2. ASSUME NEW w \in Workers, Claim(w) PROVE FALSE
      <3>1. k = call[w].key /\ row[k].phase \in Live
        BY <1>2, <2>2 DEF Claim, Claimable, CanClaim, Due
      <3>2. row'[k].phase = row[k].phase
        BY <1>2, <2>2, <3>1 DEF Claim, Reclaimed, Row
      <3> QED BY <3>1, <3>2 DEF Live
    <2>3. ASSUME NEW w \in Workers, Handling(w) PROVE row'[k].attempts >= MaxAttempts
      <3>1. k = call[w].key
        BY <1>2, <2>3, HandlingOutcome
      <3>2. ~StaysOpen(row[k], row'[k])
        BY DEF StaysOpen, Live
      <3>3. /\ row'[k].attempts = row[k].attempts /\ row[k].token >= MaxAttempts
        BY <1>2, <2>3, <3>1, <3>2, HandlingOutcome
      <3> QED BY <1>2, <3>3 DEF Counted
    <2>4. CASE Tick \/ UNCHANGED vars \/ \E j \in Keys : Ask(j) \/ Decline(j)
      BY <2>4 DEF Tick, Ask, Decline, vars
    <2>5. ASSUME NEW w \in Workers, Scan(w) \/ Leave(w) \/ Take(w) \/ Skip(w) PROVE FALSE
      BY <2>5 DEF Scan, Leave, Take, Skip
    <2> QED BY <1>2, <2>1, <2>2, <2>3, <2>4, <2>5
             DEF Next, Producers, Worker, EndOfBatch, Crash
  <1> QED BY <1>1, <1>2, TypeCorrect, CountedAlways, PTL DEF Spec

-----------------------------------------------------------------------------
(* The memory repository implements FencedOperations. *)

AbsentUnfenced == \A k \in Keys : row[k].phase = "absent" => row[k].token = 0

\* Only an enqueue leaves "absent", and nothing returns to it.
LEMMA AbsentStep == ASSUME TypeOK, AbsentUnfenced, [Next]_vars PROVE AbsentUnfenced'
  <1>1. ASSUME NEW k \in Keys, Enqueue(k) PROVE AbsentUnfenced'
    BY <1>1, ProducerWrites DEF Answered, Inserted, TypeOK, AbsentUnfenced
  <1>2. ASSUME NEW k \in Keys, NEW r, r.phase # "absent", row' = [row EXCEPT ![k] = r]
        PROVE  AbsentUnfenced'
    BY <1>2 DEF TypeOK, AbsentUnfenced
  <1>3. ASSUME NEW k \in Keys, Reenqueue(k) PROVE AbsentUnfenced'
    <2>1. PICK r : Answered(k, r) /\ r.phase = row[k].phase /\ Due(row[k], clock)
      BY <1>3, ProducerWrites
    <2>2. r.phase # "absent"
      BY <2>1 DEF Due, Live
    <2> QED BY <1>2, <2>1, <2>2 DEF Answered
  <1>4. ASSUME NEW w \in Workers, Claim(w) PROVE AbsentUnfenced'
    <2> DEFINE k == call[w].key
    <2>1. k \in Keys /\ row[k] \in Row
      BY DEF TypeOK, Call
    <2>2. PICK now : /\ Claimable(w, now)
                     /\ row' = [row EXCEPT ![k] =
                                  Reclaimed(row[k], RowRead(w), OwnerOf[w], now)]
      BY <1>4 DEF Claim
    <2>3. Reclaimed(row[k], RowRead(w), OwnerOf[w], now).phase # "absent"
      BY <2>1, <2>2 DEF Claimable, CanClaim, Due, Live, Reclaimed, Row
    <2> HIDE DEF k
    <2> QED BY <1>2, <2>1, <2>2, <2>3
  <1>5. CASE FencesKept
    BY <1>5 DEF FencesKept, KeepsFence, AbsentUnfenced
  <1> QED BY <1>1, <1>3, <1>4, <1>5, StepShape

\* The grants of the promise, as the detailed specification sees them.
LEMMA GrantStep ==
  ASSUME TypeOK, NEW w \in Workers
  PROVE  /\ Continue(w) => \A v \in Workers : GrantOf(v)' = GrantOf(v)
         /\ \A v \in Workers : UNCHANGED <<pc, call>> => GrantOf(v)' = GrantOf(v)
         /\ NextInBatch(w) => /\ GrantOf(w)' = <<>>
                              /\ \A v \in Workers \ {w} : GrantOf(v)' = GrantOf(v)
  <1> USE DEF TypeOK, GrantOf
  <1>1. Continue(w) => \A v \in Workers : GrantOf(v)' = GrantOf(v)
    <2> SUFFICES ASSUME Continue(w), NEW v \in Workers
                 PROVE  /\ pc'[v] = pc[v] /\ call'[v].key = call[v].key
                        /\ call'[v].op = call[v].op
      OBVIOUS
    <2> QED BY DEF Continue, Call
  <1>2. NextInBatch(w) => /\ GrantOf(w)' = <<>>
                          /\ \A v \in Workers \ {w} : GrantOf(v)' = GrantOf(v)
    BY DEF NextInBatch
  <1> QED BY <1>1, <1>2

Told == <<[k \in Keys |-> Status(row[k])], [k \in Keys |-> row[k].token],
          [w \in Workers |-> GrantOf(w)]>>

\* Every step of the queue is a step of the promise, or invisible in it.
LEMMA PromiseStep ==
  ASSUME TypeOK, Counted, AbsentUnfenced, Synchronous, [Next]_vars
  PROVE  Promise!Next \/ UNCHANGED Told
  <1> DEFINE SameRow(j) == row'[j].token = row[j].token /\ Status(row[j])' = Status(row[j])
             SameGrant(v) == GrantOf(v)' = GrantOf(v)
  <1>0. /\ (\A j \in Keys : SameRow(j)) /\ (\A v \in Workers : SameGrant(v)) => UNCHANGED Told
    BY DEF Told
  <1>1. UNCHANGED row => \A j \in Keys : SameRow(j)
    BY DEF Status
  <1>2. UNCHANGED <<pc, call>> => \A v \in Workers : SameGrant(v)
    BY DEF GrantOf
  <1>3. ASSUME NEW k \in Keys, Enqueue(k) PROVE Promise!Open(k)
    <2>1. /\ Status(row[k]) = "absent" /\ Status(row[k])' = "open" /\ row'[k].token = 1
          /\ \A j \in Keys \ {k} : row'[j] = row[j]
      BY <1>3, ProducerWrites DEF Answered, Inserted, Status, Live, TypeOK
    <2>2. \A v \in Workers : SameGrant(v)
      BY <1>2, <1>3 DEF Enqueue, Answered, local
    <2> QED BY <2>1, <2>2 DEF Promise!Open, Status
  <1>4. ASSUME NEW k \in Keys, Reenqueue(k) PROVE Promise!Supersede(k)
    <2>1. PICK r : /\ Answered(k, r) /\ r.phase = row[k].phase /\ Due(row[k], clock)
                   /\ r.token = row[k].token + 1
      BY <1>4, ProducerWrites DEF Seen
    <2>2. /\ Status(row[k]) = "open" /\ Status(row[k])' = "open"
          /\ row'[k].token = row[k].token + 1 /\ \A j \in Keys \ {k} : row'[j] = row[j]
      BY <2>1 DEF Answered, Due, Status, TypeOK
    <2>3. \A v \in Workers : SameGrant(v)
      BY <1>2, <1>4 DEF Reenqueue, Answered, local
    <2> QED BY <2>2, <2>3 DEF Promise!Supersede, Status
  <1>5. ASSUME NEW k \in Keys, Recover(k) PROVE Promise!Resolve(k)
    <2>1. PICK phase \in {"queued", "succeeded"} :
            row' = [row EXCEPT ![k] = Recovered(row[k], phase, clock)]
      BY <1>5 DEF Recover
    <2>2. /\ row'[k].phase = phase /\ row'[k].token = row[k].token
          /\ \A j \in Keys \ {k} : row'[j] = row[j]
      BY <2>1 DEF Recovered, Released, TypeOK, Row
    <2>3. Status(row[k]) = "manual" /\ Status(row[k])' \in {"open", "succeeded"}
      BY <1>5, <2>2 DEF Recover, Status, Live
    <2>4. \A v \in Workers : SameGrant(v)
      BY <1>2, <1>5 DEF Recover, local
    <2> QED BY <2>2, <2>3, <2>4 DEF Promise!Resolve, Status
  <1>6. ASSUME NEW w \in Workers, Claim(w) PROVE Promise!Next
    <2>0. PICK k \in Keys : k = call[w].key
      BY DEF TypeOK, Call
    <2> DEFINE got(now) == Reclaimed(row[k], row[k], OwnerOf[w], now)
    <2>1. row[k] \in Row
      BY DEF TypeOK
    <2>2. PICK now : /\ Claimable(w, now)
                     /\ row' = [row EXCEPT ![k] = got(now)]
                     /\ call' = [call EXCEPT ![w] =
                                   [key |-> k, op |-> got(now), at |-> Stamp]]
      BY <1>6, <2>0 DEF Claim, RowRead
    <2>3. row[k].phase \in Live
      BY <2>0, <2>2 DEF Claimable, CanClaim, Due
    <2>4. got(now).phase = row[k].phase /\ got(now).token = row[k].token + 1
      BY <2>1 DEF Reclaimed, Row
    <2>5. pc' = [pc EXCEPT ![w] = "handle"]
      BY <1>6 DEF Claim
    <2> HIDE DEF got
    <2>6. /\ row'[k] = got(now) /\ \A j \in Keys \ {k} : row'[j] = row[j]
          /\ call'[w].key = k /\ call'[w].op = got(now) /\ pc'[w] = "handle"
          /\ \A v \in Workers \ {w} : call'[v] = call[v] /\ pc'[v] = pc[v]
      BY <2>1, <2>2, <2>5 DEF TypeOK
    <2>7. Status(row[k]) = "open" /\ \A j \in Keys : Status(row[j])' = Status(row[j])
      BY <2>3, <2>4, <2>6 DEF Status
    <2>8. /\ GrantOf(w)' = <<k, row[k].token + 1>>
          /\ \A v \in Workers \ {w} : SameGrant(v)
      BY <2>4, <2>6 DEF GrantOf
    <2>9. Promise!Grant(w, k)
      BY <2>0, <2>4, <2>6, <2>7, <2>8 DEF Promise!Grant
    <2> QED BY <2>9 DEF Promise!Next
  <1>7. ASSUME NEW w \in Workers, GrantOf(w)' = <<>>, \A j \in Keys : SameRow(j),
               \A v \in Workers \ {w} : SameGrant(v)
        PROVE  Promise!Drop(w)
    BY <1>7 DEF Promise!Drop, Promise!NoGrant
  <1>8. ASSUME NEW w \in Workers, Handling(w) PROVE Promise!Next \/ UNCHANGED Told
    <2>0. PICK k \in Keys : k = call[w].key
      BY DEF TypeOK, Call
    <2> DEFINE s == row'[k]
               Held == row[k].phase \in Live /\ row[k].token = call[w].op.token
               Kept == s = row[k] \/ (StaysOpen(row[k], s) /\ Held)
               Done == /\ Held /\ s.phase = "succeeded" /\ s.token = row[k].token
                       /\ Continue(w)
               Parked == /\ Held /\ s.phase = "manual" /\ s.token = row[k].token
                         /\ row[k].token >= MaxAttempts /\ NextInBatch(w)
    <2>1. pc[w] = "handle" /\ \A j \in Keys \ {k} : row'[j] = row[j]
      BY <1>8, <2>0, HandlingOutcome
    <2>2. GrantOf(w) = <<k, call[w].op.token>>
      BY <2>0, <2>1 DEF GrantOf
    <2>3. CASE Kept
      <3>1. \A j \in Keys : SameRow(j)
        BY <2>1, <2>3 DEF StaysOpen, Status
      <3>2. CASE Continue(w)
        BY <1>0, <3>1, <3>2, GrantStep
      <3>3. CASE NextInBatch(w)
        BY <1>7, <3>1, <3>3, GrantStep DEF Promise!Next
      <3> QED BY <1>8, <3>2, <3>3, HandlingOutcome
    <2>4. CASE Done
      <3>1. Status(row[k]) = "open" /\ Status(s) = "succeeded"
        BY <2>4 DEF Status, Live
      <3>2. \A v \in Workers : SameGrant(v)
        BY <2>4, GrantStep
      <3>3. Promise!Finish(w, k)
        BY <2>1, <2>2, <2>4, <3>1, <3>2 DEF Promise!Finish, Promise!Newest, Status
      <3> QED BY <2>1, <3>3 DEF Promise!Next
    <2>5. CASE Parked
      <3>1. Status(row[k]) = "open" /\ Status(s) = "manual"
        BY <2>5 DEF Status, Live
      <3>2. GrantOf(w)' = <<>> /\ \A v \in Workers \ {w} : SameGrant(v)
        BY <2>5, GrantStep
      <3>3. Promise!Park(w, k)
        BY <2>1, <2>2, <2>5, <3>1, <3>2
           DEF Promise!Park, Promise!Newest, Promise!NoGrant, Status
      <3> QED BY <2>1, <3>3 DEF Promise!Next
    <2>6. Kept \/ Done \/ Parked
      BY <1>8, <2>0, HandlingOutcome
    <2> HIDE DEF Kept, Done, Parked
    <2> QED BY <2>3, <2>4, <2>5, <2>6
  <1>9. ASSUME NEW w \in Workers, Leave(w) PROVE Promise!Drop(w)
    <2>1. GrantOf(w)' = <<>> /\ \A v \in Workers \ {w} : SameGrant(v)
      BY <1>9 DEF Leave, GrantOf, TypeOK
    <2>2. \A j \in Keys : SameRow(j)
      BY <1>1, <1>9 DEF Leave
    <2> QED BY <1>7, <2>1, <2>2
  <1>10. ASSUME NEW w \in Workers, Scan(w) \/ Take(w) \/ Skip(w) PROVE UNCHANGED Told
    <2>1. \A v \in Workers : SameGrant(v)
      BY <1>10 DEF Scan, Take, Skip, NextInBatch, GrantOf, TypeOK
    <2>2. \A j \in Keys : SameRow(j)
      BY <1>1, <1>10 DEF Scan, Take, Skip
    <2> QED BY <1>0, <2>1, <2>2
  <1>11. CASE Tick \/ UNCHANGED vars \/ \E k \in Keys : Ask(k) \/ Decline(k)
    BY <1>0, <1>1, <1>2, <1>11 DEF Tick, Ask, Decline, vars, local
  <1> QED BY <1>3, <1>4, <1>5, <1>6, <1>8, <1>9, <1>10, <1>11
             DEF Next, Producers, Worker, EndOfBatch, Crash, Promise!Next

\* With the memory repository the whole queue (leases, stale samples, crashes,
\* retries, recovery) implements the promise of FencedOperations.
THEOREM QueueKeepsPromise == Synchronous => (Spec => KeepsPromise)
  <1> SUFFICES ASSUME Synchronous PROVE Spec => KeepsPromise
    OBVIOUS
  <1>1. Init => Promise!Init /\ AbsentUnfenced
    <2> SUFFICES ASSUME Init PROVE Promise!Init /\ AbsentUnfenced
      OBVIOUS
    <2>1. \A k \in Keys : row[k].token = 0 /\ row[k].phase = "absent"
      BY DEF Init, Absent
    <2>2. \A w \in Workers : GrantOf(w) = <<>>
      BY DEF Init, GrantOf
    <2> QED BY <2>1, <2>2 DEF Promise!Init, Promise!NoGrant, Status, Live, AbsentUnfenced
  <1>2. TypeOK /\ AbsentUnfenced /\ [Next]_vars => AbsentUnfenced'
    BY AbsentStep
  <1>3. TypeOK /\ Counted /\ AbsentUnfenced /\ [Next]_vars => [Promise!Next]_(Promise!promised)
    BY PromiseStep DEF Promise!promised, Told
  <1> QED BY <1>1, <1>2, <1>3, TypeCorrect, CountedAlways, PTL
             DEF Spec, KeepsPromise, Promise!Spec
=============================================================================
