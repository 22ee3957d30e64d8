-------------------------- MODULE ResearchEventsProofs --------------------------
(* Theorems about the events of a research, for any processes, readers, runs and *)
(* restarts: the log is one run told in order, and readers are only shown what    *)
(* was recorded.                                                                  *)
EXTENDS ResearchEvents, TLAPS

Pcs    == {"none", "agent", "out", "find", "max", "maxcp", "insert", "recheck", "end",
           "gone"}
LogPcs == {"find", "max", "maxcp", "insert", "recheck"}
ConnPcs == {"off", "start", "checkpoint", "subscribe", "open", "own", "orphan", "finished"}
Outcomes == {"completed", "failed", "cancelled"}

RunRec  == [pc : Pcs, proc : Procs \union {NoOne}, own : Readers \union {NoOne},
            ord : 0..MaxEvents, ev : Event, table : {"event", "checkpoint"},
            cursor : Cursors]
CpRec   == [cursor : Cursors, last : Cursors, ev : Event]
ConnRec == [pc : ConnPcs, proc : Procs \union {NoOne}, seen : Statuses, after : Cursors,
            last : Cursors, cp : CpRec, told : Kinds, sent : Seq(Event)]
BusRec  == [hist : Seq(Event), done : BOOLEAN, runner : BOOLEAN, aborted : BOOLEAN]

\* What a terminal event says of the research is so.
Honest(kind) == /\ kind = "final" => status = "completed"
                /\ kind \in {"failed", "cancelled"} => status = kind

Logged(cursor) == \E e \in log : e.cursor = cursor

BusOk(b) == /\ b \in BusRec
            /\ \A i \in DOMAIN b.hist : Honest(b.hist[i].kind)
CpOk(c)  == /\ c \in CpRec /\ Honest(c.ev.kind)
            /\ c # NoCp => Logged(c.last)
ConnOk(c) == /\ c \in ConnRec /\ Honest(c.told) /\ CpOk(c.cp)
             /\ c.seen \in Outcomes => status = c.seen
             /\ c.last # 0 => Logged(c.last)
             /\ c.pc \in {"checkpoint", "subscribe"} => mode = "escrow"
             /\ c.pc \notin {"off", "finished"} => c.proc \in Procs
RunOk(x) == /\ x \in RunRec /\ Honest(x.ev.kind)
            /\ x.pc \in LogPcs => mode = "escrow"
            /\ x.pc \notin {"none", "gone"} => x.proc \in Procs
            /\ x.pc \in {"agent", "out"} => x.table = "event"
            /\ x.pc = "agent" => x.ord < MaxEvents
            /\ x.pc \in {"out"} \union LogPcs /\ x.ev.kind = "note" => x.ord < MaxEvents
            /\ x.pc \in {"none", "gone"} => x.own = NoOne

\* The log holds the events 1 to k, in order; without a checkpoint their cursors are
\* at most their numbers, with one at most one more.
LogTo(k) ==
  /\ \A n \in 1..k : \E e \in log : e.ev.ord = n
  /\ \A e \in log : /\ e.ev.ord \in 1..k /\ e.cursor \in 1..(e.ev.ord + 1)
                    /\ cp = NoCp => e.cursor <= e.ev.ord
  /\ \A e, f \in log : e.ev.ord < f.ev.ord <=> e.cursor < f.cursor
  /\ cp # NoCp => cp.cursor \in 1..(k + 1)

\* How far a run has come, and what the cursor it computed is worth: if its event is
\* missing, the log has not moved since.
RunTo(x, k) ==
  /\ mode = "escrow" /\ x.pc = "agent" => x.ord <= k
  /\ mode = "escrow" /\ x.pc \in {"out"} \union LogPcs /\ x.table = "event"
       => x.ord \in 1..(k + 1) /\ x.ev.ord = x.ord
  /\ x.pc \in LogPcs /\ x.table = "checkpoint" => x.ev.ord \in 1..k
  /\ x.pc = "maxcp" => x.cursor = 0 \/ Logged(x.cursor)
  /\ x.pc = "maxcp" /\ x.table = "event" /\ x.ord = k + 1
       => \A e \in log : e.cursor <= x.cursor
  /\ x.pc = "insert" => x.cursor >= 1
  /\ x.pc = "insert" /\ x.table = "event" /\ x.ord = k + 1
       => /\ \A e \in log : e.cursor < x.cursor
          /\ x.cursor <= k + 2 /\ (cp = NoCp => x.cursor <= k + 1)
  /\ x.pc = "insert" /\ x.table = "checkpoint" /\ cp = NoCp => x.cursor <= k + 1
  /\ x.pc = "recheck" /\ x.table = "event"
       => \E e \in log : e.ev.ord = x.ord /\ e.cursor = x.cursor

Plain   == /\ mode \in Modes /\ status \in Statuses
           /\ op \in [holder : 0..MaxRuns, live : BOOLEAN, done : BOOLEAN]
           /\ cancel \in Procs \union {NoOne} /\ faults \in 0..MaxFaults[mode]
           /\ cancel # NoOne => status = "cancelled"
Logs    == /\ log \subseteq Entry /\ CpOk(cp)
           /\ \A e \in log : Honest(e.ev.kind)
BusesOk(bs) == bs \in [Procs -> BusRec] /\ \A p \in Procs : BusOk(bs[p])
ConnsOk(cs) == cs \in [Readers -> ConnRec] /\ \A r \in Readers : ConnOk(cs[r])
RunsOk  == run \in [Runs -> RunRec] /\ \A a \in Runs : RunOk(run[a])
Written == \E k \in 0..MaxEvents : LogTo(k) /\ \A a \in Runs : RunTo(run[a], k)
Core    == Plain /\ Logs /\ BusesOk(bus) /\ ConnsOk(conn) /\ RunsOk /\ Written

-----------------------------------------------------------------------------
(* Types. *)

LEMMA Constants ==
  /\ MaxRuns \in Nat \ {0} /\ MaxEvents \in Nat \ {0} /\ MaxFaults \in [Modes -> Nat]
  /\ Where \in [Runs -> SUBSET Procs] /\ NoOne \notin Readers /\ NoOne \notin Procs
  /\ Cursors = 0..(MaxEvents + 2) /\ Runs = 1..MaxRuns
  /\ 0 \in Cursors /\ MaxEvents + 2 \in Nat
  BY EventsAssumption DEF EventsAssumption, Runs, Cursors

LEMMA Records ==
  /\ NoEvent \in Event /\ NoEvent.kind = "note"
  /\ NoCp \in CpRec /\ NoCp.cursor = 0 /\ NoCp.last = 0 /\ NoCp.ev = NoEvent
  /\ FreshBus \in BusRec /\ FreshBus.hist = <<>>
  /\ NoRun \in RunRec /\ NoRun.pc = "none" /\ NoRun.own = NoOne /\ NoRun.ev = NoEvent
  /\ NoRun.ord = 0 /\ NoRun.table = "event"
  /\ GoneRun \in RunRec /\ GoneRun.pc = "gone" /\ GoneRun.own = NoOne
  /\ GoneRun.ev = NoEvent /\ GoneRun.table = "event"
  /\ NoConn \in ConnRec /\ NoConn.pc = "off" /\ NoConn.last = 0 /\ NoConn.told = "note"
  /\ NoConn.cp = NoCp /\ NoConn.seen = "funding" /\ NoConn.sent = <<>>
  <1>0. MaxEvents \in Nat /\ 0 \in Cursors
    BY Constants
  <1>1. NoEvent \in Event /\ NoEvent.kind = "note"
    BY <1>0 DEF NoEvent, Event, Kinds
  <1>2. NoCp \in CpRec /\ NoCp.cursor = 0 /\ NoCp.last = 0 /\ NoCp.ev = NoEvent
    BY <1>0, <1>1 DEF NoCp, CpRec
  <1>3. FreshBus \in BusRec /\ FreshBus.hist = <<>>
    BY DEF FreshBus, BusRec
  <1>4. /\ NoRun \in RunRec /\ NoRun.pc = "none" /\ NoRun.own = NoOne /\ NoRun.ev = NoEvent
        /\ NoRun.ord = 0 /\ NoRun.table = "event"
    BY <1>0, <1>1 DEF NoRun, RunRec, Pcs
  <1>5. /\ GoneRun \in RunRec /\ GoneRun.pc = "gone" /\ GoneRun.own = NoOne
        /\ GoneRun.ev = NoEvent /\ GoneRun.table = "event"
    BY <1>0, <1>1 DEF GoneRun, NoRun, RunRec, Pcs
  <1>6. /\ NoConn \in ConnRec /\ NoConn.pc = "off" /\ NoConn.last = 0
        /\ NoConn.told = "note" /\ NoConn.cp = NoCp /\ NoConn.seen = "funding"
        /\ NoConn.sent = <<>>
    BY <1>0, <1>2 DEF NoConn, ConnRec, ConnPcs, Statuses, Kinds
  <1> QED BY <1>1, <1>2, <1>3, <1>4, <1>5, <1>6

-----------------------------------------------------------------------------
(* What lasts: the status only leaves "funding" and "running", the log only grows. *)

Lasts == /\ mode' = mode /\ log \subseteq log'
         /\ status' = status \/ status \in {"funding", "running"}

LEMMA HonestLasts == ASSUME Lasts, NEW kind, Honest(kind) PROVE Honest(kind)'
  BY DEF Lasts, Honest

LEMMA BusLasts == ASSUME Lasts, NEW b, BusOk(b) PROVE BusOk(b)'
  BY HonestLasts DEF BusOk

LEMMA CpLasts == ASSUME Lasts, NEW c, CpOk(c) PROVE CpOk(c)'
  <1>1. Honest(c.ev.kind)'
    BY HonestLasts DEF CpOk
  <1> QED BY <1>1 DEF Lasts, CpOk, Logged

LEMMA ConnLasts == ASSUME Lasts, NEW c, ConnOk(c) PROVE ConnOk(c)'
  <1>1. Honest(c.told)' /\ CpOk(c.cp)'
    BY HonestLasts, CpLasts DEF ConnOk
  <1>2. c.seen \in Outcomes => status' = c.seen
    BY DEF Lasts, ConnOk, Outcomes
  <1> QED BY <1>1, <1>2 DEF Lasts, ConnOk, Logged

LEMMA RunLasts == ASSUME Lasts, NEW x, RunOk(x) PROVE RunOk(x)'
  <1>1. Honest(x.ev.kind)'
    BY HonestLasts DEF RunOk
  <1> QED BY <1>1 DEF Lasts, RunOk

LEMMA LogsLast == ASSUME Logs, Lasts, log' = log, cp' = cp PROVE Logs'
  <1>1. ASSUME NEW e \in log PROVE Honest(e.ev.kind)'
    BY HonestLasts DEF Logs
  <1>2. PICK c \in CpRec : c = cp
    BY DEF Logs, CpOk
  <1>3. CpOk(c)'
    BY <1>2, CpLasts DEF Logs
  <1> QED BY <1>1, <1>2, <1>3 DEF Logs, CpOk, Honest, Logged

LEMMA BusesLast ==
  ASSUME Lasts, NEW bs, BusesOk(bs), bus' = bs PROVE BusesOk(bus)'
  <1>1. ASSUME NEW p \in Procs PROVE BusOk(bus[p])'
    <2>1. PICK b \in BusRec : b = bs[p]
      BY DEF BusesOk
    <2>2. BusOk(b)'
      BY <2>1, BusLasts DEF BusesOk
    <2> QED BY <2>1, <2>2 DEF BusOk, Honest
  <1> QED BY <1>1 DEF BusesOk

LEMMA ConnsLast ==
  ASSUME Lasts, NEW cs, ConnsOk(cs), conn' = cs PROVE ConnsOk(conn)'
  <1>1. ASSUME NEW r \in Readers PROVE ConnOk(conn[r])'
    <2>1. PICK c \in ConnRec : c = cs[r]
      BY DEF ConnsOk
    <2>2. ConnOk(c)'
      BY <2>1, ConnLasts DEF ConnsOk
    <2> QED BY <2>1, <2>2 DEF ConnOk, CpOk, Honest, Logged
  <1> QED BY <1>1 DEF ConnsOk

\* A step that leaves the log alone.
LEMMA Keeps ==
  ASSUME Core, Lasts, UNCHANGED <<log, cp>>, Plain',
         NEW bs, BusesOk(bs), bus' = bs, NEW cs, ConnsOk(cs), conn' = cs,
         NEW rs \in [Runs -> RunRec], run' = rs, \A b \in Runs : RunOk(rs[b])',
         \A b \in Runs, k \in 0..MaxEvents :
           LogTo(k) /\ RunTo(run[b], k) => RunTo(rs[b], k)
  PROVE  Core'
  <1>1. Logs' /\ BusesOk(bus)' /\ ConnsOk(conn)'
    BY LogsLast, BusesLast, ConnsLast DEF Core
  <1>2. RunsOk'
    BY DEF RunsOk, RunOk, Honest
  <1>3. PICK k \in 0..MaxEvents : LogTo(k) /\ \A a \in Runs : RunTo(run[a], k)
    BY DEF Core, Written
  <1>4. LogTo(k)'
    BY <1>3 DEF LogTo
  <1>5. ASSUME NEW a \in Runs PROVE RunTo(run[a], k)'
    <2>1. RunTo(rs[a], k)
      BY <1>3
    <2> QED BY <2>1 DEF RunTo, Logged, Lasts
  <1>6. Written'
    BY <1>4, <1>5 DEF Written
  <1> QED BY <1>1, <1>2, <1>6 DEF Core

\* ... in which one run goes on.
LEMMA KeepsRun ==
  ASSUME Core, Lasts, UNCHANGED <<log, cp>>, Plain',
         NEW bs, BusesOk(bs), bus' = bs, NEW cs, ConnsOk(cs), conn' = cs,
         NEW a \in Runs, NEW x, RunOk(x)', run' = [run EXCEPT ![a] = x],
         \A k \in 0..MaxEvents : LogTo(k) /\ RunTo(run[a], k) => RunTo(x, k)
  PROVE  Core'
  <1>1. x \in RunRec
    BY DEF RunOk
  <1>2. PICK rs \in [Runs -> RunRec] : rs = [run EXCEPT ![a] = x]
    BY <1>1 DEF Core, RunsOk
  <1>3. ASSUME NEW b \in Runs PROVE RunOk(rs[b])'
    <2>1. PICK y \in RunRec : y = run[b]
      BY DEF Core, RunsOk
    <2>2. RunOk(y)'
      BY <2>1, RunLasts DEF Core, RunsOk
    <2>3. rs[b] = IF b = a THEN x ELSE y
      BY <1>2, <2>1 DEF Core, RunsOk
    <2> QED BY <2>2, <2>3
  <1>4. ASSUME NEW b \in Runs, NEW k \in 0..MaxEvents, LogTo(k), RunTo(run[b], k)
        PROVE  RunTo(rs[b], k)
    <2>1. rs[b] = IF b = a THEN x ELSE run[b]
      BY <1>2 DEF Core, RunsOk
    <2> QED BY <1>4, <2>1
  <1> QED BY <1>2, <1>3, <1>4, Keeps

\* ... in which no run does.
LEMMA KeepsIdle ==
  ASSUME Core, Lasts, UNCHANGED <<log, cp, run>>, Plain',
         NEW bs, BusesOk(bs), bus' = bs, NEW cs, ConnsOk(cs), conn' = cs
  PROVE  Core'
  <1>1. PICK rs \in [Runs -> RunRec] : rs = run
    BY DEF Core, RunsOk
  <1>2. ASSUME NEW b \in Runs PROVE RunOk(rs[b])'
    BY <1>1, RunLasts DEF Core, RunsOk
  <1>3. \A b \in Runs, k \in 0..MaxEvents : RunTo(run[b], k) => RunTo(rs[b], k)
    BY <1>1
  <1> QED BY <1>1, <1>2, <1>3, Keeps

-----------------------------------------------------------------------------
(* Buses and readers. *)

LEMMA Persisted ==
  ASSUME NEW st \in Statuses, st # "running", st \in Outcomes => status = st
  PROVE  /\ PersistedTerminal(st) \in Event /\ Honest(PersistedTerminal(st).kind)
         /\ Terminal(PersistedTerminal(st)) /\ PersistedTerminal(st).ord = 0
  <1>1. PersistedTerminal(st).ord = 0 /\ PersistedTerminal(st) \in Event
    BY Constants DEF PersistedTerminal, NoEvent, Event, Kinds, Statuses
  <1>2. PersistedTerminal(st).kind = CASE st = "completed" -> "final"
                                       [] st = "funding" -> "early"
                                       [] OTHER -> st
    BY DEF PersistedTerminal, NoEvent
  <1> QED BY <1>1, <1>2 DEF Honest, Terminal, Outcomes, Statuses

LEMMA PublishedOk ==
  ASSUME NEW b, BusOk(b), NEW ev \in Event, Honest(ev.kind)
  PROVE  /\ BusOk(Published(b, ev))
         /\ Published(b, ev).hist = IF Accepts(b) THEN Append(b.hist, ev) ELSE b.hist
  <1>1. b \in BusRec /\ b.hist \in Seq(Event)
    BY DEF BusOk, BusRec
  <1>2. Append(b.hist, ev) \in Seq(Event)
    BY <1>1
  <1>3. \A i \in DOMAIN Append(b.hist, ev) : Honest(Append(b.hist, ev)[i].kind)
    BY <1>1 DEF BusOk
  <1>4. Published(b, ev).hist = IF Accepts(b) THEN Append(b.hist, ev) ELSE b.hist
    BY <1>1 DEF Published, BusRec
  <1>5. Published(b, ev) \in BusRec
    BY <1>1, <1>2 DEF Published, BusRec
  <1> QED BY <1>3, <1>4, <1>5 DEF BusOk

LEMMA MarkedDoneOk ==
  ASSUME NEW b, BusOk(b)
  PROVE  /\ BusOk(MarkedDone(b)) /\ MarkedDone(b).hist = b.hist
         /\ BusOk([MarkedDone(b) EXCEPT !.aborted = TRUE])
         /\ [MarkedDone(b) EXCEPT !.aborted = TRUE].hist = b.hist
  <1>1. b \in BusRec
    BY DEF BusOk
  <1>2. MarkedDone(b) \in BusRec /\ MarkedDone(b).hist = b.hist
    BY <1>1 DEF MarkedDone, BusRec
  <1>3. /\ [MarkedDone(b) EXCEPT !.aborted = TRUE] \in BusRec
        /\ [MarkedDone(b) EXCEPT !.aborted = TRUE].hist = b.hist
    BY <1>2 DEF BusRec
  <1> QED BY <1>2, <1>3 DEF BusOk

LEMMA FreshOk == BusOk(FreshBus)
  BY Records DEF BusOk

LEMMA BusChange ==
  ASSUME NEW bs, BusesOk(bs), NEW p \in Procs, NEW b, BusOk(b)
  PROVE  BusesOk([bs EXCEPT ![p] = b])
  <1>1. [bs EXCEPT ![p] = b] \in [Procs -> BusRec]
    BY DEF BusesOk, BusOk
  <1> QED BY <1>1 DEF BusesOk

LEMMA ConnChange ==
  ASSUME NEW cs, ConnsOk(cs), NEW r \in Readers, NEW c, ConnOk(c)
  PROVE  ConnsOk([cs EXCEPT ![r] = c])
  <1>1. [cs EXCEPT ![r] = c] \in [Readers -> ConnRec]
    BY DEF ConnsOk, ConnOk
  <1> QED BY <1>1 DEF ConnsOk

LEMMA NoConnOk == ConnOk(NoConn)
  BY Records DEF ConnOk, CpOk, Honest, Outcomes

LEMMA EndedOk ==
  ASSUME NEW c, ConnOk(c)
  PROVE  ConnOk(Ended(c)) /\ Ended(c).pc = "off"
  <1>1. c \in ConnRec /\ c.last \in Cursors
    BY DEF ConnOk, ConnRec
  <1>2. /\ Ended(c) \in ConnRec /\ Ended(c).pc = "off" /\ Ended(c).last = c.last
        /\ Ended(c).cp = NoConn.cp /\ Ended(c).told = NoConn.told
        /\ Ended(c).seen = NoConn.seen
    BY <1>1, Records DEF Ended, ConnRec
  <1> QED BY <1>1, <1>2, NoConnOk, Records DEF ConnOk, Outcomes

LEMMA TakenOk ==
  ASSUME NEW c, ConnOk(c), NEW ev \in Event, Honest(ev.kind), NEW cursor \in Cursors,
         cursor # 0 => Logged(cursor)
  PROVE  /\ ConnOk(Taken(c, ev, cursor))
         /\ Taken(c, ev, cursor).pc = IF Terminal(ev) THEN "finished" ELSE c.pc
         /\ ~Terminal(ev) => Taken(c, ev, cursor).proc = c.proc
         /\ ~Terminal(ev) /\ mode = "direct"
              => Taken(c, ev, cursor).sent = Append(c.sent, ev)
  <1> DEFINE last == IF cursor = 0 THEN c.last ELSE cursor
  <1>0. c \in ConnRec /\ c.last \in Cursors /\ c.sent \in Seq(Event) /\ ev.kind \in Kinds
    BY DEF ConnOk, ConnRec, Event
  <1>1. last \in Cursors /\ (last # 0 => Logged(last))
    BY <1>0 DEF ConnOk
  <1>2. CASE Terminal(ev)
    <2> DEFINE t == [NoConn EXCEPT !.pc = "finished", !.told = ev.kind, !.last = last]
    <2>1. Taken(c, ev, cursor) = t
      BY <1>2 DEF Taken
    <2>2. /\ t \in ConnRec /\ t.pc = "finished" /\ t.last = last /\ t.told = ev.kind
          /\ t.cp = NoCp /\ t.seen = "funding"
      BY <1>0, <1>1, Records DEF ConnRec, ConnPcs
    <2>3. ConnOk(t)
      BY <1>1, <2>2, NoConnOk, Records DEF ConnOk, Outcomes
    <2> QED BY <1>2, <2>1, <2>2, <2>3
  <1>3. CASE ~Terminal(ev)
    <2> DEFINE sent == IF mode = "direct" THEN Append(c.sent, ev) ELSE c.sent
               t    == [c EXCEPT !.last = last, !.sent = sent]
    <2>1. Taken(c, ev, cursor) = t
      BY <1>3 DEF Taken
    <2>2. sent \in Seq(Event)
      BY <1>0
    <2>3. /\ t \in ConnRec /\ t.pc = c.pc /\ t.proc = c.proc /\ t.last = last
          /\ t.sent = sent /\ t.told = c.told /\ t.cp = c.cp /\ t.seen = c.seen
      BY <1>0, <1>1, <2>2 DEF ConnRec
    <2>4. ConnOk(t)
      BY <1>1, <2>3 DEF ConnOk
    <2> QED BY <1>3, <2>1, <2>3, <2>4
  <1> QED BY <1>2, <1>3

LEMMA ToldOk ==
  ASSUME NEW cs, ConnsOk(cs), NEW p, NEW ev \in Event, Honest(ev.kind),
         NEW cursor \in Cursors, cursor # 0 => Logged(cursor)
  PROVE  ConnsOk(Told(cs, p, ev, cursor))
  <1>1. ASSUME NEW r \in Readers
        PROVE  ConnOk(Told(cs, p, ev, cursor)[r])
    BY TakenOk DEF Told, ConnsOk
  <1>2. \A r \in Readers : Told(cs, p, ev, cursor)[r] \in ConnRec
    BY <1>1 DEF ConnOk
  <1>3. Told(cs, p, ev, cursor) \in [Readers -> ConnRec]
    BY <1>2 DEF Told
  <1> QED BY <1>1, <1>3 DEF ConnsOk

LEMMA DoneToldOk ==
  ASSUME NEW cs, ConnsOk(cs), NEW p
  PROVE  ConnsOk(DoneTold(cs, p))
  <1>1. ASSUME NEW r \in Readers PROVE ConnOk(DoneTold(cs, p)[r])
    BY EndedOk DEF DoneTold, ConnsOk
  <1>2. \A r \in Readers : DoneTold(cs, p)[r] \in ConnRec
    BY <1>1 DEF ConnOk
  <1>3. DoneTold(cs, p) \in [Readers -> ConnRec]
    BY <1>2 DEF DoneTold
  <1> QED BY <1>1, <1>3 DEF ConnsOk

\* A bus that has its terminal event has it last.
LEMMA ReplayedOk ==
  ASSUME NEW c, ConnOk(c), NEW b, BusOk(b)
  PROVE  /\ ConnOk(Replayed(c, b))
         /\ ~HasTerminal(b) => /\ Replayed(c, b).pc = c.pc /\ Replayed(c, b).proc = c.proc
                               /\ mode = "direct" => Replayed(c, b).sent = b.hist
  <1>0. b.hist \in Seq(Event) /\ c \in ConnRec /\ c.sent \in Seq(Event) /\ 0 \in Cursors
    BY Constants DEF BusOk, BusRec, ConnOk, ConnRec
  <1>1. CASE HasTerminal(b)
    <2>1. Len(b.hist) \in DOMAIN b.hist
      BY <1>0, <1>1 DEF HasTerminal
    <2>2. Last(b.hist) \in Event /\ Honest(Last(b.hist).kind)
      BY <1>0, <2>1 DEF Last, BusOk
    <2>3. Replayed(c, b) = Taken(c, Last(b.hist), 0)
      BY <1>1 DEF Replayed
    <2>4. ConnOk(Taken(c, Last(b.hist), 0))
      BY <1>0, <2>2, TakenOk
    <2> QED BY <1>1, <2>3, <2>4
  <1>2. CASE ~HasTerminal(b)
    <2> DEFINE sent == IF mode = "direct" THEN b.hist ELSE c.sent
               t    == [c EXCEPT !.sent = sent]
    <2>1. Replayed(c, b) = t
      BY <1>2 DEF Replayed
    <2>2. /\ t \in ConnRec /\ t.pc = c.pc /\ t.proc = c.proc /\ t.last = c.last
          /\ t.sent = sent /\ t.told = c.told /\ t.cp = c.cp /\ t.seen = c.seen
      BY <1>0 DEF ConnRec
    <2>3. ConnOk(t)
      BY <2>2 DEF ConnOk
    <2> QED BY <1>2, <2>1, <2>2, <2>3
  <1> QED BY <1>1, <1>2

-----------------------------------------------------------------------------
(* The research, the operation and cancellations. *)

LEMMA CoreActivate == ASSUME Core, Activate PROVE Core'
  <1>1. Lasts /\ Plain'
    BY DEF Core, Plain, Activate, Lasts, Statuses
  <1>2. BusesOk(bus) /\ ConnsOk(conn) /\ UNCHANGED <<log, cp, bus, conn, run>>
    BY DEF Core, Activate
  <1> QED BY <1>1, <1>2, KeepsIdle

LEMMA CoreLeaseLapses == ASSUME Core, LeaseLapses PROVE Core'
  <1>1. Lasts /\ Plain'
    BY DEF Core, Plain, LeaseLapses, Lasts
  <1>2. BusesOk(bus) /\ ConnsOk(conn) /\ UNCHANGED <<log, cp, bus, conn, run>>
    BY DEF Core, LeaseLapses
  <1> QED BY <1>1, <1>2, KeepsIdle

LEMMA CoreCancelRecord == ASSUME Core, NEW p \in Procs, CancelRecord(p) PROVE Core'
  <1>1. Lasts /\ Plain'
    BY DEF Core, Plain, CancelRecord, Lasts, Statuses
  <1>2. BusesOk(bus) /\ ConnsOk(conn) /\ UNCHANGED <<log, cp, bus, conn, run>>
    BY DEF Core, CancelRecord
  <1> QED BY <1>1, <1>2, KeepsIdle

LEMMA CoreCancelPublish == ASSUME Core, CancelPublish PROVE Core'
  <1> DEFINE ev == PersistedTerminal("cancelled")
             b  == [MarkedDone(Published(bus[cancel], ev)) EXCEPT !.aborted = TRUE]
             cs == DoneTold(Told(conn, cancel, ev, 0), cancel)
  <1>1. Lasts /\ Plain'
    BY DEF Core, Plain, CancelPublish, Lasts
  <1>2. cancel \in Procs /\ status = "cancelled" /\ 0 \in Cursors
    BY Constants DEF Core, Plain, CancelPublish
  <1>3. ev \in Event /\ Honest(ev.kind)
    BY <1>2, Persisted DEF Statuses, Outcomes
  <1>4. BusOk(bus[cancel])
    BY <1>2 DEF Core, BusesOk
  <1>5. BusOk(Published(bus[cancel], ev))
    BY <1>3, <1>4, PublishedOk
  <1>6. BusOk(b)
    BY <1>5, MarkedDoneOk
  <1>7. ConnsOk(cs)
    BY <1>2, <1>3, ToldOk, DoneToldOk DEF Core
  <1> HIDE DEF ev
  <1>8. bus' = [bus EXCEPT ![cancel] = b] /\ conn' = cs /\ UNCHANGED <<log, cp, run>>
    BY <1>2 DEF CancelPublish, Core, BusesOk, ev
  <1> HIDE DEF b, cs
  <1>9. BusesOk([bus EXCEPT ![cancel] = b])
    BY <1>2, <1>6, BusChange DEF Core
  <1> QED BY <1>1, <1>7, <1>8, <1>9, KeepsIdle

LEMMA CoreForget == ASSUME Core, NEW p \in Procs, Forget(p) PROVE Core'
  <1> DEFINE cs == [r \in Readers |->
               IF Subscribed(conn[r], p) THEN [conn[r] EXCEPT !.pc = "orphan"] ELSE conn[r]]
  <1>1. Lasts /\ Plain'
    BY DEF Core, Plain, Forget, Lasts
  <1>2. ASSUME NEW r \in Readers PROVE ConnOk(cs[r])
    <2>1. conn[r] \in ConnRec /\ ConnOk(conn[r])
      BY DEF Core, ConnsOk
    <2> DEFINE t == [conn[r] EXCEPT !.pc = "orphan"]
    <2>2. Subscribed(conn[r], p) => conn[r].pc = "open"
      BY DEF Subscribed
    <2>3. /\ t \in ConnRec /\ t.pc = "orphan" /\ t.proc = conn[r].proc
          /\ t.last = conn[r].last /\ t.told = conn[r].told /\ t.cp = conn[r].cp
          /\ t.seen = conn[r].seen
      BY <2>1 DEF ConnRec, ConnPcs
    <2>4. conn[r].pc = "open" => ConnOk(t)
      BY <2>1, <2>3 DEF ConnOk
    <2> QED BY <2>1, <2>2, <2>4
  <1>3. ConnsOk(cs)
    BY <1>2 DEF ConnsOk, ConnOk
  <1>4. BusesOk([bus EXCEPT ![p] = FreshBus])
    BY FreshOk, BusChange DEF Core
  <1>5. /\ bus' = [bus EXCEPT ![p] = FreshBus] /\ conn' = cs
        /\ UNCHANGED <<log, cp, run>>
    BY DEF Forget
  <1> HIDE DEF cs
  <1> QED BY <1>1, <1>3, <1>4, <1>5, KeepsIdle

LEMMA GoneOk == RunOk(GoneRun) /\ \A k \in Nat : RunTo(GoneRun, k)
  <1>1. RunOk(GoneRun)
    BY Records DEF RunOk, Honest, LogPcs
  <1>2. \A k \in Nat : RunTo(GoneRun, k)
    BY Records DEF RunTo, LogPcs
  <1> QED BY <1>1, <1>2

LEMMA CoreRestart == ASSUME Core, NEW p \in Procs, Restart(p) PROVE Core'
  <1> DEFINE cs == [r \in Readers |-> IF conn[r].proc = p /\ conn[r].pc # "finished"
                                      THEN Ended(conn[r]) ELSE conn[r]]
             gone(a) == run[a].proc = p /\ run[a].pc # "gone"
  <1>0. UNCHANGED <<mode, status, op, log, cp>> /\ Lasts
    BY DEF Restart, Lasts
  <1>1. Plain'
    <2>1. MaxFaults[mode] \in Nat
      BY Constants DEF Core, Plain
    <2> QED BY <1>0, <2>1 DEF Core, Plain, Restart
  <1>2. ASSUME NEW r \in Readers PROVE ConnOk(cs[r])
    BY EndedOk DEF Core, ConnsOk
  <1>3. ConnsOk(cs)
    BY <1>2 DEF ConnsOk, ConnOk
  <1>4. BusesOk([bus EXCEPT ![p] = FreshBus])
    BY FreshOk, BusChange DEF Core
  <1>5. PICK rs : rs = [a \in Runs |-> IF gone(a) THEN GoneRun ELSE run[a]]
    OBVIOUS
  <1>6. rs \in [Runs -> RunRec]
    BY <1>5, Records DEF Core, RunsOk
  <1>7. ASSUME NEW a \in Runs PROVE RunOk(rs[a])'
    BY <1>0, <1>5, <1>6, GoneOk, RunLasts DEF Core, RunsOk
  <1>8. ASSUME NEW a \in Runs, NEW k \in 0..MaxEvents, RunTo(run[a], k)
        PROVE  RunTo(rs[a], k)
    BY <1>5, <1>8, GoneOk
  <1>9. bus' = [bus EXCEPT ![p] = FreshBus] /\ conn' = cs /\ run' = rs
    BY <1>5 DEF Restart
  <1> HIDE DEF cs
  <1> QED BY <1>0, <1>1, <1>3, <1>4, <1>6, <1>7, <1>8, <1>9, Keeps

-----------------------------------------------------------------------------
(* Readers. *)

Rest == <<mode, status, op, log, cp, cancel, faults>>

LEMMA Idle == ASSUME Core, UNCHANGED Rest PROVE Lasts /\ Plain' /\ UNCHANGED <<log, cp>>
  BY DEF Core, Plain, Rest, Lasts

LEMMA OneReader ==
  ASSUME Core, NEW r \in Readers, NEW c, ConnOk(c), Becomes(r, c),
         UNCHANGED Rest, UNCHANGED <<bus, run>>
  PROVE  Core'
  <1>1. ConnsOk([conn EXCEPT ![r] = c]) /\ conn' = [conn EXCEPT ![r] = c]
    BY ConnChange DEF Core, Becomes
  <1> QED BY <1>1, Idle, KeepsIdle DEF Core

LEMMA CoreRequest ==
  ASSUME Core, NEW r \in Readers, NEW p \in Procs, Request(r, p)
  PROVE  Core'
  <1> DEFINE c == [conn[r] EXCEPT !.pc = "start", !.proc = p, !.seen = status,
                                  !.after = conn[r].last]
  <1>1. conn[r] \in ConnRec /\ ConnOk(conn[r]) /\ status \in Statuses
    BY DEF Core, ConnsOk, Plain
  <1>2. /\ c \in ConnRec /\ c.pc = "start" /\ c.proc = p /\ c.seen = status
        /\ c.last = conn[r].last /\ c.told = conn[r].told /\ c.cp = conn[r].cp
    BY <1>1 DEF ConnRec, ConnPcs
  <1>3. ConnOk(c)
    BY <1>1, <1>2 DEF ConnOk
  <1>4. Becomes(r, c) /\ UNCHANGED Rest /\ UNCHANGED <<bus, run>>
    BY <1>1 DEF Request, Becomes, Rest, Core, ConnsOk, ConnRec
  <1> HIDE DEF c
  <1> QED BY <1>3, <1>4, OneReader

LEMMA MaxIs ==
  ASSUME NEW C \in SUBSET Int, NEW m \in C, \A y \in C : y <= m
  PROVE  Max(C) = m
  <1>1. \A y \in C : m >= y
    OBVIOUS
  <1>2. Max(C) \in C /\ \A y \in C : Max(C) >= y
    BY <1>1 DEF Max
  <1>3. Max(C) >= m /\ Max(C) <= m /\ Max(C) \in Int /\ m \in Int
    BY <1>2
  <1> QED BY ONLY <1>3

\* The last event has the highest cursor, in the log and in what follows a cursor.
LEMMA Highest ==
  ASSUME Logs, Written, NEW S \in SUBSET log, NEW x \in Cursors,
         \A e \in S : \A f \in log : e.cursor <= f.cursor => f \in S
  PROVE  /\ Max({e.cursor : e \in S} \union {x}) \in {e.cursor : e \in S} \union {x}
         /\ \A f \in S : f.cursor <= Max({e.cursor : e \in S} \union {x})
         /\ x <= Max({e.cursor : e \in S} \union {x})
  <1> DEFINE C == {e.cursor : e \in S} \union {x}
  <1>1. C \subseteq Int /\ x \in Int /\ \A e \in log : e.cursor \in Int
    BY Constants DEF Logs, Entry
  <1>2. \A f \in S : f.cursor \in C
    OBVIOUS
  <1>3. \E m \in C : \A y \in C : y <= m
    <2>1. CASE S = {}
      BY <1>1, <2>1
    <2>2. CASE S # {}
      <3>1. PICK e \in S : TRUE
        BY <2>2
      <3>2. PICK k \in 0..MaxEvents : LogTo(k)
        BY DEF Written
      <3>3. k \in 1..k
        BY <3>1, <3>2, Constants DEF LogTo
      <3>4. PICK top \in log : top.ev.ord = k
        BY <3>2, <3>3 DEF LogTo
      <3>5. \A f \in log : f.cursor <= top.cursor
        BY <1>1, <3>2, <3>3, <3>4 DEF LogTo
      <3>6. top \in S
        BY <3>1, <3>4, <3>5
      <3>7. \A f \in S : f.cursor <= top.cursor
        BY <3>5
      <3>8. top.cursor \in C /\ top.cursor \in Int
        BY <1>1, <3>6
      <3>9. CASE x <= top.cursor
        BY <3>7, <3>8, <3>9
      <3>10. CASE top.cursor <= x
        BY <1>1, <3>7, <3>8, <3>10
      <3> QED BY <1>1, <3>8, <3>9, <3>10
    <2> QED BY <2>1, <2>2
  <1>4. PICK m \in C : \A y \in C : y <= m
    BY <1>3
  <1>5. x \in C
    OBVIOUS
  <1> HIDE DEF C
  <1>6. Max(C) = m
    BY <1>1, <1>4, MaxIs
  <1>7. Max(C) \in C /\ (\A f \in S : f.cursor <= Max(C)) /\ x <= Max(C)
    BY <1>2, <1>4, <1>5, <1>6
  <1> QED BY <1>7 DEF C

LEMMA CoreReplay == ASSUME Core, NEW r \in Readers, Replay(r) PROVE Core'
  <1> DEFINE c == conn[r]
             S == ListAfter(c.after)
             m == Max({e.cursor : e \in S} \union {c.last})
  <1>0. c \in ConnRec /\ ConnOk(c) /\ c.after \in Cursors /\ c.last \in Cursors
    BY DEF Core, ConnsOk, ConnRec
  <1>1. S \subseteq log
    BY DEF ListAfter
  <1>2. UNCHANGED Rest /\ UNCHANGED <<bus, run>>
    BY DEF Replay, Rest
  <1>3. CASE \E e \in UpToTerminal(S) :
               Terminal(e.ev) /\ Becomes(r, Taken(c, e.ev, e.cursor))
    <2>1. PICK e \in S : Becomes(r, Taken(c, e.ev, e.cursor))
      BY <1>3 DEF UpToTerminal
    <2>2. e \in log /\ e.ev \in Event /\ e.cursor \in Cursors /\ Honest(e.ev.kind)
          /\ Logged(e.cursor)
      BY <1>1, <2>1 DEF Core, Logs, Entry, Logged
    <2>3. ConnOk(Taken(c, e.ev, e.cursor))
      BY <1>0, <2>2, TakenOk
    <2> QED BY <1>2, <2>1, <2>3, OneReader
  <1>4. CASE Becomes(r, [c EXCEPT !.last = m, !.pc = "checkpoint"])
    <2> DEFINE d == [c EXCEPT !.last = m, !.pc = "checkpoint"]
    <2>1. \A e \in S : \A f \in log : e.cursor <= f.cursor => f \in S
      BY <1>0, Constants DEF ListAfter, Core, Logs, Entry
    <2>2. m \in {e.cursor : e \in S} \union {c.last}
      BY <1>0, <1>1, <2>1, Highest DEF Core
    <2>3. m \in Cursors /\ (m # 0 => Logged(m))
      BY <1>0, <1>1, <2>2 DEF Core, Logs, Entry, Logged, ConnOk
    <2> HIDE DEF m
    <2>4. /\ d \in ConnRec /\ d.pc = "checkpoint" /\ d.last = m /\ d.told = c.told
          /\ d.cp = c.cp /\ d.proc = c.proc /\ d.seen = c.seen
      BY <1>0, <2>3 DEF ConnRec, ConnPcs
    <2>5. c.pc = "start" /\ mode = "escrow"
      BY DEF Replay, Bound
    <2>6. ConnOk(d)
      BY <1>0, <2>3, <2>4, <2>5 DEF ConnOk
    <2> QED BY <1>2, <1>4, <2>6, OneReader
  <1> QED BY <1>3, <1>4 DEF Replay

LEMMA CoreReadCheckpoint == ASSUME Core, NEW r \in Readers, ReadCheckpoint(r) PROVE Core'
  <1> DEFINE c == conn[r]
             d == [c EXCEPT !.pc = "subscribe", !.cp = cp]
  <1>1. c \in ConnRec /\ ConnOk(c) /\ cp \in CpRec /\ CpOk(cp) /\ c.pc = "checkpoint"
    BY DEF Core, ConnsOk, Logs, CpOk, ReadCheckpoint
  <1>2. /\ d \in ConnRec /\ d.pc = "subscribe" /\ d.last = c.last /\ d.told = c.told
        /\ d.cp = cp /\ d.proc = c.proc /\ d.seen = c.seen
    BY <1>1 DEF ConnRec, ConnPcs
  <1>3. ConnOk(d)
    BY <1>1, <1>2 DEF ConnOk
  <1>4. Becomes(r, d) /\ UNCHANGED Rest /\ UNCHANGED <<bus, run>>
    BY DEF ReadCheckpoint, Rest
  <1> HIDE DEF d
  <1> QED BY <1>3, <1>4, OneReader

LEMMA CoreSubscribe == ASSUME Core, NEW r \in Readers, Subscribe(r) PROVE Core'
  <1> DEFINE c == conn[r]
             d == [NoConn EXCEPT !.pc = "open", !.proc = c.proc, !.last = c.last]
  <1>1. /\ c \in ConnRec /\ ConnOk(c) /\ c.pc = "subscribe" /\ c.proc \in Procs
        /\ c.last \in Cursors /\ c.after \in Nat
        /\ c.cp \in CpRec /\ CpOk(c.cp) /\ c.cp.ev \in Event /\ c.cp.last \in Cursors
    <2>1. c \in ConnRec /\ ConnOk(c) /\ c.pc = "subscribe"
      BY DEF Core, ConnsOk, Subscribe
    <2>2. c.proc \in Procs /\ CpOk(c.cp)
      BY <2>1 DEF ConnOk
    <2>3. c.last \in Cursors /\ c.after \in Cursors /\ c.cp \in CpRec
      BY <2>1 DEF ConnRec
    <2>4. c.cp.ev \in Event /\ c.cp.last \in Cursors
      BY <2>3 DEF CpRec
    <2>5. c.after \in Nat
      BY <2>3, Constants
    <2> QED BY <2>1, <2>2, <2>3, <2>4, <2>5
  <1>2. UNCHANGED Rest /\ UNCHANGED <<bus, run>>
    BY DEF Subscribe, Rest
  <1>3. CASE c.cp = NoCp
    <2>1. /\ d \in ConnRec /\ d.pc = "open" /\ d.last = c.last /\ d.told = "note"
          /\ d.cp = NoCp /\ d.proc = c.proc /\ d.seen = "funding"
      BY <1>1, Records DEF ConnRec, ConnPcs
    <2>2. ConnOk(d)
      BY <1>1, <2>1, Records DEF ConnOk, CpOk, Honest, Outcomes
    <2>3. Becomes(r, d)
      BY <1>3 DEF Subscribe
    <2> QED BY <1>2, <2>2, <2>3, OneReader
  <1>4. CASE c.cp # NoCp /\ c.cp.last > c.after
    <2>1. ConnOk(Taken(c, c.cp.ev, c.cp.last))
      BY <1>1, <1>4, TakenOk DEF CpOk
    <2>2. Becomes(r, Taken(c, c.cp.ev, c.cp.last))
      BY <1>4 DEF Subscribe
    <2> QED BY <1>2, <2>1, <2>2, OneReader
  <1>5. CASE c.cp # NoCp /\ ~(c.cp.last > c.after)
    <2>1. ConnOk(Ended(c)) /\ Becomes(r, Ended(c))
      BY <1>1, <1>5, EndedOk DEF Subscribe
    <2> QED BY <1>2, <2>1, OneReader
  <1> QED BY <1>3, <1>4, <1>5

LEMMA Starting ==
  ASSUME Core, NEW r \in Readers, Starts(r)
  PROVE  /\ conn[r] \in ConnRec /\ ConnOk(conn[r]) /\ conn[r].pc = "start"
         /\ conn[r].proc \in Procs /\ conn[r].seen \in Statuses
         /\ conn[r].seen \in Outcomes => status = conn[r].seen
         /\ BusOk(bus[conn[r].proc]) /\ 0 \in Cursors
  <1>1. conn[r] \in ConnRec /\ ConnOk(conn[r]) /\ conn[r].pc = "start"
    BY DEF Core, ConnsOk, Starts
  <1>2. conn[r].proc \in Procs
    BY <1>1 DEF ConnOk
  <1>3. conn[r].seen \in Statuses
    BY <1>1 DEF ConnRec
  <1>4. conn[r].seen \in Outcomes => status = conn[r].seen
    BY <1>1 DEF ConnOk
  <1>5. BusOk(bus[conn[r].proc])
    BY <1>2 DEF Core, BusesOk
  <1> QED BY <1>1, <1>2, <1>3, <1>4, <1>5, Constants

LEMMA CoreDirectOver == ASSUME Core, NEW r \in Readers, DirectOver(r) PROVE Core'
  <1> DEFINE p == conn[r].proc
             c == Replayed(conn[r], bus[p])
             d == IF HasTerminal(bus[p]) \/ c.seen = "running" THEN c
                  ELSE Taken(c, PersistedTerminal(c.seen), 0)
             b == IF bus[p].done THEN bus[p] ELSE MarkedDone(bus[p])
  <1>1. Starts(r)
    BY DEF DirectOver
  <1>2. ConnOk(c)
    BY <1>1, Starting, ReplayedOk
  <1>3. ConnOk(d)
    <2>1. c.seen \in Statuses /\ (c.seen \in Outcomes => status = c.seen)
      BY <1>2 DEF ConnOk, ConnRec
    <2>2. c.seen # "running"
            => PersistedTerminal(c.seen) \in Event /\ Honest(PersistedTerminal(c.seen).kind)
      BY <2>1, Persisted
    <2> QED BY <1>1, <1>2, <2>2, Starting, TakenOk
  <1>4. ConnOk(Answered(d))
    BY <1>3, EndedOk DEF Answered
  <1>5. BusOk(b)
    BY <1>1, Starting, MarkedDoneOk
  <1>6. bus' = [bus EXCEPT ![p] = b] /\ conn' = [conn EXCEPT ![r] = Answered(d)]
        /\ UNCHANGED Rest /\ run' = run
    BY <1>1, Starting DEF DirectOver, Becomes, Rest, Core, BusesOk
  <1>7. p \in Procs
    BY <1>1, Starting
  <1> HIDE DEF b, d, p
  <1>8. BusesOk([bus EXCEPT ![p] = b]) /\ ConnsOk([conn EXCEPT ![r] = Answered(d)])
    BY <1>4, <1>5, <1>7, BusChange, ConnChange DEF Core
  <1> QED BY <1>6, <1>8, Idle, KeepsIdle

LEMMA CoreDirectEnded == ASSUME Core, NEW r \in Readers, DirectEnded(r) PROVE Core'
  <1> DEFINE p  == conn[r].proc
             ev == PersistedTerminal(conn[r].seen)
             b  == MarkedDone(Published(bus[p], ev))
             t  == Told(conn, p, ev, 0)
             u  == [t EXCEPT ![r] = Taken(t[r], ev, 0)]
             cs == DoneTold(u, p)
  <1>1. Starts(r) /\ conn[r].seen # "running"
    BY DEF DirectEnded
  <1>2. ev \in Event /\ Honest(ev.kind)
    BY <1>1, Starting, Persisted
  <1>3. BusOk(b)
    BY <1>1, <1>2, Starting, PublishedOk, MarkedDoneOk
  <1>4. ConnsOk(t)
    BY <1>1, <1>2, Starting, ToldOk DEF Core
  <1>5. ConnOk(Taken(t[r], ev, 0))
    BY <1>1, <1>2, <1>4, Starting, TakenOk DEF ConnsOk
  <1>6. p \in Procs
    BY <1>1, Starting
  <1> HIDE DEF ev
  <1>7. ConnsOk(cs)
    <2> HIDE DEF t
    <2>1. ConnsOk(u)
      BY <1>4, <1>5, ConnChange
    <2> QED BY <2>1, DoneToldOk
  <1>8. bus' = [bus EXCEPT ![p] = b] /\ conn' = cs /\ UNCHANGED Rest /\ run' = run
    BY <1>4 DEF DirectEnded, Rest, ev, ConnsOk, Core, BusesOk
  <1> HIDE DEF b, cs, p
  <1>9. BusesOk([bus EXCEPT ![p] = b])
    BY <1>3, <1>6, BusChange DEF Core
  <1> QED BY <1>7, <1>8, <1>9, Idle, KeepsIdle

LEMMA CoreDirectFollow == ASSUME Core, NEW r \in Readers, DirectFollow(r) PROVE Core'
  <1> DEFINE c == Replayed(conn[r], bus[conn[r].proc])
             d == [c EXCEPT !.pc = "open"]
  <1>1. Starts(r) /\ ~HasTerminal(bus[conn[r].proc])
    BY DEF DirectFollow, Over
  <1>2. ConnOk(c) /\ c.pc = "start"
    BY <1>1, Starting, ReplayedOk
  <1>3. c \in ConnRec
    BY <1>2 DEF ConnOk
  <1>4. Becomes(r, d) /\ UNCHANGED Rest /\ UNCHANGED <<bus, run>>
    BY DEF DirectFollow, Rest
  <1> HIDE DEF c
  <1>5. /\ d \in ConnRec /\ d.pc = "open" /\ d.last = c.last /\ d.told = c.told
        /\ d.cp = c.cp /\ d.proc = c.proc /\ d.seen = c.seen
    BY <1>3 DEF ConnRec, ConnPcs
  <1>6. ConnOk(d)
    BY <1>2, <1>5 DEF ConnOk
  <1> HIDE DEF d
  <1> QED BY <1>4, <1>6, OneReader

LEMMA CoreDirectRun == ASSUME Core, NEW r \in Readers, DirectRun(r) PROVE Core'
  <1> DEFINE p == conn[r].proc
             c == [conn[r] EXCEPT !.pc = "own", !.after = 0]
             b == [bus[p] EXCEPT !.runner = TRUE]
             x == [NoRun EXCEPT !.pc = "agent", !.proc = p, !.own = r]
  <1>1. Starts(r) /\ conn[r].seen = "running"
    BY DEF DirectRun
  <1>2. mode = "direct"
    BY <1>1 DEF Starts, Bound, Core, Plain, Modes
  <1>3. p \in Procs /\ conn[r] \in ConnRec /\ ConnOk(conn[r]) /\ 0 \in Cursors
    BY <1>1, Starting
  <1>4. PICK a \in Runs : run' = [run EXCEPT ![a] = x]
    BY DEF DirectRun
  <1>5. /\ c \in ConnRec /\ c.pc = "own" /\ c.last = conn[r].last
        /\ c.told = conn[r].told /\ c.cp = conn[r].cp /\ c.proc = p
        /\ c.seen = conn[r].seen
    BY <1>3 DEF ConnRec, ConnPcs
  <1>6. ConnOk(c)
    BY <1>3, <1>5 DEF ConnOk
  <1>7. BusOk(b)
    <2>1. BusOk(bus[p]) /\ bus[p] \in BusRec
      BY <1>1, Starting DEF BusOk
    <2>2. b \in BusRec /\ b.hist = bus[p].hist
      BY <2>1 DEF BusRec
    <2> QED BY <2>1, <2>2 DEF BusOk
  <1>8. /\ x \in RunRec /\ x.pc = "agent" /\ x.proc = p /\ x.ord = 0
        /\ x.ev = NoEvent /\ x.table = "event"
    BY <1>3, Records DEF RunRec, Pcs
  <1>9. 0 < MaxEvents
    BY Constants
  <1>10. RunOk(x)
    BY <1>3, <1>8, <1>9, Records DEF RunOk, Honest, LogPcs
  <1>11. \A k \in 0..MaxEvents : RunTo(x, k)
    BY <1>2, <1>8 DEF RunTo, LogPcs
  <1>12. /\ bus' = [bus EXCEPT ![p] = b] /\ conn' = [conn EXCEPT ![r] = c]
         /\ UNCHANGED Rest
    BY <1>3 DEF DirectRun, Becomes, Rest, Core, BusesOk, BusRec
  <1>13. PICK y : y = x
    OBVIOUS
  <1> HIDE DEF b, c, p, x
  <1>14. BusesOk([bus EXCEPT ![p] = b]) /\ ConnsOk([conn EXCEPT ![r] = c])
    BY <1>3, <1>6, <1>7, BusChange, ConnChange DEF Core
  <1>15. Lasts /\ Plain' /\ UNCHANGED <<log, cp>>
    BY <1>12, Idle
  <1>16. RunOk(y)'
    BY <1>10, <1>13, <1>15, RunLasts
  <1>17. \A k \in 0..MaxEvents : RunTo(y, k)
    BY <1>11, <1>13
  <1> QED BY <1>4, <1>12, <1>13, <1>14, <1>15, <1>16, <1>17, KeepsRun

LEMMA CoreDrop == ASSUME Core, NEW r \in Readers, Drop(r) PROVE Core'
  <1>1. Lasts /\ Plain' /\ UNCHANGED <<log, cp>>
    BY Idle DEF Drop, Rest
  <1>2. conn' = [conn EXCEPT ![r] = Ended(conn[r])] /\ bus' = bus
    BY DEF Drop, Becomes
  <1>3. ConnsOk([conn EXCEPT ![r] = Ended(conn[r])])
    BY EndedOk, ConnChange DEF Core, ConnsOk
  <1>4. PICK rs : rs = Disowned(r)
    OBVIOUS
  <1>5. ASSUME NEW a \in Runs
        PROVE  /\ rs[a] \in RunRec /\ RunOk(rs[a])
               /\ \A k \in 0..MaxEvents : RunTo(run[a], k) => RunTo(rs[a], k)
    <2> DEFINE x == run[a]
               y == [x EXCEPT !.own = IF @ = r THEN NoOne ELSE @]
    <2>1. x \in RunRec /\ RunOk(x)
      BY DEF Core, RunsOk
    <2>2. rs[a] = y
      BY <1>4 DEF Disowned
    <2>3. /\ y \in RunRec /\ y.pc = x.pc /\ y.proc = x.proc /\ y.ord = x.ord
          /\ y.ev = x.ev /\ y.table = x.table /\ y.cursor = x.cursor
          /\ y.own = IF x.own = r THEN NoOne ELSE x.own
      BY <2>1 DEF RunRec
    <2> HIDE DEF x, y
    <2>4. RunOk(y)
      BY <2>1, <2>3 DEF RunOk
    <2>5. ASSUME NEW k \in 0..MaxEvents, RunTo(x, k) PROVE RunTo(y, k)
      BY <2>3, <2>5 DEF RunTo
    <2> QED BY <2>2, <2>3, <2>4, <2>5 DEF x
  <1>6. rs \in [Runs -> RunRec]
    BY <1>4, <1>5 DEF Disowned
  <1>7. \A a \in Runs : RunOk(rs[a])'
    BY <1>1, <1>5, RunLasts
  <1>8. BusesOk(bus) /\ run' = rs
    BY <1>4 DEF Drop, Core
  <1> QED BY <1>1, <1>2, <1>3, <1>5, <1>6, <1>7, <1>8, Keeps

-----------------------------------------------------------------------------
(* Runs. *)

LEMMA TheRun ==
  ASSUME Core, NEW a \in Runs
  PROVE  /\ run[a] \in RunRec /\ RunOk(run[a]) /\ run[a].ev \in Event
         /\ run[a].ord \in 0..MaxEvents /\ run[a].cursor \in Cursors
         /\ run[a].own \in Readers \union {NoOne} /\ Honest(run[a].ev.kind)
         /\ run[a].table \in {"event", "checkpoint"}
  <1>1. run[a] \in RunRec /\ RunOk(run[a])
    BY DEF Core, RunsOk
  <1> QED BY <1>1 DEF RunRec, RunOk

\* The run has nothing to do with the log.
LEMMA DirectRunTo ==
  ASSUME NEW x, RunOk(x), mode = "direct" \/ x.pc \in {"none", "end", "gone"},
         NEW k \in Nat
  PROVE  RunTo(x, k)
  BY DEF RunTo, RunOk, LogPcs

LEMMA RunStep ==
  ASSUME Core, UNCHANGED Rest, NEW bs, BusesOk(bs), bus' = bs,
         NEW cs, ConnsOk(cs), conn' = cs,
         NEW a \in Runs, NEW x, RunOk(x), run' = [run EXCEPT ![a] = x],
         \A k \in 0..MaxEvents : LogTo(k) /\ RunTo(run[a], k) => RunTo(x, k)
  PROVE  Core'
  <1>1. PICK y : y = x
    OBVIOUS
  <1>2. Lasts /\ Plain' /\ UNCHANGED <<log, cp>>
    BY Idle
  <1>3. RunOk(y)'
    BY <1>1, <1>2, RunLasts
  <1>4. run' = [run EXCEPT ![a] = y]
    BY <1>1
  <1>5. \A k \in 0..MaxEvents : LogTo(k) /\ RunTo(run[a], k) => RunTo(y, k)
    BY <1>1
  <1> QED BY <1>2, <1>3, <1>4, <1>5, KeepsRun

\* What Goes gives.
At(x, pc) == IF pc = "gone" THEN GoneRun ELSE [x EXCEPT !.pc = pc]

LEMMA AtOk ==
  ASSUME NEW x, RunOk(x), NEW pc \in {"find", "recheck", "end", "agent", "gone"},
         pc \in LogPcs => mode = "escrow" /\ (x.ev.kind = "note" => x.ord < MaxEvents),
         pc = "agent" => x.ord < MaxEvents /\ x.table = "event",
         x.pc \notin {"none", "gone"}
  PROVE  /\ RunOk(At(x, pc)) /\ At(x, pc).pc = pc
         /\ pc # "gone" => /\ At(x, pc).ord = x.ord /\ At(x, pc).ev = x.ev
                           /\ At(x, pc).table = x.table /\ At(x, pc).cursor = x.cursor
                           /\ At(x, pc).own = x.own /\ At(x, pc).proc = x.proc
  <1>1. CASE pc = "gone"
    BY <1>1, GoneOk, Records DEF At
  <1>2. CASE pc # "gone"
    <2> DEFINE y == [x EXCEPT !.pc = pc]
    <2>1. x \in RunRec
      BY DEF RunOk
    <2>2. /\ y \in RunRec /\ y.pc = pc /\ y.proc = x.proc /\ y.ord = x.ord
          /\ y.ev = x.ev /\ y.table = x.table /\ y.cursor = x.cursor /\ y.own = x.own
      BY <2>1 DEF RunRec, Pcs
    <2>3. At(x, pc) = y
      BY <1>2 DEF At
    <2> HIDE DEF y
    <2>4. RunOk(y)
      BY <1>2, <2>2 DEF RunOk, LogPcs
    <2> QED BY <2>2, <2>3, <2>4
  <1> QED BY <1>1, <1>2

LEMMA GoesTo ==
  ASSUME Core, NEW a \in Runs, NEW pc, Goes(a, pc)
  PROVE  run' = [run EXCEPT ![a] = At(run[a], pc)]
  BY DEF Goes, At, Core, RunsOk

LEMMA CoreClaim ==
  ASSUME Core, NEW a \in Runs, NEW p \in Procs, Claim(a, p) PROVE Core'
  <1> DEFINE x == [NoRun EXCEPT !.pc = "agent", !.proc = p]
  <1>1. Lasts /\ UNCHANGED <<log, cp, bus, conn>>
    BY DEF Claim, Lasts
  <1>2. Plain'
    <2>1. a \in 0..MaxRuns
      BY Constants
    <2>2. op \in [holder : 0..MaxRuns, live : BOOLEAN, done : BOOLEAN]
      BY DEF Core, Plain
    <2>3. op' \in [holder : 0..MaxRuns, live : BOOLEAN, done : BOOLEAN]
      BY <2>1, <2>2 DEF Claim
    <2> QED BY <2>3 DEF Core, Plain, Claim
  <1>3. /\ x \in RunRec /\ x.pc = "agent" /\ x.proc = p /\ x.ord = 0
        /\ x.ev = NoEvent /\ x.table = "event"
    BY Records DEF RunRec, Pcs
  <1>4. RunOk(x)
    BY <1>3, Constants, Records DEF RunOk, Honest, LogPcs
  <1>5. \A k \in 0..MaxEvents : RunTo(x, k)
    BY <1>3 DEF RunTo, LogPcs
  <1>6. run' = [run EXCEPT ![a] = x] /\ BusesOk(bus) /\ ConnsOk(conn)
    BY DEF Claim, Core
  <1>7. PICK y : y = x
    OBVIOUS
  <1> HIDE DEF x
  <1>8. RunOk(y)'
    BY <1>1, <1>4, <1>7, RunLasts
  <1> QED BY <1>1, <1>2, <1>5, <1>6, <1>7, <1>8, KeepsRun

LEMMA CoreAgentYields == ASSUME Core, NEW a \in Runs, AgentYields(a) PROVE Core'
  <1> DEFINE x       == run[a]
             Yields(kind) == [x EXCEPT !.pc = "out", !.ord = @ + 1,
                                !.ev = [ord |-> x.ord + 1, kind |-> kind]]
  <1>1. /\ x \in RunRec /\ RunOk(x) /\ x.pc = "agent" /\ x.ord \in 0..MaxEvents
        /\ x.ord < MaxEvents /\ MaxEvents \in Nat
    BY TheRun, Constants DEF AgentYields, RunOk
  <1>2. BusesOk(bus) /\ ConnsOk(conn) /\ UNCHANGED <<log, cp, bus, conn, mode>>
    BY DEF Core, AgentYields
  <1>3. Lasts /\ Plain'
    <2>1. UNCHANGED <<mode, log, op, cancel, faults>>
      BY DEF AgentYields
    <2>2. \/ status' = status
          \/ status = "running" /\ status' \in {"completed", "failed"}
      BY DEF AgentYields, StillRunning
    <2> QED BY <2>1, <2>2 DEF Core, Plain, Lasts, Statuses
  <1>4. ASSUME NEW kind \in Kinds, Honest(kind)', kind = "note" => x.ord + 1 < MaxEvents,
               run' = [run EXCEPT ![a] = Yields(kind)]
        PROVE  Core'
    <2>1. PICK y : y = Yields(kind)
      OBVIOUS
    <2>2. x.ord + 1 \in 0..MaxEvents
      BY <1>1
    <2>3. [ord |-> x.ord + 1, kind |-> kind] \in Event
      BY <2>2 DEF Event
    <2>4. /\ y \in RunRec /\ y.pc = "out" /\ y.proc = x.proc /\ y.ord = x.ord + 1
          /\ y.ev.ord = x.ord + 1 /\ y.ev.kind = kind /\ y.table = x.table
          /\ y.own = x.own
      BY <1>1, <2>1, <2>2, <2>3 DEF RunRec, Pcs
    <2>5. x.proc \in Procs /\ x.table = "event"
      BY <1>1 DEF RunOk
    <2>6. RunOk(y)'
      BY <1>4, <2>4, <2>5 DEF RunOk, LogPcs
    <2>7. ASSUME NEW k \in 0..MaxEvents, RunTo(x, k) PROVE RunTo(y, k)
      <3>1. mode = "escrow" => x.ord <= k
        BY <1>1, <2>7 DEF RunTo
      <3>2. k \in Nat /\ (mode = "escrow" => x.ord + 1 \in 1..(k + 1))
        BY <1>1, <3>1
      <3> QED BY <2>4, <3>2 DEF RunTo, LogPcs
    <2>8. run' = [run EXCEPT ![a] = y]
      BY <1>4, <2>1
    <2> QED BY <1>2, <1>3, <2>6, <2>7, <2>8, KeepsRun
  <1>5. ASSUME Goes(a, "end") PROVE Core'
    <2>1. PICK y : y = At(x, "end")
      OBVIOUS
    <2>2. RunOk(y) /\ y.pc = "end"
      BY <1>1, <2>1, AtOk DEF LogPcs
    <2>3. RunOk(y)'
      BY <1>3, <2>2, RunLasts
    <2>4. \A k \in 0..MaxEvents : RunTo(y, k)
      BY <1>1, <2>2, DirectRunTo
    <2>5. run' = [run EXCEPT ![a] = y]
      BY <1>5, <2>1, GoesTo
    <2> QED BY <1>2, <1>3, <2>3, <2>4, <2>5, KeepsRun
  <1>6. ASSUME NEW kind, run' = [run EXCEPT ![a].pc = "out", ![a].ord = @ + 1,
                             ![a].ev = [ord |-> run[a].ord + 1, kind |-> kind]]
        PROVE  run' = [run EXCEPT ![a] = Yields(kind)]
    BY <1>6 DEF Core, RunsOk, RunRec
  <1> HIDE DEF Yields
  <1>7. CASE /\ run[a].ord + 1 < MaxEvents
             /\ run' = [run EXCEPT ![a].pc = "out", ![a].ord = @ + 1,
                             ![a].ev = [ord |-> run[a].ord + 1, kind |-> "note"]]
    BY <1>4, <1>6, <1>7 DEF Kinds, Honest
  <1>8. CASE /\ status' = "completed"
             /\ run' = [run EXCEPT ![a].pc = "out", ![a].ord = @ + 1,
                             ![a].ev = [ord |-> run[a].ord + 1, kind |-> "final"]]
    BY <1>4, <1>6, <1>8 DEF Kinds, Honest
  <1>9. CASE /\ status' = "failed"
             /\ run' = [run EXCEPT ![a].pc = "out", ![a].ord = @ + 1,
                             ![a].ev = [ord |-> run[a].ord + 1, kind |-> "failed"]]
    BY <1>4, <1>6, <1>9 DEF Kinds, Honest
  <1>10. CASE /\ status' = "cancelled"
              /\ run' = [run EXCEPT ![a].pc = "out", ![a].ord = @ + 1,
                              ![a].ev = [ord |-> run[a].ord + 1, kind |-> "cancelled"]]
    BY <1>4, <1>6, <1>10 DEF Kinds, Honest
  <1> QED BY <1>5, <1>7, <1>8, <1>9, <1>10 DEF AgentYields

LEMMA CoreFailReclaimed == ASSUME Core, NEW a \in Runs, FailReclaimed(a) PROVE Core'
  <1> DEFINE x == run[a]
  <1>1. RunOk(x) /\ x.pc = "agent"
    BY TheRun DEF FailReclaimed
  <1>2. BusesOk(bus) /\ ConnsOk(conn) /\ UNCHANGED <<log, cp, bus, conn, mode>>
    BY DEF Core, FailReclaimed
  <1>3. Lasts /\ Plain'
    <2>1. UNCHANGED <<mode, log, op, cancel, faults>>
      BY DEF FailReclaimed
    <2>2. status' = status \/ (status = "running" /\ status' = "failed")
      BY DEF FailReclaimed, StillRunning
    <2> QED BY <2>1, <2>2 DEF Core, Plain, Lasts, Statuses
  <1>4. ASSUME NEW pc \in {"end", "gone"}, Goes(a, pc) PROVE Core'
    <2>1. PICK y : y = At(x, pc)
      OBVIOUS
    <2>2. RunOk(y) /\ y.pc = pc
      BY <1>1, <2>1, AtOk DEF LogPcs
    <2>3. RunOk(y)'
      BY <1>3, <2>2, RunLasts
    <2>4. \A k \in 0..MaxEvents : RunTo(y, k)
      BY <2>2, DirectRunTo
    <2>5. run' = [run EXCEPT ![a] = y]
      BY <1>4, <2>1, GoesTo
    <2> QED BY <1>2, <1>3, <2>3, <2>4, <2>5, KeepsRun
  <1> QED BY <1>4 DEF FailReclaimed

LEMMA CoreCheckLease == ASSUME Core, NEW a \in Runs, CheckLease(a) PROVE Core'
  <1> DEFINE pc == IF Fresh(a) THEN "find" ELSE "gone"
             x  == run[a]
  <1>1. /\ RunOk(x) /\ x.pc = "out" /\ x.table = "event" /\ mode = "escrow"
        /\ x.ev.kind = "note" => x.ord < MaxEvents
    BY TheRun DEF CheckLease, RunOk
  <1>2. pc \in {"find", "gone"}
    OBVIOUS
  <1>3. run' = [run EXCEPT ![a] = At(x, pc)]
    BY GoesTo DEF CheckLease, WithLease
  <1> HIDE DEF pc
  <1>4. RunOk(At(x, pc))
    BY <1>1, <1>2, AtOk DEF LogPcs
  <1>5. ASSUME NEW k \in 0..MaxEvents, RunTo(x, k) PROVE RunTo(At(x, pc), k)
    <2>1. CASE pc = "gone"
      BY <2>1, GoneOk DEF At
    <2>2. CASE pc = "find"
      <3>1. /\ At(x, pc).pc = "find" /\ At(x, pc).ord = x.ord /\ At(x, pc).ev = x.ev
            /\ At(x, pc).table = "event"
        BY <1>1, <2>2, AtOk DEF LogPcs
      <3>2. x.ord \in 1..(k + 1) /\ x.ev.ord = x.ord
        BY <1>1, <1>5 DEF RunTo
      <3> QED BY <3>1, <3>2 DEF RunTo, LogPcs
    <2> QED BY <1>2, <2>1, <2>2
  <1>6. UNCHANGED Rest /\ UNCHANGED <<bus, conn>> /\ BusesOk(bus) /\ ConnsOk(conn)
    BY DEF CheckLease, WithLease, Rest, Core
  <1> QED BY <1>3, <1>4, <1>5, <1>6, RunStep

LEMMA CoreRecheck == ASSUME Core, NEW a \in Runs, Recheck(a) PROVE Core'
  <1> DEFINE pc == IF Fresh(a) THEN "end" ELSE "gone"
             x  == run[a]
  <1>1. RunOk(x) /\ x.pc = "recheck"
    BY TheRun DEF Recheck
  <1>2. pc \in {"end", "gone"}
    OBVIOUS
  <1>3. run' = [run EXCEPT ![a] = At(x, pc)]
    BY GoesTo DEF Recheck, WithLease
  <1> HIDE DEF pc
  <1>4. RunOk(At(x, pc)) /\ At(x, pc).pc = pc
    BY <1>1, <1>2, AtOk DEF LogPcs
  <1>5. \A k \in 0..MaxEvents : RunTo(At(x, pc), k)
    BY <1>2, <1>4, DirectRunTo
  <1>6. UNCHANGED Rest /\ UNCHANGED <<bus, conn>> /\ BusesOk(bus) /\ ConnsOk(conn)
    BY DEF Recheck, WithLease, Rest, Core
  <1> QED BY <1>3, <1>4, <1>5, <1>6, RunStep

\* The rows a lookup finds have one cursor.
LEMMA KnownIs ==
  ASSUME Core, NEW a \in Runs, Known(a) # {}
  PROVE  /\ Max(Known(a)) \in Known(a) /\ Max(Known(a)) \in Cursors
         /\ run[a].table = "event" =>
              \E e \in log : e.ev.ord = run[a].ev.ord /\ e.cursor = Max(Known(a))
  <1>1. PICK k \in 0..MaxEvents : LogTo(k)
    BY DEF Core, Written
  <1>2. \A e \in log : e.cursor \in Cursors /\ e.cursor \in Int /\ e.ev.ord \in Int
    BY Constants DEF Core, Logs, Entry, Event
  <1>3. cp.cursor \in Cursors /\ cp.cursor \in Int
    BY Constants DEF Core, Logs, CpOk, CpRec
  <1>4. Known(a) \subseteq Cursors /\ Known(a) \subseteq Int
    BY <1>2, <1>3 DEF Known, Twin
  <1>5. \A c, d \in Known(a) : c = d
    BY <1>1, <1>2 DEF Known, Twin, LogTo
  <1>6. PICK c \in Known(a) : TRUE
    OBVIOUS
  <1>7. Max(Known(a)) = c
    BY <1>4, <1>5, <1>6, MaxIs
  <1>8. run[a].table = "event" => \E e \in Twin(a) : e.cursor = c
    BY <1>6 DEF Known
  <1> QED BY <1>4, <1>6, <1>7, <1>8 DEF Twin

LEMMA LookupOk ==
  ASSUME Core, NEW a \in Runs, run[a].pc \in {"find", "insert"},
         NEW otherwise \in {"max", "gone"}, Lookup(a, otherwise),
         UNCHANGED Rest, UNCHANGED <<bus, conn>>
  PROVE  Core'
  <1> DEFINE x == run[a]
             m == Max(Known(a))
  <1>1. x \in RunRec /\ RunOk(x) /\ mode = "escrow"
    BY TheRun DEF RunOk, LogPcs
  <1>2. BusesOk(bus) /\ ConnsOk(conn)
    BY DEF Core
  <1>3. CASE Known(a) # {}
    <2> DEFINE y == [x EXCEPT !.pc = "recheck", !.cursor = m]
    <2>1. /\ m \in Cursors
          /\ x.table = "event" => \E e \in log : e.ev.ord = x.ev.ord /\ e.cursor = m
      BY <1>3, KnownIs
    <2> HIDE DEF m
    <2>2. /\ y \in RunRec /\ y.pc = "recheck" /\ y.proc = x.proc /\ y.ord = x.ord
          /\ y.ev = x.ev /\ y.table = x.table /\ y.cursor = m /\ y.own = x.own
      BY <1>1, <2>1 DEF RunRec, Pcs
    <2>3. run' = [run EXCEPT ![a] = y]
      BY <1>3 DEF Lookup, Core, RunsOk, m
    <2> HIDE DEF y
    <2>4. RunOk(y)
      BY <1>1, <2>2 DEF RunOk, LogPcs
    <2>5. ASSUME NEW k \in 0..MaxEvents, RunTo(x, k) PROVE RunTo(y, k)
      <3>1. /\ x.table = "event" => x.ord \in 1..(k + 1) /\ x.ev.ord = x.ord
            /\ x.table = "checkpoint" => x.ev.ord \in 1..k
        BY <1>1, <2>5 DEF RunTo, LogPcs
      <3> QED BY <2>1, <2>2, <3>1 DEF RunTo, LogPcs
    <2> QED BY <1>2, <2>3, <2>4, <2>5, RunStep
  <1>4. CASE Known(a) = {} /\ otherwise = "gone"
    <2>1. run' = [run EXCEPT ![a] = GoneRun]
      BY <1>4 DEF Lookup, Core, RunsOk
    <2>2. RunOk(GoneRun) /\ \A k \in 0..MaxEvents : RunTo(GoneRun, k)
      BY GoneOk
    <2> QED BY <1>2, <2>1, <2>2, RunStep
  <1>5. CASE Known(a) = {} /\ otherwise = "max"
    <2> DEFINE y == [x EXCEPT !.pc = "max"]
    <2>1. /\ y \in RunRec /\ y.pc = "max" /\ y.proc = x.proc /\ y.ord = x.ord
          /\ y.ev = x.ev /\ y.table = x.table /\ y.cursor = x.cursor /\ y.own = x.own
      BY <1>1 DEF RunRec, Pcs
    <2>2. run' = [run EXCEPT ![a] = y]
      BY <1>5 DEF Lookup, Core, RunsOk
    <2> HIDE DEF y
    <2>3. RunOk(y)
      BY <1>1, <2>1 DEF RunOk, LogPcs
    <2>4. ASSUME NEW k \in 0..MaxEvents, RunTo(x, k) PROVE RunTo(y, k)
      <3>1. /\ x.table = "event" => x.ord \in 1..(k + 1) /\ x.ev.ord = x.ord
            /\ x.table = "checkpoint" => x.ev.ord \in 1..k
        BY <1>1, <2>4 DEF RunTo, LogPcs
      <3> QED BY <2>1, <3>1 DEF RunTo, LogPcs
    <2> QED BY <1>2, <2>2, <2>3, <2>4, RunStep
  <1> QED BY <1>3, <1>4, <1>5

LEMMA CoreFindTwin == ASSUME Core, NEW a \in Runs, FindTwin(a) PROVE Core'
  <1>1. run[a].pc = "find" /\ Lookup(a, "max") /\ UNCHANGED Rest /\ UNCHANGED <<bus, conn>>
    BY DEF FindTwin, Rest
  <1> QED BY <1>1, LookupOk

LEMMA CoreReadMaxEvent == ASSUME Core, NEW a \in Runs, ReadMaxEvent(a) PROVE Core'
  <1> DEFINE x == run[a]
             m == Max({e.cursor : e \in log} \union {0})
             y == [x EXCEPT !.pc = "maxcp", !.cursor = m]
  <1>1. x \in RunRec /\ RunOk(x) /\ x.pc = "max" /\ mode = "escrow" /\ 0 \in Cursors
    BY TheRun, Constants DEF RunOk, LogPcs, ReadMaxEvent
  <1>2. /\ m \in {e.cursor : e \in log} \union {0} /\ \A e \in log : e.cursor <= m
    BY <1>1, Highest DEF Core
  <1>3. m \in Cursors /\ (m = 0 \/ Logged(m))
    BY <1>1, <1>2 DEF Core, Logs, Entry, Logged
  <1>4. run' = [run EXCEPT ![a] = y]
    BY DEF ReadMaxEvent, Core, RunsOk, RunRec
  <1> HIDE DEF m
  <1>5. /\ y \in RunRec /\ y.pc = "maxcp" /\ y.proc = x.proc /\ y.ord = x.ord
        /\ y.ev = x.ev /\ y.table = x.table /\ y.cursor = m /\ y.own = x.own
    BY <1>1, <1>3 DEF RunRec, Pcs
  <1> HIDE DEF y
  <1>6. RunOk(y)
    BY <1>1, <1>5 DEF RunOk, LogPcs
  <1>7. ASSUME NEW k \in 0..MaxEvents, RunTo(x, k) PROVE RunTo(y, k)
    <2>1. /\ x.table = "event" => x.ord \in 1..(k + 1) /\ x.ev.ord = x.ord
          /\ x.table = "checkpoint" => x.ev.ord \in 1..k
      BY <1>1, <1>7 DEF RunTo, LogPcs
    <2> QED BY <1>2, <1>3, <1>5, <2>1 DEF RunTo, LogPcs
  <1>8. UNCHANGED Rest /\ UNCHANGED <<bus, conn>> /\ BusesOk(bus) /\ ConnsOk(conn)
    BY DEF ReadMaxEvent, Rest, Core
  <1> QED BY <1>4, <1>6, <1>7, <1>8, RunStep

LEMMA CoreReadMaxCheckpoint ==
  ASSUME Core, NEW a \in Runs, ReadMaxCheckpoint(a) PROVE Core'
  <1> DEFINE x == run[a]
             m == Max({x.cursor, cp.cursor})
             y == [x EXCEPT !.pc = "insert", !.cursor = m + 1]
  <1>1. /\ x \in RunRec /\ RunOk(x) /\ x.pc = "maxcp" /\ mode = "escrow"
        /\ x.cursor \in Nat /\ cp.cursor \in Nat /\ (cp = NoCp => cp.cursor = 0)
    <2>1. x \in RunRec /\ RunOk(x) /\ x.pc = "maxcp" /\ x.cursor \in Cursors
      BY TheRun DEF ReadMaxCheckpoint
    <2>2. mode = "escrow"
      BY <2>1 DEF RunOk, LogPcs
    <2>3. cp.cursor \in Cursors
      BY DEF Core, Logs, CpOk, CpRec
    <2>4. \A n \in Cursors : n \in Nat
      BY Constants
    <2> QED BY <2>1, <2>2, <2>3, <2>4, Records
  <1>2. m \in {x.cursor, cp.cursor} /\ m >= x.cursor /\ m >= cp.cursor
    <2>1. CASE x.cursor <= cp.cursor
      <3>1. m = cp.cursor
        BY <1>1, <2>1, MaxIs
      <3> QED BY <2>1, <3>1, <1>1
    <2>2. CASE cp.cursor <= x.cursor
      <3>1. m = x.cursor
        BY <1>1, <2>2, MaxIs
      <3> QED BY <2>2, <3>1, <1>1
    <2> QED BY <1>1, <2>1, <2>2
  <1>3. ASSUME NEW k \in 0..MaxEvents, LogTo(k), RunTo(x, k)
        PROVE  m + 1 \in 1..(k + 2) /\ (cp = NoCp => m + 1 <= k + 1)
    <2>1. x.cursor = 0 \/ Logged(x.cursor)
      BY <1>1, <1>3 DEF RunTo
    <2>2. x.cursor <= k + 1 /\ (cp = NoCp => x.cursor <= k)
      BY <1>1, <1>3, <2>1, Constants DEF LogTo, Logged
    <2>3. cp.cursor <= k + 1
      BY <1>1, <1>3 DEF LogTo
    <2> HIDE DEF m
    <2> QED BY <1>1, <1>2, <2>2, <2>3
  <1>4. PICK k0 \in 0..MaxEvents : LogTo(k0) /\ RunTo(x, k0)
    BY DEF Core, Written
  <1>5. m + 1 \in 1..(k0 + 2)
    BY <1>3, <1>4
  <1>6. run' = [run EXCEPT ![a] = y]
    BY DEF ReadMaxCheckpoint, Core, RunsOk, RunRec
  <1>7. m \in Nat
    BY <1>1, <1>2
  <1> HIDE DEF m
  <1>12. m + 1 \in Cursors
    BY <1>5, <1>7, Constants
  <1>8. /\ y \in RunRec /\ y.pc = "insert" /\ y.proc = x.proc /\ y.ord = x.ord
        /\ y.ev = x.ev /\ y.table = x.table /\ y.cursor = m + 1 /\ y.own = x.own
    BY <1>1, <1>12 DEF RunRec, Pcs
  <1> HIDE DEF y
  <1>9. RunOk(y)
    BY <1>1, <1>8 DEF RunOk, LogPcs
  <1>10. ASSUME NEW k \in 0..MaxEvents, LogTo(k), RunTo(x, k) PROVE RunTo(y, k)
    <2>1. /\ x.table = "event" => x.ord \in 1..(k + 1) /\ x.ev.ord = x.ord
          /\ x.table = "checkpoint" => x.ev.ord \in 1..k
      BY <1>1, <1>10 DEF RunTo, LogPcs
    <2>2. x.table = "event" /\ x.ord = k + 1 => \A e \in log : e.cursor < m + 1
      <3>1. \A e \in log : e.cursor \in Nat
        BY Constants DEF Core, Logs, Entry
      <3>2. x.table = "event" /\ x.ord = k + 1 => \A e \in log : e.cursor <= x.cursor
        BY <1>1, <1>10 DEF RunTo
      <3> QED BY <1>1, <1>2, <1>7, <3>1, <3>2
    <2>3. m + 1 \in 1..(k + 2) /\ (cp = NoCp => m + 1 <= k + 1)
      BY <1>3, <1>10
    <2>4. m + 1 >= 1 /\ m + 1 <= k + 2
      BY <2>3
    <2> QED BY <1>8, <2>1, <2>2, <2>3, <2>4 DEF RunTo, LogPcs
  <1>11. UNCHANGED Rest /\ UNCHANGED <<bus, conn>> /\ BusesOk(bus) /\ ConnsOk(conn)
    BY DEF ReadMaxCheckpoint, Rest, Core
  <1> QED BY <1>6, <1>9, <1>10, <1>11, RunStep

\* An event is inserted: it is the next, and what the other runs computed is no worse.
LEMMA RunToNext ==
  ASSUME NEW x, RunOk(x), NEW k \in Nat, RunTo(x, k),
         mode' = mode, cp' = cp, log \subseteq log'
  PROVE  RunTo(x, k + 1)'
  <1>0. x.ord \in Int /\ x.cursor \in Int /\ x.ev.ord \in Int
    BY Constants DEF RunOk, RunRec, Event
  <1>1. mode = "escrow" /\ x.pc = "agent" => x.ord <= k + 1
    BY <1>0 DEF RunTo
  <1>2. mode = "escrow" /\ x.pc \in {"out"} \union LogPcs /\ x.table = "event"
          => x.ord \in 1..(k + 1 + 1) /\ x.ev.ord = x.ord /\ x.ord # k + 1 + 1
    BY <1>0 DEF RunTo
  <1>3. x.pc \in LogPcs /\ x.table = "checkpoint" => x.ev.ord \in 1..(k + 1)
    BY <1>0 DEF RunTo
  <1>4. x.pc = "maxcp" => x.cursor = 0 \/ Logged(x.cursor)'
    BY DEF RunTo, Logged
  <1>5. x.pc \in LogPcs /\ x.table = "event" => x.ord # k + 1 + 1
    BY <1>2 DEF RunOk
  <1>6. "maxcp" \in LogPcs /\ "insert" \in LogPcs
    BY DEF LogPcs
  <1>7. x.pc = "insert" => x.cursor >= 1
    BY DEF RunTo
  <1>8. x.pc = "insert" /\ x.table = "checkpoint" /\ cp = NoCp => x.cursor <= k + 1 + 1
    BY <1>0 DEF RunTo
  <1>9. x.pc = "recheck" /\ x.table = "event"
          => \E e \in log' : e.ev.ord = x.ord /\ e.cursor = x.cursor
    BY DEF RunTo
  <1> QED
    BY <1>1, <1>2, <1>3, <1>4, <1>5, <1>6, <1>7, <1>8, <1>9 DEF RunTo

LEMMA CoreInsert == ASSUME Core, NEW a \in Runs, Insert(a) PROVE Core'
  <1> DEFINE x == run[a]
             y == [x EXCEPT !.pc = "recheck"]
  <1>1. x \in RunRec /\ RunOk(x) /\ x.pc = "insert" /\ mode = "escrow"
    BY TheRun DEF RunOk, LogPcs, Insert
  <1>2. x.ev \in Event /\ Honest(x.ev.kind) /\ x.cursor \in Cursors
        /\ x.ord \in 0..MaxEvents /\ x.table \in {"event", "checkpoint"}
    BY TheRun
  <1>3. UNCHANGED <<mode, status, op, bus, conn, cancel, faults>> /\ Plain'
    BY DEF Insert, Core, Plain
  <1>4. PICK k \in 0..MaxEvents : LogTo(k) /\ \A b \in Runs : RunTo(run[b], k)
    BY DEF Core, Written
  <1>5. CASE Conflict(a)
    <2>1. Lookup(a, "gone") /\ UNCHANGED Rest /\ UNCHANGED <<bus, conn>>
      BY <1>5 DEF Insert, AfterConflict, Rest
    <2> QED BY <1>1, <2>1, LookupOk
  <1>6. ASSUME ~Conflict(a)
        PROVE  /\ run' = [run EXCEPT ![a] = y] /\ Known(a) = {}
               /\ IF x.table = "event"
                  THEN log' = log \union {[cursor |-> x.cursor, ev |-> x.ev]} /\ cp' = cp
                  ELSE /\ cp' = [cursor |-> x.cursor,
                                 last |-> Max({e.cursor : e \in Twin(a)}), ev |-> x.ev]
                       /\ log' = log
    BY <1>6 DEF Insert, Goes, Conflict, Core, RunsOk
  <1>7. /\ y \in RunRec /\ y.pc = "recheck" /\ y.proc = x.proc /\ y.ord = x.ord
        /\ y.ev = x.ev /\ y.table = x.table /\ y.cursor = x.cursor /\ y.own = x.own
    BY <1>1 DEF RunRec, Pcs
  <1> HIDE DEF y
  <1>8. RunOk(y)
    BY <1>1, <1>7 DEF RunOk, LogPcs
  <1>9. ASSUME ~Conflict(a), log \subseteq log'
        PROVE  RunsOk' /\ BusesOk(bus)' /\ ConnsOk(conn)' /\ Lasts
    <2>1. Lasts
      BY <1>3, <1>9 DEF Lasts
    <2>2. ASSUME NEW b \in Runs PROVE RunOk(run[b])'
      <3>1. PICK z \in RunRec : z = run'[b] /\ RunOk(z)
        BY <1>6, <1>7, <1>8, <1>9 DEF Core, RunsOk
      <3>2. RunOk(z)'
        BY <2>1, <3>1, RunLasts
      <3> QED BY <3>1, <3>2 DEF RunOk, Honest
    <2>3. run' \in [Runs -> RunRec]
      BY <1>6, <1>7, <1>9 DEF Core, RunsOk
    <2> QED BY <1>3, <2>1, <2>2, <2>3, BusesLast, ConnsLast DEF Core, RunsOk
  <1>10. CASE ~Conflict(a) /\ x.table = "event"
    <2> DEFINE new == [cursor |-> x.cursor, ev |-> x.ev]
    <2>1. log' = log \union {new} /\ cp' = cp
      BY <1>6, <1>10
    <2>2. x.ord = k + 1 /\ x.ev.ord = k + 1 /\ k + 1 \in 0..MaxEvents
      <3>1. x.ord \in 1..(k + 1) /\ x.ev.ord = x.ord
        BY <1>1, <1>4, <1>10 DEF RunTo, LogPcs
      <3>2. \A e \in log : e.ev.ord # x.ev.ord
        BY <1>6, <1>10 DEF Known, Twin
      <3>3. x.ord \notin 1..k
        BY <1>4, <3>1, <3>2 DEF LogTo
      <3> QED BY <1>2, <3>1, <3>3
    <2>3. /\ \A e \in log : e.cursor < x.cursor
          /\ x.cursor >= 1 /\ x.cursor <= k + 2 /\ (cp = NoCp => x.cursor <= k + 1)
      BY <1>1, <1>4, <1>10, <2>2 DEF RunTo
    <2>4. Logs'
      <3>1. new \in Entry
        BY <1>2 DEF Entry
      <3>2. \A e \in log' : e \in Entry /\ Honest(e.ev.kind)
        BY <1>2, <2>1, <3>1 DEF Core, Logs
      <3>3. CpOk(cp)'
        BY <1>3, <2>1 DEF Core, Logs, CpOk, Honest, Logged
      <3> QED BY <1>3, <3>2, <3>3 DEF Logs, Honest
    <2>5. LogTo(k + 1)'
      <3>1. \A e \in log : /\ e.ev.ord \in Int /\ e.cursor \in Int /\ e.ev.ord < k + 1
                           /\ e.ev.ord \in 1..(k + 1)
        BY <1>4, Constants DEF LogTo, Core, Logs, Entry
      <3>2. new.ev.ord = k + 1 /\ new.cursor = x.cursor /\ x.cursor \in Int
        BY <1>2, <2>2, Constants
      <3> HIDE DEF new
      <3>3. \A n \in 1..(k + 1) : \E e \in log' : e.ev.ord = n
        <4>1. \A n \in 1..k : \E e \in log' : e.ev.ord = n
          BY <1>4, <2>1 DEF LogTo
        <4>2. new \in log'
          BY <2>1
        <4> QED BY <3>2, <4>1, <4>2
      <3>4. \A e \in log' : /\ e.ev.ord \in 1..(k + 1) /\ e.cursor \in 1..(e.ev.ord + 1)
                            /\ cp' = NoCp => e.cursor <= e.ev.ord
        BY <1>4, <2>1, <2>3, <3>1, <3>2 DEF LogTo
      <3>5. \A e, f \in log' : e.ev.ord < f.ev.ord <=> e.cursor < f.cursor
        <4>1. \A e, f \in log : e.ev.ord < f.ev.ord <=> e.cursor < f.cursor
          BY <1>4 DEF LogTo
        <4> QED BY <2>1, <2>3, <3>1, <3>2, <4>1
      <3>6. cp' # NoCp => cp'.cursor \in 1..(k + 1 + 1)
        BY <1>4, <2>1 DEF LogTo
      <3> QED BY <3>3, <3>4, <3>5, <3>6 DEF LogTo
    <2>6. ASSUME NEW b \in Runs PROVE RunTo(run[b], k + 1)'
      <3>1. PICK z \in RunRec : z = run'[b]
        BY <1>6, <1>7, <1>10 DEF Core, RunsOk
      <3>2. CASE b = a
        <4>1. z = y
          BY <1>6, <1>7, <1>10, <3>1, <3>2 DEF Core, RunsOk
        <4>2. z.pc = "recheck" /\ z.table = "event" /\ z.ord = k + 1 /\ z.ev.ord = z.ord
              /\ z.cursor = x.cursor
          BY <1>7, <1>10, <2>2, <4>1
        <4>3. new \in log' /\ new.ev.ord = k + 1 /\ new.cursor = x.cursor
          BY <2>1, <2>2
        <4>4. z.ord \in 1..(k + 1 + 1)
          BY <4>2
        <4>5. \E e \in log' : e.ev.ord = z.ord /\ e.cursor = z.cursor
          BY <4>2, <4>3
        <4>6. RunTo(z, k + 1)'
          BY <4>2, <4>4, <4>5 DEF RunTo, LogPcs
        <4> QED BY <3>1, <4>6 DEF RunTo, Logged
      <3>3. CASE b # a
        <4>1. z = run[b]
          BY <1>6, <1>10, <3>1, <3>3 DEF Core, RunsOk
        <4>2. RunOk(z) /\ RunTo(z, k)
          BY <1>4, <4>1 DEF Core, RunsOk
        <4>3. RunTo(z, k + 1)'
          BY <1>3, <2>1, <4>2, RunToNext
        <4> QED BY <3>1, <4>3 DEF RunTo, Logged
      <3> QED BY <3>2, <3>3
    <2>7. Written'
      BY <2>2, <2>5, <2>6 DEF Written
    <2>8. log \subseteq log'
      BY <2>1
    <2> QED BY <1>3, <1>9, <1>10, <2>4, <2>7, <2>8 DEF Core
  <1>11. CASE ~Conflict(a) /\ x.table = "checkpoint"
    <2> DEFINE T == {e.cursor : e \in Twin(a)}
    <2>1. cp' = [cursor |-> x.cursor, last |-> Max(T), ev |-> x.ev] /\ log' = log
      BY <1>6, <1>11
    <2>2. cp = NoCp
      <3>1. cp.cursor = 0
        BY <1>6, <1>11 DEF Known
      <3> QED BY <1>4, <3>1 DEF LogTo
    <2>3. x.cursor >= 1 /\ x.cursor <= k + 1 /\ x.ev.ord \in 1..k
      BY <1>1, <1>4, <1>11, <2>2 DEF RunTo, LogPcs
    <2>4. Max(T) \in Cursors /\ Logged(Max(T))
      <3>1. PICK e \in Twin(a) : TRUE
        BY <1>4, <2>3 DEF LogTo, Twin
      <3>2. \A f \in log : f.cursor \in Cursors /\ f.cursor \in Int /\ f.ev.ord \in Int
        BY Constants DEF Core, Logs, Entry, Event
      <3>3. \A f \in Twin(a) : f.cursor = e.cursor
        BY <1>4, <3>1, <3>2 DEF Twin, LogTo
      <3>4. T \subseteq Int /\ e.cursor \in T
        BY <3>1, <3>2 DEF Twin
      <3>5. \A c \in T : c <= e.cursor
        BY <3>2, <3>3, <3>4
      <3>6. Max(T) = e.cursor
        BY <3>4, <3>5, MaxIs
      <3> QED BY <3>1, <3>2, <3>6 DEF Twin, Logged
    <2> HIDE DEF T
    <2>5. /\ cp' \in CpRec /\ cp'.cursor = x.cursor /\ cp'.last = Max(T) /\ cp'.ev = x.ev
          /\ cp' # NoCp
      BY <1>2, <2>1, <2>3, <2>4, Records DEF CpRec
    <2>6. Logs'
      BY <1>2, <1>3, <2>1, <2>4, <2>5 DEF Core, Logs, CpOk, Honest, Logged
    <2>7. LogTo(k)'
      <3>1. x.cursor \in 1..(k + 1)
        BY <1>2, <2>3, Constants
      <3> QED BY <1>4, <2>1, <2>5, <3>1 DEF LogTo
    <2>8. ASSUME NEW b \in Runs PROVE RunTo(run[b], k)'
      <3>1. PICK z \in RunRec : z = run'[b]
        BY <1>6, <1>7, <1>11 DEF Core, RunsOk
      <3>2. RunTo(z, k)'
        <4>1. CASE b = a
          <5>1. z = y
            BY <1>6, <1>7, <1>11, <3>1, <4>1 DEF Core, RunsOk
          <5> QED BY <1>7, <1>11, <2>3, <5>1 DEF RunTo, LogPcs
        <4>2. CASE b # a
          <5>1. z = run[b] /\ RunTo(z, k)
            BY <1>4, <1>6, <1>11, <3>1, <4>2 DEF Core, RunsOk
          <5> QED BY <1>3, <2>1, <2>5, <5>1 DEF RunTo, Logged
        <4> QED BY <4>1, <4>2
      <3> QED BY <3>1, <3>2 DEF RunTo, Logged
    <2>9. Written'
      BY <2>7, <2>8 DEF Written
    <2>10. log \subseteq log'
      BY <2>1
    <2> QED BY <1>3, <1>9, <1>11, <2>6, <2>9, <2>10 DEF Core
  <1> QED BY <1>2, <1>5, <1>10, <1>11

LEMMA CorePublishLogged == ASSUME Core, NEW a \in Runs, PublishLogged(a) PROVE Core'
  <1> DEFINE x == run[a]
             p == x.proc
             b == Published(bus[p], x.ev)
             t == Told(conn, p, x.ev, x.cursor)
             y == IF Terminal(x.ev)
                  THEN [x EXCEPT !.pc = "find", !.table = "checkpoint", !.cursor = 0]
                  ELSE [x EXCEPT !.pc = "agent", !.ev = NoEvent, !.cursor = 0]
  <1>1. /\ x \in RunRec /\ RunOk(x) /\ x.pc = "recheck" /\ x.table = "event"
        /\ x.ev \in Event /\ Honest(x.ev.kind) /\ x.cursor \in Cursors
    BY TheRun DEF PublishLogged
  <1>2. mode = "escrow" /\ p \in Procs /\ (x.ev.kind = "note" => x.ord < MaxEvents)
    BY <1>1 DEF RunOk, LogPcs
  <1>3. ASSUME NEW k \in 0..MaxEvents, LogTo(k), RunTo(x, k)
        PROVE  Logged(x.cursor) /\ x.ev.ord \in 1..k /\ x.ord \in 1..k
    <2>1. x.ev.ord = x.ord
      BY <1>1, <1>2, <1>3 DEF RunTo, LogPcs
    <2>2. PICK e \in log : e.ev.ord = x.ord /\ e.cursor = x.cursor
      BY <1>1, <1>3 DEF RunTo
    <2> QED BY <1>3, <2>1, <2>2 DEF LogTo, Logged
  <1>4. Logged(x.cursor)
    BY <1>3 DEF Core, Written
  <1>5. BusOk(b)
    BY <1>1, <1>2, PublishedOk DEF Core, BusesOk
  <1>6. ConnsOk(t)
    BY <1>1, <1>4, ToldOk DEF Core
  <1>7. /\ bus' = [bus EXCEPT ![p] = b] /\ conn' = t /\ run' = [run EXCEPT ![a] = y]
        /\ UNCHANGED Rest
    BY <1>2 DEF PublishLogged, Rest, Core, BusesOk, RunsOk
  <1>8. /\ y \in RunRec /\ y.proc = p /\ y.ord = x.ord
        /\ Terminal(x.ev) => /\ y.pc = "find" /\ y.table = "checkpoint" /\ y.ev = x.ev
        /\ ~Terminal(x.ev) => /\ y.pc = "agent" /\ y.table = "event" /\ y.ev = NoEvent
    BY <1>1, Records, Constants DEF RunRec, Pcs
  <1> HIDE DEF b, t, y
  <1>9. BusesOk([bus EXCEPT ![p] = b])
    BY <1>2, <1>5, BusChange DEF Core
  <1>10. RunOk(y)
    <2>1. CASE Terminal(x.ev)
      BY <1>1, <1>2, <1>8, <2>1 DEF RunOk, LogPcs, Terminal
    <2>2. CASE ~Terminal(x.ev)
      BY <1>1, <1>2, <1>8, <2>2, Records DEF RunOk, LogPcs, Terminal, Honest
    <2> QED BY <2>1, <2>2
  <1>11. ASSUME NEW k \in 0..MaxEvents, LogTo(k), RunTo(x, k) PROVE RunTo(y, k)
    <2>1. x.ev.ord \in 1..k /\ x.ord \in 1..k
      BY <1>3, <1>11
    <2>2. CASE Terminal(x.ev)
      BY <1>8, <2>1, <2>2 DEF RunTo, LogPcs
    <2>3. CASE ~Terminal(x.ev)
      BY <1>8, <2>1, <2>3 DEF RunTo, LogPcs
    <2> QED BY <2>2, <2>3
  <1> QED BY <1>6, <1>7, <1>9, <1>10, <1>11, RunStep

LEMMA CoreComplete == ASSUME Core, NEW a \in Runs, Complete(a) PROVE Core'
  <1> DEFINE p == run[a].proc
  <1>1. RunOk(run[a]) /\ run[a].pc = "end" /\ p \in Procs
    BY TheRun DEF Complete, RunOk
  <1>2. Lasts /\ UNCHANGED <<log, cp>> /\ run' = [run EXCEPT ![a] = GoneRun]
    BY DEF Complete, Lasts, Goes, Core, RunsOk
  <1>3. Plain'
    BY DEF Complete, Core, Plain
  <1>4. PICK y : y = GoneRun
    OBVIOUS
  <1>5. RunOk(y)' /\ \A k \in 0..MaxEvents : RunTo(y, k)
    BY <1>2, <1>4, GoneOk, RunLasts
  <1>6. CASE Fresh(a)
    <2>1. bus' = [bus EXCEPT ![p] = MarkedDone(bus[p])] /\ conn' = DoneTold(conn, p)
      BY <1>1, <1>6 DEF Complete, Core, BusesOk
    <2>2. BusOk(MarkedDone(bus[p]))
      BY <1>1, MarkedDoneOk DEF Core, BusesOk
    <2>3. BusesOk([bus EXCEPT ![p] = MarkedDone(bus[p])])
      BY <1>1, <2>2, BusChange DEF Core
    <2>4. ConnsOk(DoneTold(conn, p))
      BY DoneToldOk DEF Core
    <2> QED BY <1>2, <1>3, <1>4, <1>5, <2>1, <2>3, <2>4, KeepsRun
  <1>7. CASE ~Fresh(a)
    <2>1. bus' = bus /\ conn' = conn /\ BusesOk(bus) /\ ConnsOk(conn)
      BY <1>7 DEF Complete, Core
    <2> QED BY <1>2, <1>3, <1>4, <1>5, <2>1, KeepsRun
  <1> QED BY <1>6, <1>7

LEMMA CorePublishDirect == ASSUME Core, NEW a \in Runs, PublishDirect(a) PROVE Core'
  <1> DEFINE x  == run[a]
             p  == x.proc
             t  == Told(conn, p, x.ev, 0)
             u  == [t EXCEPT ![x.own] = Taken(t[x.own], x.ev, 0)]
             cs == IF x.own # NoOne /\ (Accepts(bus[p]) \/ Terminal(x.ev)) THEN u ELSE t
             pc == IF Terminal(x.ev) THEN "end" ELSE "agent"
  <1>1. /\ x \in RunRec /\ RunOk(x) /\ x.pc = "out" /\ mode = "direct"
        /\ x.ev \in Event /\ Honest(x.ev.kind) /\ x.own \in Readers \union {NoOne}
        /\ 0 \in Cursors
    BY TheRun, Constants DEF PublishDirect
  <1>2. p \in Procs /\ x.table = "event" /\ (x.ev.kind = "note" => x.ord < MaxEvents)
    BY <1>1 DEF RunOk
  <1>3. BusOk(Published(bus[p], x.ev))
    BY <1>1, <1>2, PublishedOk DEF Core, BusesOk
  <1>4. ConnsOk(t)
    BY <1>1, ToldOk DEF Core
  <1>5. x.own \in Readers => ConnsOk(u)
    <2>1. x.own \in Readers => ConnOk(Taken(t[x.own], x.ev, 0))
      BY <1>1, <1>4, TakenOk DEF ConnsOk
    <2> HIDE DEF t
    <2> QED BY <1>4, <2>1, ConnChange
  <1>6. ConnsOk(cs)
    BY <1>1, <1>4, <1>5
  <1>7. /\ bus' = [bus EXCEPT ![p] = Published(bus[p], x.ev)] /\ UNCHANGED Rest
        /\ Goes(a, pc)
    BY <1>2 DEF PublishDirect, Rest, Core, BusesOk
  <1>8. conn' = cs
    <2>1. x.own \in Readers => u = [t EXCEPT ![x.own] = Taken(@, x.ev, 0)]
      BY <1>4 DEF ConnsOk
    <2> QED BY <1>1, <2>1 DEF PublishDirect
  <1>9. run' = [run EXCEPT ![a] = At(x, pc)]
    BY <1>7, GoesTo
  <1>10. RunOk(At(x, pc))
    <2>1. ~Terminal(x.ev) => x.ord < MaxEvents
      BY <1>2 DEF Terminal
    <2> QED BY <1>1, <1>2, <2>1, AtOk DEF LogPcs
  <1>11. \A k \in 0..MaxEvents : RunTo(At(x, pc), k)
    BY <1>1, <1>10, DirectRunTo
  <1> HIDE DEF cs
  <1>12. BusesOk([bus EXCEPT ![p] = Published(bus[p], x.ev)])
    BY <1>2, <1>3, BusChange DEF Core
  <1> QED BY <1>6, <1>7, <1>8, <1>9, <1>10, <1>11, <1>12, RunStep

LEMMA CoreAgentThrows == ASSUME Core, NEW a \in Runs, AgentThrows(a) PROVE Core'
  <1> DEFINE x == run[a]
  <1>1. /\ x \in RunRec /\ RunOk(x) /\ x.pc = "agent" /\ mode = "direct"
        /\ x.proc \in Procs /\ x.table = "event"
    BY TheRun DEF AgentThrows, RunOk
  <1>2. BusesOk(bus) /\ ConnsOk(conn) /\ UNCHANGED <<log, cp, bus, conn, mode>>
    BY DEF Core, AgentThrows
  <1>3. Lasts /\ Plain'
    <2>1. UNCHANGED <<mode, log, op, cancel, faults>>
      BY DEF AgentThrows
    <2>2. status' = status \/ (status = "running" /\ status' = "failed")
      <3>1. \/ status' = status
            \/ status' = IF status = "running" THEN "failed" ELSE status
        BY Zenon DEF AgentThrows
      <3> QED BY <3>1
    <2> QED BY <2>1, <2>2 DEF Core, Plain, Lasts, Statuses
  <1>4. CASE bus[x.proc].aborted \/ x.own = NoOne
    <2>1. PICK y : y = At(x, "end")
      OBVIOUS
    <2>2. RunOk(y)
      BY <1>1, <2>1, AtOk DEF LogPcs
    <2>3. RunOk(y)' /\ \A k \in 0..MaxEvents : RunTo(y, k)
      BY <1>1, <1>3, <2>2, RunLasts, DirectRunTo
    <2>4. run' = [run EXCEPT ![a] = y]
      BY <1>4, <2>1, GoesTo DEF AgentThrows
    <2> QED BY <1>2, <1>3, <2>3, <2>4, KeepsRun
  <1>5. CASE ~(bus[x.proc].aborted \/ x.own = NoOne)
    <2>1. /\ status' \in Statuses /\ status' # "running"
          /\ run' = [run EXCEPT ![a].pc = "out", ![a].ev = PersistedTerminal(status')]
      BY <1>3, <1>5 DEF AgentThrows, Plain, Core
    <2>2. PICK st \in Statuses : st = status'
      BY <2>1
    <2>3. PICK ev : ev = PersistedTerminal(st)
      OBVIOUS
    <2>4. ev \in Event /\ ev.kind # "note" /\ Honest(ev.kind)'
      <3>1. /\ ev.ord = 0 /\ ev.kind = CASE st = "completed" -> "final"
                                         [] st = "funding" -> "early"
                                         [] OTHER -> st
            /\ ev \in Event
        BY <2>1, <2>2, <2>3, Constants
           DEF PersistedTerminal, NoEvent, Event, Kinds, Statuses
      <3> QED BY <2>1, <2>2, <3>1 DEF Honest, Statuses
    <2>5. PICK y : y = [x EXCEPT !.pc = "out", !.ev = ev]
      OBVIOUS
    <2>6. /\ y \in RunRec /\ y.pc = "out" /\ y.proc = x.proc /\ y.table = "event"
          /\ y.ev = ev /\ y.own = x.own
      BY <1>1, <2>4, <2>5 DEF RunRec, Pcs
    <2>7. RunOk(y)'
      BY <1>1, <2>4, <2>6 DEF RunOk, LogPcs
    <2>8. \A k \in 0..MaxEvents : RunTo(y, k)
      BY <1>1, <2>6 DEF RunTo, LogPcs
    <2>9. run' = [run EXCEPT ![a] = y]
      BY <2>1, <2>2, <2>3, <2>5 DEF Core, RunsOk, RunRec
    <2> QED BY <1>2, <1>3, <2>7, <2>8, <2>9, KeepsRun
  <1> QED BY <1>4, <1>5

LEMMA CoreEndDirect == ASSUME Core, NEW a \in Runs, EndDirect(a) PROVE Core'
  <1> DEFINE p  == run[a].proc
             cs == [r \in Readers |->
                      IF r = run[a].own /\ conn[r].pc = "own" THEN Ended(conn[r])
                                                              ELSE DoneTold(conn, p)[r]]
  <1>1. RunOk(run[a]) /\ run[a].pc = "end" /\ p \in Procs
    BY TheRun DEF EndDirect, RunOk
  <1>2. ConnsOk(DoneTold(conn, p)) /\ ConnsOk(conn)
    BY DoneToldOk DEF Core
  <1>3. ASSUME NEW r \in Readers PROVE ConnOk(cs[r])
    BY <1>2, EndedOk DEF ConnsOk
  <1>4. ConnsOk(cs)
    BY <1>3 DEF ConnsOk, ConnOk
  <1>5. BusOk(MarkedDone(bus[p]))
    BY <1>1, MarkedDoneOk DEF Core, BusesOk
  <1>6. BusesOk([bus EXCEPT ![p] = MarkedDone(bus[p])])
    BY <1>1, <1>5, BusChange DEF Core
  <1>7. /\ bus' = [bus EXCEPT ![p] = MarkedDone(bus[p])] /\ conn' = cs
        /\ run' = [run EXCEPT ![a] = GoneRun] /\ UNCHANGED Rest
    BY <1>1 DEF EndDirect, Goes, Rest, Core, BusesOk, RunsOk
  <1>8. RunOk(GoneRun) /\ \A k \in 0..MaxEvents : RunTo(GoneRun, k)
    BY GoneOk
  <1> HIDE DEF cs
  <1> QED BY <1>4, <1>6, <1>7, <1>8, RunStep

LEMMA CoreInit == Init => Core
  <1> SUFFICES ASSUME Init PROVE Core
    OBVIOUS
  <1>1. Plain
    <2>1. MaxFaults[mode] \in Nat
      BY Constants DEF Init
    <2> QED BY <2>1, Constants DEF Init, Plain, Statuses
  <1>2. Logs
    BY Records DEF Init, Logs, CpOk, Honest
  <1>3. BusesOk(bus)
    BY Records, FreshOk DEF Init, BusesOk
  <1>4. ConnsOk(conn)
    BY Records, NoConnOk DEF Init, ConnsOk
  <1>5. RunOk(NoRun) /\ \A k \in Nat : RunTo(NoRun, k)
    BY Records DEF RunOk, RunTo, Honest, LogPcs
  <1>6. RunsOk
    BY <1>5, Records DEF Init, RunsOk
  <1>7. Written
    <2>1. 0 \in 0..MaxEvents
      BY Constants
    <2>2. LogTo(0)
      BY DEF Init, LogTo
    <2> QED BY <1>5, <2>1, <2>2 DEF Init, Written
  <1> QED BY <1>1, <1>2, <1>3, <1>4, <1>6, <1>7 DEF Core

LEMMA CoreNext == Core /\ [Next]_vars => Core'
  <1> SUFFICES ASSUME Core, [Next]_vars PROVE Core'
    OBVIOUS
  <1>1. ASSUME NEW p \in Procs, CancelRecord(p) \/ Forget(p) \/ Restart(p) PROVE Core'
    BY <1>1, CoreCancelRecord, CoreForget, CoreRestart
  <1>2. ASSUME NEW a \in Runs, Runner(a) PROVE Core'
    BY <1>2, CoreAgentYields, CoreCheckLease, CoreFindTwin, CoreReadMaxEvent,
       CoreReadMaxCheckpoint, CoreInsert, CorePublishLogged, CoreRecheck, CoreComplete,
       CorePublishDirect, CoreEndDirect DEF Runner
  <1>3. ASSUME NEW a \in Runs,
               FailReclaimed(a) \/ AgentThrows(a) \/ \E p \in Procs : Claim(a, p)
        PROVE  Core'
    BY <1>3, CoreFailReclaimed, CoreAgentThrows, CoreClaim
  <1>4. ASSUME NEW r \in Readers, Serve(r) PROVE Core'
    BY <1>4, CoreReplay, CoreReadCheckpoint, CoreSubscribe, CoreDirectOver,
       CoreDirectEnded, CoreDirectRun, CoreDirectFollow DEF Serve
  <1>5. ASSUME NEW r \in Readers, Drop(r) \/ \E p \in Procs : Request(r, p) PROVE Core'
    BY <1>5, CoreDrop, CoreRequest
  <1>6. CASE UNCHANGED vars
    <2>1. UNCHANGED Rest /\ UNCHANGED <<bus, conn, run>> /\ BusesOk(bus) /\ ConnsOk(conn)
      BY <1>6 DEF vars, Rest, Core
    <2> QED BY <2>1, Idle, KeepsIdle
  <1>7. CASE Activate \/ LeaseLapses \/ CancelPublish
    BY <1>7, CoreActivate, CoreLeaseLapses, CoreCancelPublish
  <1> QED BY <1>1, <1>2, <1>3, <1>4, <1>5, <1>6, <1>7 DEF Next

LEMMA CoreAlways == Spec => []Core
  BY CoreInit, CoreNext, PTL DEF Spec

-----------------------------------------------------------------------------
(* Direct mode: a run is watched by the reader whose request runs it, and by those *)
(* who follow the bus.                                                            *)

Watches(c, p) == c.pc = "finished" \/ (c.pc = "own" /\ c.proc = p)
Owners  == \A a \in Runs : run[a].own # NoOne => Watches(conn[run[a].own], run[a].proc)
OneEach == \A a, b \in Runs : run[a].own # NoOne /\ run[a].own = run[b].own => a = b
Shown   == \A r \in Readers : conn[r].pc = "open" => conn[r].sent = bus[conn[r].proc].hist
Direct  == mode = "direct" => Owners /\ OneEach /\ Shown

LEMMA TheConn ==
  ASSUME Core, NEW r \in Readers
  PROVE  /\ conn[r] \in ConnRec /\ ConnOk(conn[r])
         /\ conn[r].pc \notin {"off", "finished"} => conn[r].proc \in Procs
  BY DEF Core, ConnsOk, ConnOk

\* Runs keep their readers.
LEMMA DirectRuns ==
  ASSUME Direct, UNCHANGED <<mode, conn, bus>>,
         \A a \in Runs : run'[a].own = run[a].own /\ run'[a].proc = run[a].proc
  PROVE  Direct'
  BY DEF Direct, Owners, OneEach, Shown

\* Only conn changes, for a reader that owns no run.
LEMMA DirectReader ==
  ASSUME Core, Direct, mode = "direct", UNCHANGED <<mode, run>>, NEW r \in Readers,
         conn[r].pc \notin {"own", "finished"}, NEW c, Becomes(r, c),
         \A p \in Procs : bus'[p].hist = bus[p].hist,
         c.pc = "open" => c.proc \in Procs /\ c.sent = bus[c.proc].hist
  PROVE  Direct'
  <1>1. \A a \in Runs : run[a].own # r
    BY Constants DEF Direct, Owners, Watches
  <1>2. \A q \in Readers : conn'[q] = IF q = r THEN c ELSE conn[q]
    BY DEF Becomes, Core, ConnsOk
  <1>3. \A a \in Runs : run[a].own # NoOne => conn'[run[a].own] = conn[run[a].own]
    BY <1>1, <1>2, TheRun
  <1>4. Shown'
    <2>1. ASSUME NEW q \in Readers, conn'[q].pc = "open"
          PROVE  conn'[q].sent = bus'[conn'[q].proc].hist
      <3>1. CASE q = r
        BY <1>2, <2>1, <3>1
      <3>2. CASE q # r
        <4>1. conn'[q] = conn[q] /\ conn[q].proc \in Procs
          BY <1>2, <2>1, <3>2, TheConn
        <4> QED BY <2>1, <4>1 DEF Direct, Shown
      <3> QED BY <3>1, <3>2
    <2> QED BY <2>1 DEF Shown
  <1> QED BY <1>3, <1>4 DEF Direct, Owners, OneEach

\* An event is published on a bus and told to those who follow it.
LEMMA ShownTold ==
  ASSUME Core, Direct, mode = "direct", NEW p \in Procs,
         NEW ev \in Event, Honest(ev.kind), NEW r \in Readers
  PROVE  LET t == Told(conn, p, ev, 0)
             b == Published(bus[p], ev)
         IN  /\ t[r].pc = "open" => conn[r].pc = "open" /\ t[r].proc = conn[r].proc
             /\ conn[r].pc # "open" \/ conn[r].proc # p => t[r] = conn[r]
             /\ t[r].pc = "open" /\ t[r].proc = p => t[r].sent = b.hist
             /\ t[r].pc = "open" /\ t[r].proc # p => t[r].sent = bus[t[r].proc].hist
  <1> DEFINE t == Told(conn, p, ev, 0)
             b == Published(bus[p], ev)
             c == conn[r]
  <1>1. t[r] = IF c.pc = "open" /\ c.proc = p /\ Accepts(bus[p])
               THEN Taken(c, ev, 0) ELSE c
    BY DEF Told, Subscribed
  <1>2. BusOk(bus[p]) /\ ConnOk(c) /\ 0 \in Cursors
    BY TheConn, Constants DEF Core, BusesOk
  <1>3. b.hist = IF Accepts(bus[p]) THEN Append(bus[p].hist, ev) ELSE bus[p].hist
    BY <1>2, PublishedOk
  <1>4. /\ Taken(c, ev, 0).pc = IF Terminal(ev) THEN "finished" ELSE c.pc
        /\ ~Terminal(ev) => /\ Taken(c, ev, 0).proc = c.proc
                            /\ Taken(c, ev, 0).sent = Append(c.sent, ev)
    BY <1>2, TakenOk
  <1>5. c.pc = "open" => c.sent = bus[c.proc].hist
    BY DEF Direct, Shown
  <1> HIDE DEF t, b
  <1>6. CASE c.pc = "open" /\ c.proc = p /\ Accepts(bus[p])
    BY <1>1, <1>3, <1>4, <1>5, <1>6 DEF t, b
  <1>7. CASE ~(c.pc = "open" /\ c.proc = p /\ Accepts(bus[p]))
    BY <1>1, <1>3, <1>5, <1>7 DEF t, b
  <1> QED BY <1>6, <1>7 DEF t, b

LEMMA EndTold ==
  ASSUME NEW cs, ConnsOk(cs), NEW p, NEW r \in Readers
  PROVE  /\ DoneTold(cs, p)[r].pc = "open"
              => DoneTold(cs, p)[r] = cs[r] /\ cs[r].pc = "open" /\ cs[r].proc # p
         /\ cs[r].pc # "open" => DoneTold(cs, p)[r] = cs[r]
  <1>1. DoneTold(cs, p)[r] = IF cs[r].pc = "open" /\ cs[r].proc = p
                             THEN Ended(cs[r]) ELSE cs[r]
    BY DEF DoneTold, Subscribed
  <1>2. Ended(cs[r]).pc = "off"
    BY EndedOk DEF ConnsOk
  <1> QED BY <1>1, <1>2

\* A bus changes; those who followed it no longer do. Owners are left alone.
LEMMA DirectBus ==
  ASSUME Core, Direct, mode = "direct", UNCHANGED <<mode, run>>, NEW p \in Procs,
         \A q \in Procs : q # p => bus'[q] = bus[q],
         \A r \in Readers : conn'[r].pc = "open" => conn'[r] = conn[r] /\ conn[r].proc # p,
         \A r \in Readers : conn[r].pc \in {"own", "finished"} => conn'[r] = conn[r]
  PROVE  Direct'
  <1>1. \A a \in Runs : run[a].own # NoOne => conn'[run[a].own] = conn[run[a].own]
    <2>1. \A a \in Runs : run[a].own # NoOne
            => run[a].own \in Readers /\ conn[run[a].own].pc \in {"own", "finished"}
      BY TheRun DEF Direct, Owners, Watches
    <2> QED BY <2>1
  <1>2. ASSUME NEW r \in Readers, conn'[r].pc = "open"
        PROVE  conn'[r].sent = bus'[conn'[r].proc].hist
    <2>1. conn'[r] = conn[r] /\ conn[r].proc # p /\ conn[r].proc \in Procs
      BY <1>2, TheConn
    <2> QED BY <1>2, <2>1 DEF Direct, Shown
  <1> QED BY <1>1, <1>2 DEF Direct, Owners, OneEach, Shown

LEMMA DirectRunActions ==
  ASSUME Core, Direct, mode = "direct", NEW a \in Runs, AgentYields(a) \/ AgentThrows(a)
  PROVE  Direct'
  <1> DEFINE x == run[a]
  <1>1. UNCHANGED <<mode, conn, bus>>
    BY DEF AgentYields, AgentThrows
  <1>2. \A b \in Runs : b # a => run'[b] = run[b]
    BY DEF AgentYields, AgentThrows, Goes, Core, RunsOk
  <1>3. x \in RunRec /\ run \in [Runs -> RunRec]
    BY DEF Core, RunsOk
  <1>4. run'[a].own = x.own /\ run'[a].proc = x.proc
    <2>1. CASE Goes(a, "end")
      BY <1>3, <2>1 DEF Goes, RunRec
    <2>2. ASSUME NEW kind, run' = [run EXCEPT ![a].pc = "out", ![a].ord = @ + 1,
                               ![a].ev = [ord |-> run[a].ord + 1, kind |-> kind]]
          PROVE  run'[a].own = x.own /\ run'[a].proc = x.proc
      BY <1>3, <2>2 DEF RunRec
    <2>3. ASSUME NEW ev, run' = [run EXCEPT ![a].pc = "out", ![a].ev = ev]
          PROVE  run'[a].own = x.own /\ run'[a].proc = x.proc
      BY <1>3, <2>3 DEF RunRec
    <2>4. AgentYields(a) => \/ Goes(a, "end")
                            \/ \E kind : run' = [run EXCEPT ![a].pc = "out",
                                 ![a].ord = @ + 1,
                                 ![a].ev = [ord |-> run[a].ord + 1, kind |-> kind]]
      BY DEF AgentYields
    <2>5. AgentThrows(a) => \/ Goes(a, "end")
                            \/ \E ev : run' = [run EXCEPT ![a].pc = "out", ![a].ev = ev]
      BY Zenon DEF AgentThrows
    <2> QED BY <2>1, <2>2, <2>3, <2>4, <2>5
  <1>5. \A b \in Runs : run'[b].own = run[b].own /\ run'[b].proc = run[b].proc
    BY <1>2, <1>4
  <1> QED BY <1>1, <1>5, DirectRuns

LEMMA DirectPublish ==
  ASSUME Core, Direct, mode = "direct", NEW a \in Runs, PublishDirect(a)
  PROVE  Direct'
  <1> DEFINE x  == run[a]
             p  == x.proc
             t  == Told(conn, p, x.ev, 0)
             b  == Published(bus[p], x.ev)
             pc == IF Terminal(x.ev) THEN "end" ELSE "agent"
  <1>1. /\ x \in RunRec /\ RunOk(x) /\ x.pc = "out" /\ x.ev \in Event
        /\ Honest(x.ev.kind) /\ x.own \in Readers \union {NoOne} /\ 0 \in Cursors
    BY TheRun, Constants DEF PublishDirect
  <1>2. p \in Procs
    BY <1>1 DEF RunOk
  <1>3. /\ mode' = mode /\ bus' = [bus EXCEPT ![p] = b]
        /\ run' = [run EXCEPT ![a] = [x EXCEPT !.pc = pc]]
    BY <1>2 DEF PublishDirect, Goes, Core, BusesOk, RunsOk
  <1>4. \A c \in Runs : run'[c].own = run[c].own /\ run'[c].proc = run[c].proc
    BY <1>1, <1>3 DEF Core, RunsOk, RunRec
  <1>5. ConnsOk(t)
    BY <1>1, ToldOk DEF Core
  <1>6. \/ conn' = t
        \/ x.own \in Readers /\ conn' = [t EXCEPT ![x.own] = Taken(@, x.ev, 0)]
    BY <1>1 DEF PublishDirect
  <1>7. \A q \in Procs : bus'[q] = IF q = p THEN b ELSE bus[q]
    BY <1>3 DEF Core, BusesOk
  <1>8. ASSUME NEW r \in Readers
        PROVE  \/ conn'[r] = t[r]
               \/ r = x.own /\ conn'[r] = Taken(conn[r], x.ev, 0)
    <2>1. x.own \in Readers => conn[x.own].pc # "open"
      BY Constants DEF Direct, Owners, Watches
    <2>2. x.own \in Readers => t[x.own] = conn[x.own]
      BY <1>1, <1>2, <2>1, ShownTold
    <2>3. t \in [Readers -> ConnRec]
      BY <1>5 DEF ConnsOk
    <2> HIDE DEF t
    <2> QED BY <1>6, <2>2, <2>3
  <1> HIDE DEF b, t
  <1>9. Owners'
    <2>1. ASSUME NEW c \in Runs, run[c].own # NoOne
          PROVE  Watches(conn'[run[c].own], run[c].proc)
      <3> DEFINE r == run[c].own
      <3>1. r \in Readers /\ Watches(conn[r], run[c].proc) /\ ConnOk(conn[r])
        BY <2>1, TheRun, TheConn DEF Direct, Owners
      <3>2. t[r] = conn[r]
        BY <1>1, <1>2, <3>1, ShownTold DEF Watches, t
      <3>3. /\ Taken(conn[r], x.ev, 0).pc = IF Terminal(x.ev) THEN "finished"
                                            ELSE conn[r].pc
            /\ ~Terminal(x.ev) => Taken(conn[r], x.ev, 0).proc = conn[r].proc
        BY <1>1, <3>1, TakenOk
      <3> HIDE DEF r
      <3>4. Watches(Taken(conn[r], x.ev, 0), run[c].proc)
        BY <3>1, <3>3 DEF Watches
      <3>5. Watches(conn'[r], run[c].proc)
        BY <1>8, <3>1, <3>2, <3>4
      <3> QED BY <3>5 DEF r
    <2> QED BY <1>4, <2>1 DEF Owners
  <1>10. Shown'
    <2>1. ASSUME NEW r \in Readers, conn'[r].pc = "open"
          PROVE  conn'[r].sent = bus'[conn'[r].proc].hist
      <3>1. CASE conn'[r] = t[r]
        <4>1. /\ t[r].pc = "open" /\ t[r].proc \in Procs
          BY <2>1, <3>1, <1>1, <1>2, ShownTold, TheConn DEF t
        <4>2. t[r].sent = IF t[r].proc = p THEN b.hist ELSE bus[t[r].proc].hist
          BY <1>1, <1>2, <4>1, ShownTold DEF t, b
        <4> QED BY <1>7, <3>1, <4>1, <4>2
      <3>2. CASE r = x.own /\ conn'[r] = Taken(conn[r], x.ev, 0)
        <4>1. conn[r].pc # "open" /\ ConnOk(conn[r])
          BY <1>1, <3>2, TheConn, Constants DEF Direct, Owners, Watches
        <4>2. conn'[r].pc = IF Terminal(x.ev) THEN "finished" ELSE conn[r].pc
          BY <1>1, <3>2, <4>1, TakenOk
        <4> QED BY <2>1, <4>1, <4>2
      <3> QED BY <1>8, <3>1, <3>2
    <2> QED BY <2>1 DEF Shown
  <1>11. OneEach'
    BY <1>4 DEF Direct, OneEach
  <1> QED BY <1>9, <1>10, <1>11 DEF Direct

LEMMA DirectEnd ==
  ASSUME Core, Direct, mode = "direct", NEW a \in Runs, EndDirect(a)
  PROVE  Direct'
  <1> DEFINE p == run[a].proc
  <1>1. RunOk(run[a]) /\ p \in Procs /\ ConnsOk(conn) /\ GoneRun.own = NoOne
    BY TheRun, Records DEF EndDirect, RunOk, Core
  <1>2. /\ mode' = mode /\ run' = [run EXCEPT ![a] = GoneRun]
        /\ \A q \in Procs : q # p => bus'[q] = bus[q]
    BY DEF EndDirect, Goes, Core, BusesOk, RunsOk
  <1>3. \A c \in Runs : run'[c] = IF c = a THEN GoneRun ELSE run[c]
    BY <1>2 DEF Core, RunsOk
  <1>4. ASSUME NEW r \in Readers
        PROVE  conn'[r] = IF r = run[a].own /\ conn[r].pc = "own" THEN Ended(conn[r])
                          ELSE DoneTold(conn, p)[r]
    BY DEF EndDirect
  <1>5. Owners'
    <2>1. ASSUME NEW c \in Runs, run'[c].own # NoOne
          PROVE  Watches(conn'[run'[c].own], run'[c].proc)
      <3>1. c # a /\ run'[c] = run[c]
        BY <1>1, <1>3, <2>1
      <3>2. PICK r \in Readers : r = run[c].own
        BY <2>1, <3>1, TheRun
      <3>3. r # run[a].own /\ Watches(conn[r], run[c].proc)
        BY <2>1, <3>1, <3>2 DEF Direct, Owners, OneEach
      <3>4. conn'[r] = conn[r]
        BY <1>1, <1>4, <3>3, EndTold DEF Watches
      <3> QED BY <3>1, <3>2, <3>3, <3>4
    <2> QED BY <2>1 DEF Owners
  <1>6. OneEach'
    BY <1>1, <1>3 DEF Direct, OneEach
  <1>7. Shown'
    <2>1. ASSUME NEW r \in Readers, conn'[r].pc = "open"
          PROVE  conn'[r].sent = bus'[conn'[r].proc].hist
      <3>1. Ended(conn[r]).pc = "off"
        BY EndedOk, TheConn
      <3>2. conn'[r] = conn[r] /\ conn[r].pc = "open" /\ conn[r].proc # p
        BY <1>1, <1>4, <2>1, <3>1, EndTold
      <3> QED BY <1>2, <3>2, TheConn DEF Direct, Shown
    <2> QED BY <2>1 DEF Shown
  <1> QED BY <1>5, <1>6, <1>7 DEF Direct

LEMMA DirectRequest ==
  ASSUME Core, Direct, mode = "direct", NEW r \in Readers, NEW p \in Procs, Request(r, p)
  PROVE  Direct'
  <1> DEFINE c == [conn[r] EXCEPT !.pc = "start", !.proc = p, !.seen = status,
                                  !.after = conn[r].last]
  <1>1. conn[r] \in ConnRec /\ conn[r].pc = "off"
    BY TheConn DEF Request
  <1>2. c.pc = "start" /\ Becomes(r, c)
    BY <1>1 DEF Request, Becomes, Core, ConnsOk, ConnRec
  <1>3. UNCHANGED <<mode, run, bus>>
    BY DEF Request
  <1> HIDE DEF c
  <1> QED BY <1>1, <1>2, <1>3, DirectReader

LEMMA DirectOverKeeps ==
  ASSUME Core, Direct, mode = "direct", NEW r \in Readers, DirectOver(r)
  PROVE  Direct'
  <1> DEFINE p == conn[r].proc
             c == Replayed(conn[r], bus[p])
             d == IF HasTerminal(bus[p]) \/ c.seen = "running" THEN c
                  ELSE Taken(c, PersistedTerminal(c.seen), 0)
  <1>1. Starts(r)
    BY DEF DirectOver
  <1>2. conn[r].pc = "start" /\ p \in Procs /\ BusOk(bus[p])
    BY <1>1, Starting
  <1>3. Answered(d).pc \in {"finished", "off"}
    <2>1. Ended(d).pc = "off"
      BY Records DEF Ended, ConnRec
    <2> QED BY <2>1 DEF Answered
  <1>4. Becomes(r, Answered(d)) /\ UNCHANGED <<mode, run>>
    BY DEF DirectOver
  <1>5. bus' = [bus EXCEPT ![p] = IF bus[p].done THEN bus[p] ELSE MarkedDone(bus[p])]
    BY <1>2 DEF DirectOver, Core, BusesOk
  <1>6. MarkedDone(bus[p]).hist = bus[p].hist
    BY <1>2, MarkedDoneOk
  <1>7. \A q \in Procs : bus'[q].hist = bus[q].hist
    BY <1>2, <1>5, <1>6 DEF Core, BusesOk
  <1> HIDE DEF d
  <1> QED BY <1>2, <1>3, <1>4, <1>7, DirectReader

LEMMA DirectEndedKeeps ==
  ASSUME Core, Direct, mode = "direct", NEW r \in Readers, DirectEnded(r)
  PROVE  Direct'
  <1> DEFINE p  == conn[r].proc
             ev == PersistedTerminal(conn[r].seen)
             t  == Told(conn, p, ev, 0)
             u  == [t EXCEPT ![r] = Taken(t[r], ev, 0)]
  <1>1. Starts(r) /\ conn[r].seen # "running"
    BY DEF DirectEnded
  <1>2. conn[r].pc = "start" /\ p \in Procs /\ 0 \in Cursors
    BY <1>1, Starting
  <1>3. ev \in Event /\ Honest(ev.kind) /\ Terminal(ev)
    BY <1>1, Starting, Persisted
  <1> HIDE DEF ev
  <1>4. ConnsOk(t)
    BY <1>2, <1>3, ToldOk DEF Core
  <1>5. ConnOk(Taken(t[r], ev, 0)) /\ Taken(t[r], ev, 0).pc = "finished"
    BY <1>2, <1>3, <1>4, TakenOk DEF ConnsOk
  <1>6. ConnsOk(u) /\ \A s \in Readers : u[s] = IF s = r THEN Taken(t[r], ev, 0) ELSE t[s]
    <2> HIDE DEF t
    <2> QED BY <1>4, <1>5, ConnChange DEF ConnsOk
  <1>7. /\ conn' = DoneTold(u, p) /\ UNCHANGED <<mode, run>>
        /\ \A q \in Procs : q # p => bus'[q] = bus[q]
    BY <1>4 DEF DirectEnded, ev, ConnsOk, Core, BusesOk
  <1> HIDE DEF u
  <1>8. ASSUME NEW s \in Readers, conn'[s].pc = "open"
        PROVE  conn'[s] = conn[s] /\ conn[s].proc # p
    <2>1. conn'[s] = u[s] /\ u[s].pc = "open" /\ u[s].proc # p
      BY <1>6, <1>7, <1>8, EndTold
    <2>2. u[s] = t[s]
      BY <1>5, <1>6, <2>1
    <2>3. t[s].proc = conn[s].proc /\ t[s] = conn[s]
      BY <1>2, <1>3, <2>1, <2>2, ShownTold
    <2> QED BY <2>1, <2>2, <2>3
  <1>9. ASSUME NEW s \in Readers, conn[s].pc \in {"own", "finished"}
        PROVE  conn'[s] = conn[s]
    <2>1. s # r /\ t[s] = conn[s]
      BY <1>2, <1>3, <1>9, ShownTold
    <2>2. u[s] = conn[s]
      BY <1>6, <2>1
    <2> QED BY <1>6, <1>7, <1>9, <2>2, EndTold
  <1> QED BY <1>2, <1>7, <1>8, <1>9, DirectBus

LEMMA DirectFollowKeeps ==
  ASSUME Core, Direct, mode = "direct", NEW r \in Readers, DirectFollow(r)
  PROVE  Direct'
  <1> DEFINE p == conn[r].proc
             c == Replayed(conn[r], bus[p])
             d == [c EXCEPT !.pc = "open"]
  <1>1. Starts(r) /\ ~HasTerminal(bus[p])
    BY DEF DirectFollow, Over
  <1>2. conn[r].pc = "start" /\ p \in Procs
    BY <1>1, Starting
  <1>3. ConnOk(c) /\ c.proc = p /\ c.sent = bus[p].hist
    BY <1>1, Starting, ReplayedOk
  <1>4. c \in ConnRec
    BY <1>3 DEF ConnOk
  <1>5. Becomes(r, d) /\ UNCHANGED <<mode, run, bus>>
    BY DEF DirectFollow
  <1> HIDE DEF c
  <1>6. d.proc = p /\ d.sent = bus[p].hist
    BY <1>3, <1>4 DEF ConnRec
  <1> HIDE DEF d
  <1> QED BY <1>2, <1>5, <1>6, DirectReader

LEMMA DirectRunKeeps ==
  ASSUME Core, Direct, mode = "direct", NEW r \in Readers, DirectRun(r)
  PROVE  Direct'
  <1> DEFINE p == conn[r].proc
             c == [conn[r] EXCEPT !.pc = "own", !.after = 0]
             x == [NoRun EXCEPT !.pc = "agent", !.proc = p, !.own = r]
  <1>1. Starts(r)
    BY DEF DirectRun
  <1>2. conn[r].pc = "start" /\ p \in Procs /\ conn[r] \in ConnRec /\ BusOk(bus[p])
        /\ r # NoOne
    BY <1>1, Starting, Constants
  <1>3. PICK a \in Runs : run' = [run EXCEPT ![a] = x]
    BY DEF DirectRun
  <1>4. c.pc = "own" /\ c.proc = p
    BY <1>2 DEF ConnRec
  <1>5. x.own = r /\ x.proc = p
    BY Records DEF RunRec
  <1>6. mode' = mode /\ conn' = [conn EXCEPT ![r] = c]
    BY DEF DirectRun, Becomes
  <1>7. \A q \in Procs : bus'[q].hist = bus[q].hist
    BY <1>2 DEF DirectRun, Core, BusesOk, BusRec
  <1> HIDE DEF c, x
  <1>8. /\ \A b \in Runs : run'[b] = IF b = a THEN x ELSE run[b]
        /\ \A q \in Readers : conn'[q] = IF q = r THEN c ELSE conn[q]
    BY <1>3, <1>6 DEF Core, RunsOk, ConnsOk
  <1>9. \A b \in Runs : run[b].own # r
    BY <1>2 DEF Direct, Owners, Watches
  <1>10. Owners'
    <2>1. ASSUME NEW b \in Runs, run'[b].own # NoOne
          PROVE  Watches(conn'[run'[b].own], run'[b].proc)
      <3>1. CASE b = a
        BY <1>4, <1>5, <1>8, <3>1 DEF Watches
      <3>2. CASE b # a
        <4>1. run'[b] = run[b] /\ run[b].own \in Readers /\ run[b].own # r
          BY <1>8, <1>9, <2>1, <3>2, TheRun
        <4>2. conn'[run[b].own] = conn[run[b].own]
          BY <1>8, <4>1
        <4> QED BY <2>1, <4>1, <4>2 DEF Direct, Owners
      <3> QED BY <3>1, <3>2
    <2> QED BY <2>1 DEF Owners
  <1>11. OneEach'
    BY <1>5, <1>8, <1>9 DEF Direct, OneEach
  <1>12. Shown'
    <2>1. ASSUME NEW q \in Readers, conn'[q].pc = "open"
          PROVE  conn'[q].sent = bus'[conn'[q].proc].hist
      <3>1. conn'[q] = conn[q]
        BY <1>4, <1>8, <2>1
      <3>2. conn[q].proc \in Procs
        BY <2>1, <3>1, TheConn
      <3> QED BY <1>7, <2>1, <3>1, <3>2 DEF Direct, Shown
    <2> QED BY <2>1 DEF Shown
  <1> QED BY <1>10, <1>11, <1>12 DEF Direct

LEMMA DirectDrop ==
  ASSUME Core, Direct, mode = "direct", NEW r \in Readers, Drop(r)
  PROVE  Direct'
  <1>1. /\ UNCHANGED <<mode, bus>> /\ run' = Disowned(r)
        /\ \A q \in Readers : conn'[q] = IF q = r THEN Ended(conn[r]) ELSE conn[q]
    BY DEF Drop, Becomes, Core, ConnsOk
  <1>2. ASSUME NEW a \in Runs
        PROVE  /\ run'[a].own = IF run[a].own = r THEN NoOne ELSE run[a].own
               /\ run'[a].proc = run[a].proc
    BY <1>1, TheRun DEF Disowned, RunRec
  <1>3. Ended(conn[r]).pc = "off"
    BY EndedOk, TheConn
  <1>4. Owners'
    <2>1. ASSUME NEW a \in Runs, run'[a].own # NoOne
          PROVE  Watches(conn'[run'[a].own], run'[a].proc)
      <3>1. run'[a].own = run[a].own /\ run[a].own # r /\ run[a].own \in Readers
        BY <1>2, <2>1, TheRun
      <3>2. conn'[run[a].own] = conn[run[a].own]
        BY <1>1, <3>1
      <3> QED BY <1>2, <2>1, <3>1, <3>2 DEF Direct, Owners
    <2> QED BY <2>1 DEF Owners
  <1>5. OneEach'
    BY <1>2 DEF Direct, OneEach
  <1>6. Shown'
    BY <1>1, <1>3 DEF Direct, Shown
  <1> QED BY <1>4, <1>5, <1>6 DEF Direct

LEMMA DirectCancel ==
  ASSUME Core, Direct, mode = "direct", CancelPublish
  PROVE  Direct'
  <1> DEFINE ev == PersistedTerminal("cancelled")
             t  == Told(conn, cancel, ev, 0)
  <1>1. cancel \in Procs /\ status = "cancelled" /\ 0 \in Cursors
    BY Constants DEF Core, Plain, CancelPublish
  <1>2. ev \in Event /\ Honest(ev.kind) /\ Terminal(ev)
    BY <1>1, Persisted DEF Statuses, Outcomes
  <1> HIDE DEF ev
  <1>3. ConnsOk(t)
    BY <1>1, <1>2, ToldOk DEF Core
  <1>4. /\ conn' = DoneTold(t, cancel) /\ UNCHANGED <<mode, run>>
        /\ \A q \in Procs : q # cancel => bus'[q] = bus[q]
    BY DEF CancelPublish, ev, Core, BusesOk
  <1>5. ASSUME NEW s \in Readers, conn'[s].pc = "open"
        PROVE  conn'[s] = conn[s] /\ conn[s].proc # cancel
    <2>1. conn'[s] = t[s] /\ t[s].pc = "open" /\ t[s].proc # cancel
      BY <1>3, <1>4, <1>5, EndTold
    <2>2. t[s].proc = conn[s].proc /\ t[s] = conn[s]
      BY <1>1, <1>2, <2>1, ShownTold
    <2> QED BY <2>1, <2>2
  <1>6. ASSUME NEW s \in Readers, conn[s].pc \in {"own", "finished"}
        PROVE  conn'[s] = conn[s]
    <2>1. t[s] = conn[s]
      BY <1>1, <1>2, <1>6, ShownTold
    <2> QED BY <1>3, <1>4, <1>6, <2>1, EndTold
  <1> QED BY <1>1, <1>4, <1>5, <1>6, DirectBus

LEMMA DirectForget ==
  ASSUME Core, Direct, mode = "direct", NEW p \in Procs, Forget(p)
  PROVE  Direct'
  <1>1. /\ UNCHANGED <<mode, run>> /\ \A q \in Procs : q # p => bus'[q] = bus[q]
        /\ \A r \in Readers : conn'[r] = IF conn[r].pc = "open" /\ conn[r].proc = p
                                         THEN [conn[r] EXCEPT !.pc = "orphan"]
                                         ELSE conn[r]
    BY DEF Forget, Subscribed, Core, BusesOk
  <1>2. \A r \in Readers : [conn[r] EXCEPT !.pc = "orphan"].pc = "orphan"
    BY TheConn DEF ConnRec
  <1>3. \A r \in Readers : conn'[r].pc = "open" => conn'[r] = conn[r] /\ conn[r].proc # p
    BY <1>1, <1>2
  <1>4. \A r \in Readers : conn[r].pc \in {"own", "finished"} => conn'[r] = conn[r]
    BY <1>1
  <1>5. UNCHANGED <<mode, run>> /\ \A q \in Procs : q # p => bus'[q] = bus[q]
    BY <1>1
  <1> QED BY <1>3, <1>4, <1>5, DirectBus

LEMMA DirectRestart ==
  ASSUME Core, Direct, mode = "direct", NEW p \in Procs, Restart(p)
  PROVE  Direct'
  <1>1. /\ mode' = mode /\ \A q \in Procs : q # p => bus'[q] = bus[q]
        /\ \A a \in Runs : run'[a] = IF run[a].proc = p /\ run[a].pc # "gone"
                                     THEN GoneRun ELSE run[a]
        /\ \A r \in Readers : conn'[r] = IF conn[r].proc = p /\ conn[r].pc # "finished"
                                         THEN Ended(conn[r]) ELSE conn[r]
    BY DEF Restart, Core, BusesOk
  <1>2. \A r \in Readers : Ended(conn[r]).pc = "off"
    BY EndedOk, TheConn
  <1>3. GoneRun.own = NoOne
    BY Records
  <1>4. Owners'
    <2>1. ASSUME NEW a \in Runs, run'[a].own # NoOne
          PROVE  Watches(conn'[run'[a].own], run'[a].proc)
      <3>1. run'[a] = run[a] /\ run[a].proc # p /\ run[a].own \in Readers
        BY <1>1, <1>3, <2>1, TheRun DEF RunOk
      <3>2. Watches(conn[run[a].own], run[a].proc)
        BY <2>1, <3>1 DEF Direct, Owners
      <3>3. conn'[run[a].own] = conn[run[a].own]
        BY <1>1, <3>1, <3>2 DEF Watches
      <3> QED BY <3>1, <3>2, <3>3
    <2> QED BY <2>1 DEF Owners
  <1>5. OneEach'
    BY <1>1, <1>3 DEF Direct, OneEach
  <1>6. Shown'
    <2>1. ASSUME NEW r \in Readers, conn'[r].pc = "open"
          PROVE  conn'[r].sent = bus'[conn'[r].proc].hist
      <3>1. conn'[r] = conn[r] /\ conn[r].proc # p
        BY <1>1, <1>2, <2>1
      <3> QED BY <1>1, <2>1, <3>1, TheConn DEF Direct, Shown
    <2> QED BY <2>1 DEF Shown
  <1> QED BY <1>4, <1>5, <1>6 DEF Direct

LEMMA DirectNext == Core /\ Direct /\ [Next]_vars => Direct'
  <1> SUFFICES ASSUME Core, Direct, [Next]_vars PROVE Direct'
    OBVIOUS
  <1>1. mode' = mode
    BY CoreNext DEF Next, vars, Activate, LeaseLapses, CancelPublish, CancelRecord, Forget,
       Restart, Runner, AgentYields, CheckLease, WithLease, FindTwin, ReadMaxEvent,
       ReadMaxCheckpoint, Insert, PublishLogged, Recheck, Complete, PublishDirect,
       EndDirect, FailReclaimed, AgentThrows, Claim, Serve, Replay, ReadCheckpoint, Subscribe,
       DirectOver, DirectEnded, DirectRun, DirectFollow, Drop, Request
  <1>2. CASE mode = "escrow"
    BY <1>1, <1>2 DEF Direct
  <1>3. CASE mode = "direct"
    <2>1. ASSUME NEW p \in Procs, CancelRecord(p) PROVE Direct'
      BY <2>1 DEF CancelRecord, Direct, Owners, OneEach, Shown
    <2>2. ASSUME NEW p \in Procs, Forget(p) \/ Restart(p) PROVE Direct'
      BY <1>3, <2>2, DirectForget, DirectRestart
    <2>3. ASSUME NEW a \in Runs, Runner(a) PROVE Direct'
      <3>1. run[a].pc \notin LogPcs
        BY <1>3, TheRun DEF RunOk
      <3>2. \/ AgentYields(a) \/ PublishDirect(a) \/ EndDirect(a)
        BY <1>3, <2>3, <3>1 DEF Runner, CheckLease, FindTwin, ReadMaxEvent,
           ReadMaxCheckpoint, Insert, PublishLogged, Recheck, Complete, LogPcs
      <3> QED BY <1>3, <3>2, DirectRunActions, DirectPublish, DirectEnd
    <2>4. ASSUME NEW a \in Runs,
                 FailReclaimed(a) \/ AgentThrows(a) \/ \E p \in Procs : Claim(a, p)
          PROVE  Direct'
      BY <1>3, <2>4, DirectRunActions DEF FailReclaimed, Claim
    <2>5. ASSUME NEW r \in Readers, Serve(r) PROVE Direct'
      <3>1. \/ DirectOver(r) \/ DirectEnded(r) \/ DirectRun(r) \/ DirectFollow(r)
        <4>1. conn[r].pc \notin {"checkpoint", "subscribe"}
          BY <1>3, TheConn DEF ConnOk
        <4> QED BY <1>3, <2>5, <4>1 DEF Serve, Replay, Bound, ReadCheckpoint, Subscribe
      <3> QED BY <1>3, <3>1, DirectOverKeeps, DirectEndedKeeps, DirectRunKeeps,
             DirectFollowKeeps
    <2>6. ASSUME NEW r \in Readers, Drop(r) \/ \E p \in Procs : Request(r, p)
          PROVE  Direct'
      BY <1>3, <2>6, DirectDrop, DirectRequest
    <2>7. CASE Activate \/ LeaseLapses \/ UNCHANGED vars
      BY <2>7 DEF Activate, LeaseLapses, vars, Direct, Owners, OneEach, Shown
    <2>8. CASE CancelPublish
      BY <1>3, <2>8, DirectCancel
    <2> QED BY <2>1, <2>2, <2>3, <2>4, <2>5, <2>6, <2>7, <2>8 DEF Next
  <1> QED BY <1>2, <1>3 DEF Core, Plain, Modes

LEMMA DirectAlways == Spec => []Direct
  <1>1. Init => Direct
    BY Records DEF Init, Direct, Owners, OneEach, Shown
  <1> QED BY <1>1, CoreAlways, DirectNext, PTL DEF Spec
-----------------------------------------------------------------------------
(* The properties of the runs. *)

\* The types of the state.
THEOREM TypeCorrect == Spec => []TypeOK
  <1>1. Core => TypeOK
    BY DEF Core, Plain, Logs, BusesOk, ConnsOk, RunsOk, TypeOK, CpOk, BusRec, ConnRec,
       RunRec, CpRec, Pcs, ConnPcs
  <1> QED BY <1>1, CoreAlways, PTL

\* The log of a research is one run told in order, although runs that lost their
\* lease go on writing to it: appendEvent, nextCursor and recordCheckpoint.
THEOREM LogInOrder == Spec => []LogIsInOrder
  <1>1. Core => LogIsInOrder
    <2> SUFFICES ASSUME Core, NEW e \in log
                 PROVE  /\ e.ev.ord > 1 => \E f \in log : f.ev.ord = e.ev.ord - 1
                        /\ \A f \in log : e.ev.ord < f.ev.ord <=> e.cursor < f.cursor
      BY DEF LogIsInOrder
    <2>1. PICK k \in 0..MaxEvents : LogTo(k)
      BY DEF Core, Written
    <2>2. e.ev.ord > 1 => e.ev.ord - 1 \in 1..k
      BY <2>1 DEF LogTo
    <2> QED BY <2>1, <2>2 DEF LogTo
  <1> QED BY <1>1, CoreAlways, PTL

\* Readers are told what the log and the record hold, and a stream that follows the
\* bus has seen all of its history: the stream route and the event bus.
THEOREM ReadersToldTheRecord == Spec => []ReadersSeeTheRecord
  <1>1. Core => CursorsAreLogged /\ TerminalIsTrue
    BY DEF Core, ConnsOk, ConnOk, Logged, Honest, CursorsAreLogged, TerminalIsTrue
  <1>2. Direct => DirectSeesHistory
    BY DEF Direct, Shown, DirectSeesHistory
  <1>3. Core /\ Direct => ReadersSeeTheRecord
    BY <1>1, <1>2 DEF ReadersSeeTheRecord
  <1> QED BY <1>3, CoreAlways, DirectAlways, PTL
=============================================================================
