----------------------------- MODULE ResearchEvents -----------------------------
(* How the events of a research reach its readers. An agent run yields events. In *)
(* "escrow" mode the run belongs to a RUN operation: its worker appends each event *)
(* to a durable log, then publishes it on the event bus of its process, and ends   *)
(* with a terminal checkpoint; a reader replays the log from Last-Event-ID and then *)
(* follows the bus of the process it is connected to. In "direct" mode the request *)
(* of the first reader runs the agent, and the bus is all there is.               *)
EXTENDS Integers, Sequences, FiniteSets, FiniteSetsExt, SequencesExt

CONSTANTS
  Procs,      \* server processes, each with its own bus
  Readers,    \* clients
  NoOne,      \* not a reader, not a process
  MaxRuns,    \* runs of the agent
  Where,      \* the processes in which a worker may claim the operation for a run
  MaxEvents,  \* events one run yields
  MaxFaults   \* restarts of one exploration, in either mode

Modes == {"escrow", "direct"}

ASSUME EventsAssumption ==
  /\ MaxRuns \in Nat \ {0} /\ MaxEvents \in Nat \ {0}
  /\ MaxFaults \in [Modes -> Nat] /\ Where \in [1..MaxRuns -> SUBSET Procs]
  /\ NoOne \notin Readers \union Procs

VARIABLES
  mode,     \* isEscrowBoundResearch once active, or not
  status,   \* of the research
  op,       \* the RUN operation: [holder: the last claim, live: its lease, done]
  log, cp,  \* research_event; the one terminal research_checkpoint, or NoCp
  bus,      \* of each process: [hist, done, runner, aborted]
  run,      \* runs of the agent
  conn,     \* readers
  cancel,   \* the process that is serving the cancellation, or NoOne
  faults

vars == <<mode, status, op, log, cp, bus, run, conn, cancel, faults>>

Runs      == 1..MaxRuns
Cursors   == 0..(MaxEvents + 2)
Statuses  == {"funding", "running", "completed", "failed", "cancelled"}
Kinds     == {"note", "final", "failed", "cancelled", "early"}
Event     == [ord : 0..MaxEvents, kind : Kinds]
Entry     == [cursor : Cursors, ev : Event]
NoEvent   == [ord |-> 0, kind |-> "note"]
NoCp      == [cursor |-> 0, last |-> 0, ev |-> NoEvent]
FreshBus  == [hist |-> <<>>, done |-> FALSE, runner |-> FALSE, aborted |-> FALSE]
NoRun     == [pc |-> "none", proc |-> NoOne, own |-> NoOne, ord |-> 0, ev |-> NoEvent,
              table |-> "event", cursor |-> 0]
GoneRun   == [NoRun EXCEPT !.pc = "gone"]
NoConn    == [pc |-> "off", proc |-> NoOne, seen |-> "funding", after |-> 0, last |-> 0,
              cp |-> NoCp, told |-> "note", sent |-> <<>>]

TypeOK ==
  /\ mode \in Modes /\ status \in Statuses
  /\ op \in [holder : 0..MaxRuns, live : BOOLEAN, done : BOOLEAN]
  /\ log \subseteq Entry
  /\ cp \in [cursor : Cursors, last : Cursors, ev : Event]
  /\ bus \in [Procs -> [hist : Seq(Event), done : BOOLEAN, runner : BOOLEAN,
                        aborted : BOOLEAN]]
  /\ run \in [Runs ->
       [pc : {"none", "agent", "out", "find", "max", "maxcp", "insert", "recheck", "end",
              "gone"},
        proc : Procs \union {NoOne},
        own : Readers \union {NoOne},      \* the reader whose request runs it
        ord : 0..MaxEvents, ev : Event,    \* events yielded; the last of them
        table : {"event", "checkpoint"},   \* what it is writing
        cursor : Cursors]]      \* computed, then given
  /\ conn \in [Readers ->
       [pc : {"off", "start", "checkpoint", "subscribe", "open", "own", "orphan",
              "finished"},
        proc : Procs \union {NoOne}, seen : Statuses,
        after : Cursors, last : Cursors,   \* Last-Event-ID
        cp : [cursor : Cursors, last : Cursors, ev : Event],
        told : Kinds,             \* the terminal event it received
        sent : Seq(Event)]]       \* what it received on the open direct stream
  /\ cancel \in Procs \union {NoOne} /\ faults \in 0..MaxFaults[mode]

Init ==
  /\ mode \in Modes
  /\ status = (IF mode = "escrow" THEN "funding" ELSE "running")
  /\ op = [holder |-> 0, live |-> FALSE, done |-> FALSE]
  /\ log = {} /\ cp = NoCp
  /\ bus = [p \in Procs |-> FreshBus]
  /\ run = [a \in Runs |-> NoRun]
  /\ conn = [r \in Readers |-> NoConn]
  /\ cancel = NoOne /\ faults = 0
-----------------------------------------------------------------------------
\* isTerminalEvent
Terminal(ev) == ev.kind # "note"
HasTerminal(b) == \E i \in DOMAIN b.hist : Terminal(b.hist[i])

\* publishResearchEvent: a bus that is done, or has its terminal event, takes nothing.
Accepts(b) == ~b.done /\ ~HasTerminal(b)
Published(b, ev) == IF Accepts(b) THEN [b EXCEPT !.hist = Append(@, ev)] ELSE b
\* markResearchDone
MarkedDone(b) == [b EXCEPT !.done = TRUE, !.runner = FALSE]

\* A stream that ends: EventSource connects again.
Ended(c) == [NoConn EXCEPT !.last = c.last]
\* A reader takes an event; at a terminal one it closes the stream for good.
Taken(c, ev, cursor) ==
  LET last == IF cursor = 0 THEN c.last ELSE cursor IN
  IF Terminal(ev)
  THEN [NoConn EXCEPT !.pc = "finished", !.told = ev.kind, !.last = last]
  ELSE [c EXCEPT !.last = last,
                 !.sent = IF mode = "direct" THEN Append(@, ev) ELSE @]

Subscribed(c, p) == c.pc = "open" /\ c.proc = p
Told(cs, p, ev, cursor) ==
  [r \in Readers |-> IF Subscribed(cs[r], p) /\ Accepts(bus[p])
                     THEN Taken(cs[r], ev, cursor) ELSE cs[r]]
DoneTold(cs, p) == [r \in Readers |-> IF Subscribed(cs[r], p) THEN Ended(cs[r]) ELSE cs[r]]

\* Fault: the type of the event is the status.
StatusAsEvent(st) == [NoEvent EXCEPT !.kind = st]
\* persistedTerminalEvent
PersistedTerminal(st) ==
  [NoEvent EXCEPT !.kind = CASE st = "completed" -> "final"
                             [] st = "funding" -> "early"
                             [] OTHER -> st]
-----------------------------------------------------------------------------
\* The buyer's escrow is activated and the RUN operation exists.
Activate ==
  /\ status = "funding" /\ status' = "running"
  /\ UNCHANGED <<mode, op, log, cp, bus, run, conn, cancel, faults>>

\* A pass of the workflow worker claims the operation for a run in process p.
Claim(a, p) ==
  /\ mode = "escrow" /\ status # "funding" /\ p \in Where[a]
  /\ ~op.done /\ ~op.live /\ a = op.holder + 1
  /\ op' = [op EXCEPT !.holder = a, !.live = TRUE]
  /\ run' = [run EXCEPT ![a] = [NoRun EXCEPT !.pc = "agent", !.proc = p]]
  /\ UNCHANGED <<mode, status, log, cp, bus, conn, cancel, faults>>

\* The lease runs out, or is given back when the handler throws.
LeaseLapses ==
  /\ op.live /\ op' = [op EXCEPT !.live = FALSE]
  /\ UNCHANGED <<mode, status, log, cp, bus, run, conn, cancel, faults>>

\* hasFreshLease
Fresh(a) == op.holder = a /\ op.live /\ ~op.done

Goes(a, pc) ==
  run' = [run EXCEPT ![a] = IF pc = "gone" THEN GoneRun ELSE [@ EXCEPT !.pc = pc]]

\* completeIfRunning, updateStatusIfCurrent
StillRunning(st) == st = "running"

\* runResearchAgent up to its next yield or its return.
AgentYields(a) ==
  LET Yield(kind) == run' = [run EXCEPT ![a].pc = "out", ![a].ord = @ + 1,
                        ![a].ev = [ord |-> run[a].ord + 1, kind |-> kind]]
  IN
  /\ run[a].pc = "agent"
  /\ \/ run[a].ord + 1 < MaxEvents /\ Yield("note") /\ UNCHANGED status
     \/ StillRunning(status) /\ status' = "completed" /\ Yield("final")
     \/ StillRunning(status) /\ status' = "failed" /\ Yield("failed")
     \/ status = "cancelled" /\ mode = "direct" /\ bus[run[a].proc].aborted
        /\ Yield("cancelled") /\ UNCHANGED status
     \/ ~StillRunning(status) /\ Goes(a, "end") /\ UNCHANGED status
  /\ UNCHANGED <<mode, op, log, cp, bus, conn, cancel, faults>>

\* shouldFailReclaimedRunAfterIntent, failReclaimedRunAfterIntent: a run that took the
\* operation over after an earlier one had recorded a payment intent yields nothing:
\* it fails the research and completes the operation. No event tells the end.
FailReclaimed(a) ==
  /\ mode = "escrow" /\ a > 1 /\ run[a].pc = "agent" /\ run[a].ord = 0
  /\ \/ StillRunning(status) /\ status' = "failed" /\ Goes(a, "end")
     \/ ~StillRunning(status) /\ Goes(a, "gone") /\ UNCHANGED status
  /\ UNCHANGED <<mode, op, log, cp, bus, conn, cancel, faults>>
-----------------------------------------------------------------------------
\* processClaimedRunOperation: a run without a fresh lease stops.
WithLease(a, pc) ==
  /\ Goes(a, IF Fresh(a) THEN pc ELSE "gone")
  /\ UNCHANGED <<mode, status, op, log, cp, bus, conn, cancel, faults>>

CheckLease(a) == mode = "escrow" /\ run[a].pc = "out" /\ WithLease(a, "find")

\* appendEvent: an event with the run's ordinal is there already: its cursor is used.
\* recordCheckpoint: likewise.
Twin(a) == {e \in log : e.ev.ord = run[a].ev.ord}
\* Fault: the key of an event is made from its content.
KnownByContent(a) == IF run[a].table = "event"
                     THEN {e.cursor : e \in {f \in log : f.ev = run[a].ev}}
                     ELSE {cp.cursor} \ {0}
Known(a) == IF run[a].table = "event" THEN {e.cursor : e \in Twin(a)}
                                      ELSE {cp.cursor} \ {0}

Lookup(a, otherwise) ==
  run' = [run EXCEPT ![a] =
            IF Known(a) # {} THEN [@ EXCEPT !.pc = "recheck", !.cursor = Max(Known(a))]
            ELSE IF otherwise = "gone" THEN GoneRun ELSE [@ EXCEPT !.pc = otherwise]]

FindTwin(a) ==
  /\ run[a].pc = "find" /\ Lookup(a, "max")
  /\ UNCHANGED <<mode, status, op, log, cp, bus, conn, cancel, faults>>

\* nextCursor: two queries.
ReadMaxEvent(a) ==
  /\ run[a].pc = "max"
  /\ run' = [run EXCEPT ![a].pc = "maxcp", ![a].cursor = Max({e.cursor : e \in log} \union {0})]
  /\ UNCHANGED <<mode, status, op, log, cp, bus, conn, cancel, faults>>

ReadMaxCheckpoint(a) ==
  /\ run[a].pc = "maxcp"
  /\ run' = [run EXCEPT ![a].pc = "insert", ![a].cursor = Max({@, cp.cursor}) + 1]
  /\ UNCHANGED <<mode, status, op, log, cp, bus, conn, cancel, faults>>

\* Both tables have unique cursors and unique dedupe keys.
Conflict(a) == \/ Known(a) # {}
               \/ run[a].table = "event" /\ \E e \in log : e.cursor = run[a].cursor
\* Fault: nothing looks whether the row was inserted.
AssumeInserted(a) == Goes(a, "recheck")
\* After a conflict the row with the same key is used, or the run throws.
AfterConflict(a) == Lookup(a, "gone")

\* The INSERT.
Insert(a) ==
  LET mine == run[a] IN
  /\ mine.pc = "insert"
  /\ IF Conflict(a) THEN AfterConflict(a) /\ UNCHANGED <<log, cp>>
     ELSE /\ Goes(a, "recheck")
          /\ IF mine.table = "event"
             THEN log' = log \union {[cursor |-> mine.cursor, ev |-> mine.ev]} /\ cp' = cp
             ELSE /\ cp' = [cursor |-> mine.cursor, last |-> Max({e.cursor : e \in Twin(a)}),
                            ev |-> mine.ev]
                  /\ log' = log
  /\ UNCHANGED <<mode, status, op, bus, conn, cancel, faults>>

\* The event is in the log: publish it, and go on to the next or to the checkpoint.
PublishLogged(a) ==
  LET p == run[a].proc IN
  /\ run[a].pc = "recheck" /\ run[a].table = "event" /\ Fresh(a)
  /\ bus' = [bus EXCEPT ![p] = Published(@, run[a].ev)]
  /\ conn' = Told(conn, p, run[a].ev, run[a].cursor)
  /\ run' = [run EXCEPT ![a] =
       IF Terminal(run[a].ev)
       THEN [@ EXCEPT !.pc = "find", !.table = "checkpoint", !.cursor = 0]
       ELSE [@ EXCEPT !.pc = "agent", !.ev = NoEvent, !.cursor = 0]]
  /\ UNCHANGED <<mode, status, op, log, cp, cancel, faults>>

\* The report needs no finalization any more: the agent has ended the research before
\* it yields, and finalizeResearchReport ignores one that is not running.
Recheck(a) ==
  /\ run[a].pc = "recheck" /\ (run[a].table = "checkpoint" \/ ~Fresh(a))
  /\ WithLease(a, "end")

\* complete, then markDone.
Complete(a) ==
  LET p == run[a].proc IN
  /\ mode = "escrow" /\ run[a].pc = "end"
  /\ IF Fresh(a)
     THEN /\ op' = [op EXCEPT !.done = TRUE, !.live = FALSE]
          /\ bus' = [bus EXCEPT ![p] = MarkedDone(@)]
          /\ conn' = DoneTold(conn, p)
     ELSE UNCHANGED <<op, bus, conn>>
  /\ Goes(a, "gone")
  /\ UNCHANGED <<mode, status, log, cp, cancel, faults>>
-----------------------------------------------------------------------------
\* A run inside a request: each event goes to the bus and, if the bus took it or it
\* is terminal, to the stream that started the run.
PublishDirect(a) ==
  LET p    == run[a].proc
      ev   == run[a].ev
      told == Told(conn, p, ev, 0)
  IN
  /\ mode = "direct" /\ run[a].pc = "out"
  /\ bus' = [bus EXCEPT ![p] = Published(@, ev)]
  /\ conn' = IF run[a].own # NoOne /\ (Accepts(bus[p]) \/ Terminal(ev))
             THEN [told EXCEPT ![run[a].own] = Taken(@, ev, 0)] ELSE told
  /\ Goes(a, IF Terminal(ev) THEN "end" ELSE "agent")
  /\ UNCHANGED <<mode, status, op, log, cp, cancel, faults>>

\* The generator throws. Unless the run was aborted or its stream is gone the
\* research fails, or the terminal event of what it has become is told: a research
\* is never deleted, and one that is not running any more has such an event.
AgentThrows(a) ==
  /\ mode = "direct" /\ run[a].pc = "agent"
  /\ IF bus[run[a].proc].aborted \/ run[a].own = NoOne
     THEN Goes(a, "end") /\ UNCHANGED status
     ELSE /\ status' = IF status = "running" THEN "failed" ELSE status
          /\ run' = [run EXCEPT ![a].pc = "out", ![a].ev = PersistedTerminal(status')]
  /\ UNCHANGED <<mode, op, log, cp, bus, conn, cancel, faults>>

\* The finally block.
EndDirect(a) ==
  LET p == run[a].proc IN
  /\ mode = "direct" /\ run[a].pc = "end"
  /\ bus' = [bus EXCEPT ![p] = MarkedDone(@)]
  /\ conn' = [r \in Readers |->
                IF r = run[a].own /\ conn[r].pc = "own" THEN Ended(conn[r])
                                                        ELSE DoneTold(conn, p)[r]]
  /\ Goes(a, "gone")
  /\ UNCHANGED <<mode, status, op, log, cp, cancel, faults>>
-----------------------------------------------------------------------------
\* GET stream, in process p, with Last-Event-ID; the handler reads the research.
Request(r, p) ==
  /\ conn[r].pc = "off"
  /\ conn' = [conn EXCEPT ![r].pc = "start", ![r].proc = p, ![r].seen = status,
                          ![r].after = conn[r].last]
  /\ UNCHANGED <<mode, status, op, log, cp, bus, run, cancel, faults>>

Bound(c) == mode = "escrow" /\ c.seen # "funding"
Becomes(r, c) == conn' = [conn EXCEPT ![r] = c]

\* Fault: the entry after the cursor is left out.
SkipNext(after) == {e \in log : e.cursor > after + 1}
\* listByResearch
ListAfter(after) == {e \in log : e.cursor > after}

\* The client is gone after the first terminal entry it is sent.
UpToTerminal(S) == {e \in S : \A f \in S : f.cursor < e.cursor => ~Terminal(f.ev)}

\* The log after Last-Event-ID is sent.
Replay(r) ==
  LET c == conn[r]
      S == ListAfter(c.after)
  IN
  /\ c.pc = "start" /\ Bound(c)
  /\ \/ \E e \in UpToTerminal(S) : Terminal(e.ev) /\ Becomes(r, Taken(c, e.ev, e.cursor))
     \/ /\ \A e \in S : ~Terminal(e.ev)
        /\ Becomes(r, [c EXCEPT !.last = Max({e.cursor : e \in S} \union {@}),
                                !.pc = "checkpoint"])
  /\ UNCHANGED <<mode, status, op, log, cp, bus, run, cancel, faults>>

\* latestCheckpoint
ReadCheckpoint(r) ==
  /\ conn[r].pc = "checkpoint"
  /\ Becomes(r, [conn[r] EXCEPT !.pc = "subscribe", !.cp = cp])
  /\ UNCHANGED <<mode, status, op, log, cp, bus, run, cancel, faults>>

\* terminalCheckpointReplay: the terminal event is sent if it lies after the cursor
\* of the request, and in any case the stream ends. Otherwise it follows the bus.
Subscribe(r) ==
  LET c == conn[r] IN
  /\ c.pc = "subscribe"
  /\ Becomes(r, IF c.cp = NoCp
                THEN [NoConn EXCEPT !.pc = "open", !.proc = c.proc, !.last = c.last]
                ELSE IF c.cp.last > c.after THEN Taken(c, c.cp.ev, c.cp.last)
                ELSE Ended(c))
  /\ UNCHANGED <<mode, status, op, log, cp, bus, run, cancel, faults>>

\* Without an active escrow a request is answered from the bus of its process. A bus
\* takes nothing after a terminal event, so the history has at most one, its last.
Replayed(c, b) ==
  IF HasTerminal(b) THEN Taken(c, Last(b.hist), 0)
  ELSE [c EXCEPT !.sent = IF mode = "direct" THEN b.hist ELSE @]
Answered(c) == IF c.pc = "finished" THEN c ELSE Ended(c)
Starts(r) == conn[r].pc = "start" /\ ~Bound(conn[r])
Over(b)   == b.done \/ HasTerminal(b)

\* The history is complete. If it lacks the terminal event, the record has it.
DirectOver(r) ==
  LET p == conn[r].proc
      c == Replayed(conn[r], bus[p])
  IN
  /\ Starts(r) /\ Over(bus[p])
  /\ Becomes(r, Answered(IF HasTerminal(bus[p]) \/ c.seen = "running" THEN c
                         ELSE Taken(c, PersistedTerminal(c.seen), 0)))
  /\ bus' = [bus EXCEPT ![p] = IF @.done THEN @ ELSE MarkedDone(@)]
  /\ UNCHANGED <<mode, status, op, log, cp, run, cancel, faults>>

\* Nothing happened here and the research is not running.
DirectEnded(r) ==
  LET p  == conn[r].proc
      ev == PersistedTerminal(conn[r].seen)
  IN
  /\ Starts(r) /\ ~Over(bus[p]) /\ bus[p].hist = <<>> /\ conn[r].seen # "running"
  /\ conn' = DoneTold([Told(conn, p, ev, 0) EXCEPT ![r] = Taken(@, ev, 0)], p)
  /\ bus' = [bus EXCEPT ![p] = MarkedDone(Published(@, ev))]
  /\ UNCHANGED <<mode, status, op, log, cp, run, cancel, faults>>

\* Nothing happened here and nobody runs the agent: claimResearchRunner.
DirectRun(r) ==
  LET p == conn[r].proc IN
  /\ Starts(r) /\ ~Over(bus[p]) /\ bus[p].hist = <<>> /\ conn[r].seen = "running"
  /\ ~bus[p].runner
  /\ \E a \in Runs :
       /\ run[a].pc = "none" /\ \A b \in 1..(a - 1) : run[b].pc # "none"
       /\ run' = [run EXCEPT ![a] = [NoRun EXCEPT !.pc = "agent", !.proc = p, !.own = r]]
  /\ bus' = [bus EXCEPT ![p].runner = TRUE]
  /\ Becomes(r, [conn[r] EXCEPT !.pc = "own", !.after = 0])
  /\ UNCHANGED <<mode, status, op, log, cp, cancel, faults>>

DirectFollow(r) ==
  LET b == bus[conn[r].proc] IN
  /\ Starts(r) /\ ~Over(b) /\ (b.hist # <<>> \/ (conn[r].seen = "running" /\ b.runner))
  /\ Becomes(r, [Replayed(conn[r], b) EXCEPT !.pc = "open"])
  /\ UNCHANGED <<mode, status, op, log, cp, bus, run, cancel, faults>>

Disowned(r) == [a \in Runs |-> [run[a] EXCEPT !.own = IF @ = r THEN NoOne ELSE @]]

\* A stream ends at maxDuration, or its connection is lost.
Drop(r) ==
  /\ conn[r].pc \in {"open", "own", "orphan"}
  /\ Becomes(r, Ended(conn[r])) /\ run' = Disowned(r)
  /\ UNCHANGED <<mode, status, op, log, cp, bus, cancel, faults>>
-----------------------------------------------------------------------------
\* POST cancel: the conditional update of the record; then the abort, the event and
\* the end, on the bus of this process.
CancelRecord(p) ==
  /\ status = "running" /\ cancel = NoOne
  /\ status' = "cancelled" /\ cancel' = p
  /\ UNCHANGED <<mode, op, log, cp, bus, run, conn, faults>>

CancelPublish ==
  LET ev == PersistedTerminal("cancelled") IN
  /\ cancel # NoOne
  /\ bus' = [bus EXCEPT ![cancel] =
               [MarkedDone(Published(@, ev)) EXCEPT !.aborted = TRUE]]
  /\ conn' = DoneTold(Told(conn, cancel, ev, 0), cancel)
  /\ cancel' = NoOne
  /\ UNCHANGED <<mode, status, op, log, cp, run, faults>>

\* scheduleCleanup: the state of a bus that is done is dropped. Its subscribers stay
\* with the old one, which nobody publishes to.
Forget(p) ==
  /\ bus[p].done
  /\ bus' = [bus EXCEPT ![p] = FreshBus]
  /\ conn' = [r \in Readers |-> IF Subscribed(conn[r], p) THEN [conn[r] EXCEPT !.pc = "orphan"]
                                                          ELSE conn[r]]
  /\ UNCHANGED <<mode, status, op, log, cp, run, cancel, faults>>

\* A process dies and starts again.
Restart(p) ==
  /\ faults < MaxFaults[mode] /\ faults' = faults + 1
  /\ bus' = [bus EXCEPT ![p] = FreshBus]
  /\ run' = [a \in Runs |-> IF run[a].proc = p /\ run[a].pc # "gone"
                            THEN GoneRun ELSE run[a]]
  /\ conn' = [r \in Readers |-> IF conn[r].proc = p /\ conn[r].pc # "finished"
                                THEN Ended(conn[r]) ELSE conn[r]]
  /\ cancel' = IF cancel = p THEN NoOne ELSE cancel
  /\ UNCHANGED <<mode, status, op, log, cp>>
-----------------------------------------------------------------------------
Runner(a) ==
  \/ AgentYields(a) \/ CheckLease(a) \/ FindTwin(a) \/ ReadMaxEvent(a)
  \/ ReadMaxCheckpoint(a) \/ Insert(a) \/ PublishLogged(a) \/ Recheck(a) \/ Complete(a)
  \/ PublishDirect(a) \/ EndDirect(a)

Serve(r) ==
  \/ Replay(r) \/ ReadCheckpoint(r) \/ Subscribe(r)
  \/ DirectOver(r) \/ DirectEnded(r) \/ DirectRun(r) \/ DirectFollow(r)

Next ==
  \/ Activate \/ LeaseLapses \/ CancelPublish
  \/ \E p \in Procs : CancelRecord(p) \/ Forget(p) \/ Restart(p)
  \/ \E a \in Runs : Runner(a) \/ FailReclaimed(a) \/ AgentThrows(a) \/ \E p \in Procs : Claim(a, p)
  \/ \E r \in Readers : Serve(r) \/ Drop(r) \/ \E p \in Procs : Request(r, p)

\* Handlers and runs go on, the cron claims a due operation, a stream does not outlive
\* maxDuration, a lease ends, and a browser connects again. Nothing says when faults,
\* cancellations and the cleanup happen.
Fairness ==
  /\ WF_vars(CancelPublish) /\ WF_vars(LeaseLapses)
  /\ \A a \in Runs : WF_vars(Runner(a)) /\ WF_vars(\E p \in Procs : Claim(a, p))
  /\ \A r \in Readers : /\ WF_vars(Serve(r)) /\ WF_vars(Drop(r))
                        /\ WF_vars(\E p \in Procs : Request(r, p))

Spec == Init /\ [][Next]_vars /\ Fairness
-----------------------------------------------------------------------------
\* The log tells one run, in order, whoever wrote it: the events of runs that took
\* over from each other are numbered without gaps, and cursors rise with the numbers.
LogIsInOrder ==
  \A e \in log :
    /\ e.ev.ord > 1 => \E f \in log : f.ev.ord = e.ev.ord - 1
    /\ \A f \in log : e.ev.ord < f.ev.ord <=> e.cursor < f.cursor

\* A cursor a client holds is a cursor of the log, so the Last-Event-ID it reconnects
\* with never points past what was written. This is about cursors: what the client was
\* told under the cursor may be another event: a run that took over publishes its own
\* event under the cursor of its twin (PublishLogged).
CursorsAreLogged ==
  \A r \in Readers : conn[r].last # 0 => \E e \in log : e.cursor = conn[r].last

\* A reader who is told how the research ended is told what the record says, although
\* runs, cancellations and replays in other processes race for it.
TerminalIsTrue ==
  \A r \in Readers :
    /\ conn[r].told = "final" => status = "completed"
    /\ conn[r].told \in {"failed", "cancelled"} => status = conn[r].told

\* A stream that follows the bus has been sent exactly its history: the replay and
\* the subscription leave no gap and no overlap, however late it came.
DirectSeesHistory ==
  \A r \in Readers :
    LET c == conn[r] IN
    mode = "direct" /\ c.pc = "open"
      => c.sent = bus[c.proc].hist

\* What readers go by agrees with what was recorded, whichever way they read: cursors
\* with the log, the end they are told with the record, a direct stream with its bus.
ReadersSeeTheRecord == CursorsAreLogged /\ TerminalIsTrue /\ DirectSeesHistory

\* Every entry of the log comes to every reader, or a later one does: whatever process
\* the reader is connected to, whatever process writes, and whatever its bus has lost.
CaughtUp(c) == c.pc = "finished" \/ \A e \in log : e.cursor <= c.last
ReadersCatchUp == []<>(\A r \in Readers : CaughtUp(conn[r]))
=============================================================================
