----------------------------- MODULE Scheduler -----------------------------
(***************************************************************************)
(* ProposalScheduler: a background loop that scans for overdue proposals   *)
(* and closes each in a transaction of its own, POST /admin/scheduler/run  *)
(* which runs the same pass beside it, and the lifespan of the application *)
(* around them: bus and loop started, the server draining its requests and *)
(* event streams, the loop cancelled, the bus stopped, crashes; and the    *)
(* webhook tasks that outlive all of these.                                *)
(*                                                                         *)
(* Closing is one transaction here; what happens inside it, and races with *)
(* force_close, are the subject of Governance, and what a webhook task     *)
(* does that of Webhooks.                                                  *)
(***************************************************************************)
EXTENDS Integers, FiniteSets

CONSTANTS
    Proposals,
    Nobody,          \* the proposal of a worker that closes none
    ClosesAt,        \* closes_at of each proposal, or Never
    Never,           \* NULL
    Manual,          \* requests of /admin/scheduler/run
    Clients,         \* clients of GET /events/stream
    Patches,         \* what PATCH /proposals/{id}/status sets
    MaxClock,        \* bound on the clock
    MaxFaults,       \* bound on database errors and crashes
    MaxStarts        \* bound on starts of the process

Statuses == {"pending", "open", "closed", "cancelled"}

ASSUME SchedulerAssumption ==
    /\ Nobody \notin Proposals /\ Never \notin Nat
    /\ ClosesAt \in [Proposals -> Nat \cup {Never}]
    /\ "loop" \notin Manual
    /\ Patches \subseteq Statuses
    /\ MaxClock \in Nat /\ MaxFaults \in Nat /\ MaxStarts \in Nat

VARIABLES
    clock,
    status,          \* the status column of each proposal
    computed,        \* proposals a pass has stored a result for
    announced,       \* proposals a pass has published a result event for
    serving,         \* those whose result event a webhook task is delivering
    process,         \* "stopped", "running", "draining", "stopping" or "disposed"
    starts,
    bus,             \* event_bus._running
    running,         \* proposal_scheduler._running
    streams,         \* the clients whose stream is open
    pc,              \* where each worker is
    expired,         \* the rows of its scan that it has not come to
    current,         \* the proposal it closes
    faults

db     == <<status, computed>>
outbox == <<announced, serving>>
worker == <<pc, expired, current>>
life   == <<process, starts, bus, running, streams>>
vars   == <<clock, db, outbox, life, worker, faults>>

\* Those who run a pass: the background task and the requests.
Workers == {"loop"} \cup Manual

\* The query of _tick.
Overdue(p) ==
    /\ status[p] = "open"
    /\ ClosesAt[p] # Never /\ ClosesAt[p] <= clock

\* A worker that is at none of its awaits.
Absent(w) == pc[w] = "none"

Goto(w, label) == pc' = [pc EXCEPT ![w] = label]

\* Faulty variant: the request awaits _loop instead of _tick.
LoopInRequest(w) == "Sleep"

\* Where a worker goes at the end of a pass: the loop sleeps before it looks at _running
\* again, a request returns.
AfterPass(w) == IF w = "loop" THEN "Sleep" ELSE "none"

-----------------------------------------------------------------------------
(* _tick.                                                                  *)

Scan(w) ==
    /\ pc[w] = "Scan"
    /\ expired' = [expired EXCEPT ![w] = {p \in Proposals : Overdue(p)}]
    /\ Goto(w, "Turn")
    /\ UNCHANGED <<clock, db, outbox, life, current, faults>>

\* The for loop is through.
NoMoreTurns(w) == expired[w] = {}

Turn(w) ==
    /\ pc[w] = "Turn"
    /\ \/ /\ NoMoreTurns(w)
          /\ current' = [current EXCEPT ![w] = Nobody]
          /\ Goto(w, AfterPass(w))
          /\ UNCHANGED expired
       \/ /\ ~NoMoreTurns(w)
          /\ \E p \in expired[w] :
                /\ current' = [current EXCEPT ![w] = p]
                /\ expired' = [expired EXCEPT ![w] = @ \ {p}]
          /\ Goto(w, "Load")
    /\ UNCHANGED <<clock, db, outbox, life, faults>>

-----------------------------------------------------------------------------
(* _close_proposal.                                                        *)

\* The proposal may have been closed or cancelled since the scan.
Load(w) ==
    /\ pc[w] = "Load"
    /\ Goto(w, IF status[current[w]] = "open" THEN "Commit" ELSE "Turn")
    /\ UNCHANGED <<clock, db, outbox, life, expired, current, faults>>

\* What the transaction stores; the status it overwrites may have changed since Load.
Store(w) ==
    /\ status' = [status EXCEPT ![current[w]] = "closed"]
    /\ computed' = computed \cup {current[w]}

Commit(w) ==
    /\ pc[w] = "Commit"
    /\ Store(w)
    /\ Goto(w, "Announce")
    /\ UNCHANGED <<clock, outbox, life, expired, current, faults>>

\* event_bus.publish, after the commit: its hook creates a webhook task that nobody
\* awaits.  A bus that is not running drops the event.
Announce(w) ==
    /\ pc[w] = "Announce"
    /\ \/ /\ bus
          /\ announced' = announced \cup {current[w]}
          /\ serving' = serving \cup {current[w]}
       \/ ~bus /\ UNCHANGED outbox
    /\ Goto(w, "Turn")
    /\ UNCHANGED <<clock, db, life, expired, current, faults>>

\* Faulty variant: the scheduler publishes what a failed commit left in its session.
PublishedAnyway(w) == "Announce"

\* An exception inside _close_proposal is logged there: on to the next proposal.
AfterError(w) == "Turn"

\* Faulty variant: the try of _loop is around its while.
LoopEnds(w) == "none"

\* An exception of the scan is caught by _loop, or is the 500 of the request.
AfterScanError(w) == AfterPass(w)

Work(w) == Scan(w) \/ Turn(w) \/ Load(w) \/ Commit(w) \/ Announce(w)

\* A database error: nothing is stored, or the commit was and only its reply is lost.
DatabaseError(w) ==
    /\ faults < MaxFaults
    /\ faults' = faults + 1
    /\ \/ /\ pc[w] = "Scan"
          /\ Goto(w, AfterScanError(w))
          /\ UNCHANGED db
       \/ /\ pc[w] \in {"Load", "Commit"}
          /\ Goto(w, AfterError(w))
          /\ UNCHANGED db
       \/ /\ pc[w] = "Commit"
          /\ Goto(w, AfterError(w))
          /\ Store(w)
    /\ UNCHANGED <<clock, outbox, life, expired, current>>

-----------------------------------------------------------------------------
(* _loop, start, stop and the process.                                     *)

\* `while self._running`.
LoopHead == IF running THEN "Scan" ELSE "none"

\* asyncio.sleep(interval) is over.
Wake(w) ==
    /\ pc[w] = "Sleep"
    /\ Goto(w, LoopHead)
    /\ UNCHANGED <<clock, db, outbox, life, expired, current, faults>>

Trigger(m) ==
    /\ process = "running" /\ Absent(m)
    /\ Goto(m, "Scan")
    /\ UNCHANGED <<clock, db, outbox, life, expired, current, faults>>

\* The lifespan of the application begins: the bus, then the scheduler.
Start ==
    /\ process = "stopped" /\ starts < MaxStarts
    /\ starts' = starts + 1
    /\ process' = "running"
    /\ bus' = TRUE /\ running' = TRUE
    /\ Goto("loop", "Scan")
    /\ UNCHANGED <<clock, db, outbox, streams, expired, current, faults>>

Connect(c) ==
    /\ process = "running" /\ c \notin streams
    /\ streams' = streams \cup {c}
    /\ UNCHANGED <<clock, db, outbox, process, starts, bus, running, worker, faults>>

\* The client goes away.
Disconnect(c) ==
    /\ c \in streams
    /\ streams' = streams \ {c}
    /\ UNCHANGED <<clock, db, outbox, process, starts, bus, running, worker, faults>>

\* Faulty variant: the bus is stopped before those who publish on it.
BusFirst == FALSE

\* The shutdown leaves the bus alone until the scheduler has stopped.
BusMeanwhile == bus

\* SIGTERM: the server takes no more requests and waits for those it has; the shutdown
\* half of lifespan comes after that.
Terminate ==
    /\ process = "running"
    /\ process' = "draining"
    /\ bus' = BusMeanwhile
    /\ UNCHANGED <<clock, db, outbox, starts, running, streams, worker, faults>>

\* task.cancel()
Cancelled(label) == IF label = "none" THEN label ELSE "Cancel"

\* The server has finished its requests and streams; stop() clears _running and cancels
\* the task.  A commit the database had begun may still happen.
Stop ==
    /\ process = "draining"
    /\ streams = {} /\ \A m \in Manual : Absent(m)
    /\ process' = "stopping"
    /\ running' = FALSE
    /\ Goto("loop", Cancelled(pc["loop"]))
    /\ \/ UNCHANGED db
       \/ pc["loop"] = "Commit" /\ Store("loop")
    /\ UNCHANGED <<clock, outbox, starts, bus, streams, expired, current, faults>>

\* CancelledError is no Exception: it passes both handlers and ends the task.
EndLoop ==
    /\ pc["loop"] = "Cancel"
    /\ Goto("loop", "none")
    /\ expired' = [expired EXCEPT !["loop"] = {}]
    /\ current' = [current EXCEPT !["loop"] = Nobody]
    /\ UNCHANGED <<clock, db, outbox, life, faults>>

\* The task has been awaited; then event_bus.stop and engine.dispose.  No stream is left
\* to send a sentinel to, and nobody waits for the webhook tasks.
Dispose ==
    /\ process = "stopping" /\ Absent("loop")
    /\ process' = "disposed"
    /\ bus' = FALSE
    /\ UNCHANGED <<clock, db, outbox, starts, running, streams, worker, faults>>

\* The event loop closes and cancels what is left.
Exit ==
    /\ process = "disposed"
    /\ process' = "stopped"
    /\ serving' = {}
    /\ UNCHANGED <<clock, db, announced, starts, bus, running, streams, worker, faults>>

\* A webhook task ends: delivered, given up, or by an error.
Served(p) ==
    /\ p \in serving
    /\ serving' = serving \ {p}
    /\ UNCHANGED <<clock, db, announced, life, worker, faults>>

\* The process is killed; what is committed stays.
Crash ==
    /\ process # "stopped" /\ faults < MaxFaults
    /\ faults' = faults + 1
    /\ process' = "stopped" /\ bus' = FALSE /\ running' = FALSE
    /\ streams' = {} /\ serving' = {}
    /\ pc' = [w \in Workers |-> "none"]
    /\ expired' = [w \in Workers |-> {}]
    /\ current' = [w \in Workers |-> Nobody]
    /\ UNCHANGED <<clock, db, announced, starts>>

\* PATCH /proposals/{id}/status, in this process or another.
SetStatus(p, s) ==
    /\ s # status[p]
    /\ status' = [status EXCEPT ![p] = s]
    /\ UNCHANGED <<clock, computed, outbox, life, worker, faults>>

Tick ==
    /\ clock < MaxClock
    /\ clock' = clock + 1
    /\ UNCHANGED <<db, outbox, life, worker, faults>>

-----------------------------------------------------------------------------
Init ==
    /\ clock = 0 /\ faults = 0 /\ starts = 0
    /\ status = [p \in Proposals |-> "open"]
    /\ computed = {} /\ announced = {} /\ serving = {}
    /\ process = "stopped" /\ bus = FALSE /\ running = FALSE /\ streams = {}
    /\ pc = [w \in Workers |-> "none"]
    /\ expired = [w \in Workers |-> {}]
    /\ current = [w \in Workers |-> Nobody]

Next ==
    \/ \E w \in Workers : Work(w) \/ Wake(w) \/ DatabaseError(w)
    \/ EndLoop
    \/ \E m \in Manual : Trigger(m)
    \/ \E c \in Clients : Connect(c) \/ Disconnect(c)
    \/ Start \/ Terminate \/ Stop \/ Dispose \/ Exit \/ Crash
    \/ \E p \in Proposals : Served(p) \/ \E s \in Patches : SetStatus(p, s)
    \/ Tick

Spec == Init /\ [][Next]_vars

\* The event loop resumes a task whose await is over; sleeps end; a drained server goes
\* on with its shutdown.  Nobody makes a client disconnect.
FairSpec ==
    /\ Spec
    /\ \A w \in Workers : WF_vars(Work(w)) /\ WF_vars(Wake(w))
    /\ WF_vars(EndLoop) /\ WF_vars(Stop) /\ WF_vars(Dispose) /\ WF_vars(Exit)

-----------------------------------------------------------------------------
(* Properties.                                                             *)

Closing == {"Load", "Commit", "Announce"}

\* Types, and the local variables at each await: a worker that closes has a proposal,
\* one that sleeps or has returned has come to the end of its list.
TypeOK ==
    /\ clock \in 0 .. MaxClock /\ faults \in 0 .. MaxFaults /\ starts \in 0 .. MaxStarts
    /\ status \in [Proposals -> Statuses]
    /\ computed \subseteq Proposals /\ announced \subseteq Proposals
    /\ serving \subseteq announced
    /\ process \in {"stopped", "running", "draining", "stopping", "disposed"}
    /\ bus \in BOOLEAN /\ running \in BOOLEAN /\ streams \subseteq Clients
    /\ pc \in [Workers -> Closing \cup {"none", "Scan", "Turn", "Sleep", "Cancel"}]
    /\ expired \in [Workers -> SUBSET Proposals]
    /\ current \in [Workers -> Proposals \cup {Nobody}]
    /\ \A w \in Workers :
        /\ pc[w] \in Closing => current[w] # Nobody
        /\ pc[w] \in {"none", "Sleep", "Scan"} => expired[w] = {}

\* Unlike force_close, the scheduler announces no result that is not stored, also when
\* commits fail or are cancelled.
AnnouncedIsStored == announced \subseteq computed

\* The results whose event comes next.
Due == {current[w] : w \in {v \in Workers : pc[v] = "Announce"}}

\* The results that no event has told of, nor will.
Untold == computed \ (announced \cup Due)

\* How often stop() has been called, if no process crashed.
Stops == IF process \in {"running", "draining"} THEN starts - 1 ELSE starts

\* The event of a result comes after its commit and nothing replays it.  Without faults
\* only stop() cuts it off, once per shutdown: what the cancelled loop was closing.  The
\* manual passes announce everything, also while the server drains.
StopLosesOneEvent == faults = 0 => Cardinality(Untold) <= Stops

\* While the process runs, an overdue proposal does not stay open: neither a failure on
\* another proposal, nor one of the scan, nor a concurrent manual pass stops the loop.
EveryOverdueCloses ==
    \A p \in Proposals : Overdue(p) ~> ~Overdue(p) \/ process # "running"

\* The loop and the manual passes publish results after their commits, also while the
\* server is draining: none of them comes to a bus that drops events.
PublishersHaveABus == (\E w \in Workers : pc[w] = "Announce") => bus

\* A shutdown comes to its end once the last stream has closed, whatever the scheduler
\* was doing and whoever had asked for a pass.  With a stream open it does not: the
\* sentinel that would end the stream is sent by Stop, which waits for it.
ShutdownEnds == (process = "draining" /\ streams = {}) ~> process = "stopped"

=============================================================================
