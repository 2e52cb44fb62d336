# Electa in TLA+

Electa is a shareholder-governance service: owners of an entity vote on
proposals with the weight of their shares, delegate their weight, and proposals
are closed by hand, by a scheduler or from the command line. It is a FastAPI
application on one asyncio event loop, with SQLAlchemy sessions on PostgreSQL, an
in-process event bus that feeds SSE and WebSocket streams and a webhook
dispatcher. This directory holds TLA+ modules for it, TLC configurations, and
proofs for the TLA+ proof system.

Line numbers are those of the files in `src/`.

## 1. Inventory

| Component | State | Operations | Talks to |
|---|---|---|---|
| Decision engine (`decision_engine.py`) | none | `tally_proposal`, `close_and_compute`, weights | reads votes, ownership; assigns the proposal |
| Votes API (`votes.py`) | rows of `votes` | `cast_vote` (vote, approve, reject, delegate) | session, audit, bus |
| Proposals API (`proposals.py`) | rows of `proposals` | `create_proposal`, `update_status`, `force_close` | decision engine, audit, bus |
| Sessions and audit (`database.py`, `audit.py`) | transaction of each request, `audit_logs` | `get_db`, `append_audit` | PostgreSQL, READ COMMITTED |
| Scheduler (`scheduler.py`) | `_running`, `_task` | `start`, `stop`, `_loop`, `_tick`, `_close_proposal`; `/admin/scheduler/run` | decision engine, audit, bus |
| Event bus (`event_bus.py`, `events.py`) | queues, replay buffer, `_running` | `start`, `stop`, `publish`, `subscribe`; the stream loops | every publisher, clients, hooks |
| Webhooks (`webhook_service.py`, `webhooks.py`, `startup_hooks.py`) | endpoints, counters, delivery log | dispatch task, register, deactivate, test | bus hook, HTTP, sessions |
| Rate limiter (`rate_limiter.py`) | deque of times per client | `is_allowed`, `cleanup` | middleware in front of all routes |
| Application shell (`main.py`) | the life of the process | `lifespan`, the server around it | bus, scheduler, streams, webhook tasks |
| Command line (`cli.py`) | none | `seed`, `create-user`, `close-proposal`, lists | its own process, the same database |
| Entities, ownership, users (`entities.py`, `users.py`) | rows | create, upsert ownership, deactivate | session |
| Admin (`admin.py`) | none | statistics, participation, audit search, share cap | reads every table, several SELECTs per report |
| Crypto, schemas, config, migrations | none | checks, wiring | |

**What is hard.** A handler is a sequence of awaits and other handlers run at each
of them; the database isolates statements, not requests, so what was checked at one
await may be false at the next. Events are published before the HTTP handlers commit
and after the scheduler does. Handlers and connections die between any two steps.
Bounded queues drop events and sentinels. Webhook tasks read a row, wait for ten
seconds and write it back. `PROJECT.json` lists each such hazard at its line, with
the properties that watch it or the reason why none does.

**What makes each part correct.** The verdict must move monotonically with the
ballots. Votes: one row per voter, no stake counted twice, none lost, none counted
late. Closing: once, with a result that obeys the rules and that subscribers agree
on. Audit: exactly what the tables say. Streams: ordered, gapless but for their own
overflow, ended by shutdown. Webhooks: a truthful log, no endpoint forgotten or
revived. Limiter: the window's bound, and an exact remaining count. Scheduler: every
overdue proposal closes; what it stores is announced, but for what a shutdown cuts
off. Registration: no key stored twice,
no refusal without a cause, the seed whole or absent, an ownership row that somebody
asked for. Reports: numbers that belong together as far as the order of the SELECTs
guarantees it. Shutdown: results announced on a live bus, and an end.

## 2. Modules

| Module | Models | State and actions against the code |
|---|---|---|
| `DecisionEngine` | the arithmetic of `tally_proposal` | operators only; percentages are integers out of `Scale`, divisions are products, so that there is no rounding |
| `BallotCount` | the tally while ballots arrive | `yes`, `no`, `abstain` are the three sums; one action per choice, one for a change of ownership |
| `Governance` | the transactions of votes, proposals, scheduler and command line | a request is a process; `pc` is the await it is at; `seen`, `weight`, `target`, `ballots`, `draft` are its session and locals; `proposals`, `votes`, `audit` are committed rows |
| `BallotRegister` | what the API promises about ballots | abstract specification: recorded in one step, once per voter and proposal, never altered; with or without late ballots |
| `Reports` | `/admin/stats` and participation reports beside `Governance` | keeps one answer a report has got; the next SELECT reads the present tables |
| `Registration` | users, entities, ownership, endpoint registration, `seed`, `create-user` | one action per await that reaches the database; a row carries its unique keys |
| `EventFeed` | what a stream is promised | abstract specification: published events, in order, at most once |
| `EventBus` | the bus and its streams | one action per `publish`, `subscribe`, `stop` (none of them suspends under the lock); a stream takes, sends, leaves |
| `Webhooks` | the dispatch tasks | one action per await: scan, load, POST, flush, commit, back-off; registration, deactivation and test pings |
| `RateLimiter` | both limiters | one action per `is_allowed`, one per `cleanup` |
| `Scheduler` | loop, pass and the life of the process | one action per await of a pass; start of `lifespan`, event streams, SIGTERM and draining, `stop` (`running` is `_running`) and the cancellation, disposal of bus and engine, the event loop closing, crash; `serving` are the webhook tasks under way |
| `MC*` | values of the constants for TLC | |
| `BallotCountProofs`, `RateLimiterProofs`, `RegistrationProofs`, `SchedulerProofs`, `EventBusProofs`, `WebhookProofs` | theorems about the module of that name | |
| `GovernanceProofs`, `TrailProofs` | theorems about `Governance`; the second also about `Reports` and about sums | |

`Governance` composes the decision engine (it EXTENDS `DecisionEngine`) with the
sessions, the audit log, the publishing side of the bus and three kinds of closers.
`EventBus` is its own component: the order of `events` in `Governance` is the order
in which the bus numbers them. `Scheduler` looks at the same `_close_proposal` from
the side of the loop and treats it as one load and one commit, which `Governance`
splits up. It also holds the order of the shutdown: the server drains, the loop is
cancelled and awaited, bus and engine are disposed of, the event loop closes. The webhook
tasks that its announcements create run beside all this until the event loop closes;
here a task is there or has ended (`Served`), and what it does in between is `Webhooks`,
where the closing event loop is one of the causes of `Die`. `Reports` EXTENDS `Governance` and adds a reader.
`Registration` shares with `Governance` users and ownership only, which the latter
reads in single statements; a PUT or a deactivation is one step there (`SetOwnership`,
`DeactivateUser`) and a transaction here.

**What `Governance` implements.** Its definition `Register` instantiates
`BallotRegister`: the status is the status column, the ballots are the committed rows
without their weight, which a delegation to a voter may raise. Late ballots are allowed
exactly if requests may overlap (`MaxInFlight > 1`).

**How PostgreSQL is modelled.** Each SELECT reads the latest committed rows. Writes
are invisible until `Commit`, which makes all of them visible in one step. A flush
that inserts a key or updates a row waits while another transaction holds it and,
for a key, fails if that transaction commits it. An UPDATE names only the columns
whose value changed against the loaded row (`WriteChanged`), as SQLAlchemy does.
Sessions do not autoflush. These rules are external to the repository.

**Faulty variants.** Next to some definitions stands a variant with a plausible bug
(a dropped guard, an off-by-one, a missing reset). No action uses it. `PROJECT.json`
pairs each property of each passing run with one variant under which TLC finds the
property violated, so that every property is known to be able to fail.

## 3. Runs

| Run | Question | Bounds |
|---|---|---|
| `ballot_count` | Does the verdict move as voters are told? | every threshold type, three quorums and electorates including zero, cast weight up to 9: both sides of each threshold are reached |
| `gov_concurrent` | What survives three overlapping requests? | three voters with stakes 4, 2, 1 (sums tell who was counted), votes, all delegations, `force_close`, one proposal; three requests are enough for two voters and a closer, or for a cycle of delegations; one report beside them |
| `gov_serial` | Does what the tests assume hold one request at a time? | sequences of four requests, a deadline passing, every closer, every refusal, creation of a second proposal, a deactivated user; no late ballot |
| `gov_faults` | What survives failures? | a vote, a delegation to its voter, the scheduler, a status update; one death of a handler, one rollback or one lost commit reply anywhere; the voter sells |
| `event_bus` | Do streams get the promised feed? | two streams, queues of two (so that they overflow), replay of two, four events, stop and restart |
| `webhooks` | Do delivery, retry and deactivation fit together? | the tasks of an event and of a test ping, two endpoints, one of them shared and one registered late, two attempts, one task that dies, at any await: by a database error, or cancelled in a POST or a back-off |
| `rate_limiter` | Is the window's bound exact? | limits of two and three, window of two ticks, six ticks: three windows |
| `scheduler` | Do overdue proposals close whatever happens, and does a shutdown end? | two deadlines, the loop and a manual pass, an event stream, two faults, two starts, proposals reopened at any time |
| `registration` | What survives check-then-insert? | three overlapping requests of 26 kinds, against rows that exist, rows of the seed and rows of each other; one lost connection |
| `late_vote` | finding | as `gov_concurrent` |
| `lost_delegation` | finding | as `gov_concurrent` |
| `double_close` | finding | as `gov_concurrent` |

Symmetry over requests is used in runs without liveness properties only; requests
appear in no property asymmetrically. `CHECK_DEADLOCK FALSE` stands in `webhooks`, where
the system is done when every task is, and in `scheduler`, where it is
done when a process has stopped that is not started again. In `Governance`, the `Wait` action is
the server waiting for the next request, so that deadlock checking there finds
requests that block each other and nothing else.

Bounds are constants and stand in guards: `MaxCast`, `MaxInFlight`, `MaxClock`,
`MaxFaults`, `MaxEvents`, `MaxTime`, `MaxRetries` (a setting of the code), and
`MaxStarts`.

**Findings.** Three runs show disagreements between the code and what the repository
says of it.

- `late_vote`: a ballot admitted before a close and committed after the tally's
  SELECT is acknowledged, audited and announced but in no result.
- `lost_delegation`: a vote and a delegation to its voter that overlap miss each
  other; two overlapping delegations overwrite each other's boost, so that a later
  report may show less weight than an earlier one.
- `double_close`: two overlapping closes both succeed where the second should be
  told "Proposal is already closed."

Six more stand in the premise of a property or a theorem, or in a definition, and
`PROJECT.json` lists them without a run:

- By the repository's `README.md:177` a unanimous proposal passes if no NO was cast; the
  code wants a YES as well, so that one on which everybody abstains fails (`Passed`).
  `ThresholdOrder` is about the code: under the README's rule it would be false.
- "Shut down cleanly" is logged while webhook tasks may still deliver: nobody awaits
  them, and the engine they take their sessions from has been disposed of (`Dispose`
  leaves `serving` alone).
- The sentinel that ends an event stream is sent in the half of the lifespan that waits
  for the stream, so that one client keeps the server draining for ever (`Stop` needs
  `streams = {}`). `ShutdownEnds` starts when the streams are closed.
- A custom threshold of 0.0 is accepted and applied as the default majority;
  `CustomThresholdHolds` excludes it.
- Two PUTs of one ownership that overlap may leave the shares of one and the
  multiplier of the other. `PutsAreWhole` supposes that the requests differ in both
  columns; without that premise it fails.
- `POST /webhooks/test` names one endpoint and pings every one that matches
  (`SendTest`).

`gov_serial` checks the three properties of the first three findings where they hold,
and so tells a race from a plain mistake.

## 4. Fairness

- `Governance`: weak fairness of each request's next step. The event loop resumes a
  handler whose await is over; PostgreSQL grants a lock that has become free.
  Nothing is assumed of arrivals, trades or faults.
- `EventBus`: weak fairness of each stream's take and send. A client that never
  reads is a client that disconnects; nothing is assumed of when.
- `Webhooks`: weak fairness of each task's next step. A POST has a timeout, a back-off
  has a timer, the holder of a row lock commits. The outcome of a POST is free.
- `Scheduler`: weak fairness of the workers' steps, of their timers, of the delivery of
  a cancellation, and of the steps of a shutdown: `stop`, the disposal, the closing of the
  event loop. None of the last waits for a webhook task, whose end is not assumed. `EveryOverdueCloses` asks only for as long as
  the process runs, and faults are finitely many. Nothing makes a client close its
  stream, so `ShutdownEnds` asks only for what follows the last one's closing.
- `Registration`, `Reports`, `BallotCount`, `RateLimiter`: safety only, no fairness.

## 5. Proofs

All theorems hold for every value of the constants under the named assumptions
of the modules, which TLC also evaluates, and under those a theorem states itself. Each
safety invariant of a passing run, each action property and each refinement is
proved.

- `BallotCountProofs`: the promises about the verdict. Each is an action
  property or an invariant from the type invariant and one algebraic lemma: adding
  to YES keeps `yes * Scale >= pct * (yes + no)` because `pct <= Scale`.
  `ThresholdOrderHolds` needs the majority below the supermajority, which
  `PercentAssumption` states. `CustomThresholdHolds` says that a custom proposal with
  quorum passes exactly at its percentage, for every percentage but zero.
- `GovernanceProofs`:
  - `TypeCorrect`, that `TypeInv` always holds: types, the session variables, and which
    labels a request of each kind may be at (`Stage`). The last part is not a type; without
    it nothing says that a commit stores what its handler prepared. The other theorems
    of the module rest on it.
  - `OneVotePerVoterHolds` from `VoterInv`: while a vote is flushed and not committed
    its key is taken by nobody else, neither by a committed row nor by another
    request (`KeyInv`). The duplicate check of `votes.py:51` is not used: the unique
    constraint alone carries the property.
  - `AuditMatchesTablesHolds`, for runs without the command line, which writes no
    audit entry: `StatusDraftInv` says that a status update has no result columns to
    write, the rest is that `Store` writes row and entry together.
  - `StoredResultObeysRulesHolds`, for runs without status updates: `CloserInv` says
    that a closer has loaded the row open and without a result, and that its draft is
    lawful and differs from what it loaded in every column; `RowsInv` that every row
    is absent, open without a result, or lawfully closed. So each UPDATE of a closer
    writes a whole result. After a status update reopened a proposal this is no
    longer so: the row has a result already, the UPDATE leaves out the columns that
    came out the same, and the columns of two closers can mix. The theorem therefore
    assumes the runs without.
  - `RegisterImplemented`, that `Governance` implements `BallotRegister`.
    `HandlerSteps` sorts the steps of all handlers into three kinds: it loads its
    proposal, it leaves the register alone, it stores. `VoterInv` gives that what is
    stored is new; `LoadedInv` that a loaded proposal exists, and that what will be
    written to it has a status; `SerialInv`, for requests that do not overlap, that a
    voter finds the proposal as open as he loaded it (it counts the requests in flight,
    hence the assumption that `Requests` is finite).
- `TrailProofs`, about `Governance` and `Reports`. `StepKinds` sorts the steps once more,
  by what they leave behind: nine kinds, on which all proofs of this module rest.
  - `AcknowledgedIsStoredHolds` from `BaseInv`: an acknowledged request is past its
    commit (`ReplyInv`), what it inserted is never removed, and a result column that
    was written once is written again or kept (`KeptInv`; `CreateInv` excludes that a
    second `create_proposal` overwrites the row).
  - `EventsMatchAuditHolds` from `TrailInv`: without faults the sources of the events
    are the requests that are past their publication, and those of the audit entries
    the requests past their commit; with nobody in between both are the same set, and
    `IdsInv` (one row and one entry per request) makes it a bijection.
  - `LastResultEventIsStoredHolds` from `LockInv` and `LastInv`: from its flush to its
    commit a `force_close` has the row lock and is alone, so that the last event is what
    it stores. It assumes `OnlyForceClose`: the command line publishes nothing, the
    scheduler publishes after it has given the lock back, and a patched status changes
    the row without a result event. With them the property is false in the code.
  - `StatsWithinAuditHolds`: votes map one to one to audit entries, and the audit only
    grows between the two SELECTs.
  - `ClosedOnceHolds` and `AllVotesCountedHolds` assume `OneAtATime` and `NoReopening`.
    Without the first they are the findings `double_close` and `late_vote`; a status
    update that opens a closed proposal again may have it closed twice by design. What
    is loaded stays true while nobody else runs (`Fresh`), so that the row a closer
    writes has the weights of the present votes (`CountedInv`).
  - `NoDoubleCountHolds` holds with any overlap and any faults. The idea is that a
    ballot never weighs more than the stakes `Backing` it: a delegation those of its
    voter and of whom delegated to that voter, a vote also those behind its delegates.
    The backings of two direct votes are disjoint (`OneSide`). `WeightInv` says it of the
    stored rows, of the rows about to be stored, and of the rows that delegations have
    loaded and will overwrite, however stale. It assumes `OnlySales`: the property
    compares with the stakes of the start, and stakes bought later are not in them.
  - `DirectDelegationCountedHolds` is the opposite bound, for requests that do not overlap
    (with overlap it is the finding `lost_delegation`) and stakes that only grow
    (`OnlyPurchases`: a stake sold before its vote is rightly not counted).
    `DelegationInv` says that a handler which is alone has loaded the row it boosts as it
    is, and that a vote has summed everybody who delegated before it.
  - `ReportCoversResultHolds` holds with any overlap: where nobody has delegated, the
    votes on a proposal are only added to, so the ballots a tally has loaded stay among
    them, and a row that a draft or an answer copied stays covered (`CoverInv`).
- `RateLimiterProofs`: `WindowBoundHolds` from `SlotInv`: a bucket is the newest part
  of the log of admissions, and what it forgot lies before the window.
  `RemainingIsRoomHolds` from `AnswerInv`: an answer given at this
  instant has counted the admissions of the window one by one.
- `RegistrationProofs`: `UniqueKeysHold`, `SeedAllOrNothingHolds`,
  `RefusalsAreJustifiedHolds` and `PutsAreWholeHolds`. The common invariant says that a
  session holds only rows of its request (`PendingInv`), that a flushed key is held by
  nobody else and not stored (`KeyInv`), and that a stored row carries a request's name
  only once that request is done (`RowInv`). `SeedInv` adds that a seed has flushed
  exactly the stages it is past; `RefusalInv` that stored keys stay stored, so that a
  cause remains; `OwnershipInv` that what a PUT has loaded was whole, so that its UPDATE
  names both columns or none.
- `SchedulerProofs`: `AnnouncedIsStoredHolds` and `PublishersHaveABusHolds` from
  `AnnounceInv` (who is about to announce has stored) and `LifeInv` (which passes may run,
  and whether the bus does, at each stage of the process). `StopLosesOneEventHolds` counts
  the results no event has told of nor will: `WorkLosesNothing` says that no step of a
  pass adds to them, since its bus is there, `StopLosesOne` that `stop` adds at most what
  the loop was closing, `OthersLoseNothing` that nothing else does. It supposes finitely
  many proposals, so that they can be counted. Webhook tasks are in no `LifeInv`: what they
  do after the shutdown is a finding.
- `EventBusProofs`: `NothingMissedHolds`, `ReplayIsLatestHolds` and `FeedImplemented` from
  `BusInv`: the events in a queue are increasing and come after the one taken, and, in
  a queue that was never full, complete; the buffer holds the latest of the published.
  The lemmas say what one put and one take do to such a queue.
- `WebhookProofs`: `Shape` says what a task that serves an endpoint knows of it, also
  after the endpoint's deactivation. `LogInv` says that the attempts in the log are
  `1 .. n`, where `n` is known while the task is there; `ReceivedInv`, `LateInv` and
  `CountInv` (a stale counter was right when it was read, and the log only grows) give
  the other theorems.

**Sums.** `CastWeight` and `VotedWeight` are folds of the community modules, which
unfold to a function chosen by its recursion equation. `TrailProofs` proves that there
is one such function on the subsets of a finite set and only one (`SumsExist`,
`SumsUnique`, by `SetInduction` from the well-founded induction of the library, whose
statement has a set for the induction hypothesis). From there come what a sum is worth
after one more element, over a union, over a part or an image, and the bound of a sum
whose terms are covered by disjoint parts (`TotalCovered`).

**Only model-checked.** Liveness (`RequestsTerminate`, `StreamsEnd`,
`EveryEndpointServed`, `EveryOverdueCloses`, `ShutdownEnds`): fairness and `ENABLED` are
beyond the installed provers. The three runs that expect a violation.

## 6. Not modelled

- Floating point: weights are integers; verdicts within rounding of a threshold may
  differ from the code's.
- More than one entity, and more than one role per user: a stake is a number.
- Signatures: a request with a signature may be refused or pass. The signed payload
  contains the server's second, so that even a right signature may fail.
- Text: titles, payloads, wording, HMAC headers, the glob of webhook filters.
- Read-only routes, audit search, share cap and other reports of one SELECT: the answer
  is what one instant holds. Pages are ordered by `timestamp` (`votes.py:168`) or not at
  all (`webhooks.py:49`), so rows may move between the pages of two requests.
- In `system_stats`, the counts of tables that no request of `Governance` writes.
  Its `total_weight_cast` sums the rows of delegations too, whose weight the vote they
  boost already carries; no text says which is meant.
- `init-db`, `list-proposals` and `stats` of the command line: made for an idle
  database, or printing only. Migrations, CORS, the wiring of the routers.
- The choice of the client key by the middleware, and the pure functions of `crypto.py`
  and `schemas.py`: their outcomes are the inputs of the models.
- A database that blocks for ever or loses committed data.

## 7. Plan

In order of importance; 1 to 10 are done.

1. `DecisionEngine`, `BallotCount`, and their proofs.
2. `Governance` with its runs and findings.
3. `RateLimiter`: the bound for every window and the exact remaining count.
4. `EventFeed`, `EventBus`: refinement checked and proved.
5. `Webhooks`, `Scheduler`: safety checked and proved, liveness checked.
6. `BallotRegister`, which `Governance` implements: checked and proved.
7. `Registration`: its four properties proved.
8. `Reports` beside the transactions: proved.
9. The life of the process in `Scheduler`: bus, streams, webhook tasks, draining, shutdown.
10. Acknowledgements, events and audit trail, and the sums of weights: proved.
11. The theorems with premises that the model could do without: a result after a
    reopening (which columns two closers can mix), the last event with the scheduler
    among the closers (what a listener can still rely on).
12. Ownership by share lots, to state what a trade between two votes does to the sum.
