# Verification of market-anomaly-alerts

TLA+ models of the program under `src/app/`, checked with TLC on small instances, and
proofs of their most important properties, checked with TLAPS for every value of the
constants. The program polls prices, detects anomalies against a running baseline, stores
alerts, and sends them to browsers and to Slack.

Contents: [the system](#the-system) · [hard behaviours](#what-is-hard-to-test) ·
[modules](#modules) · [runs](#runs) · [proofs](#proofs) ·
[disagreements](#where-the-code-and-its-documentation-disagree) ·
[what is not modelled](#what-is-not-modelled) · [plan](#plan)

## The system

One process: FastAPI (an asyncio event loop and a pool of threads for plain `def`
endpoints), an APScheduler job on the same event loop, worker threads for blocking
provider calls, and a database. What follows lists each component, its state, its
operations, and what makes it correct.

| Component | State | Operations | Correct if |
|---|---|---|---|
| WebSocket fan-out, `alerts.py`, `main.py` `/ws/alerts` | `_connections` (a set), the iterator of each running `broadcast()` | `connect`, `disconnect`, `broadcast` (an await per connection) | a broadcast ends; it reaches everyone; it drops the dead and only the dead |
| Alert pipeline, `scheduler.py` | the locals of `poll_cycle` and of each request, tables `price_history`, `ticker_baseline`, `alerts`; `_last_alert_at` | `poll_cycle`, `process_price`, `check_reconciliation`, `trigger_test_alert` | one alert and then silence for the cooldown; one sample alerts once; one ticker's failure stays its own; the heartbeat tells the truth |
| Anomaly detector, `detector.py` | the `ticker_baseline` row | `check_anomaly`; `current_zscores` and `synthetic_anomalous_sample`, which read it | the verdict is that of the full history; no verdict before the warm-up; what is shown as hot was hot; a synthetic sample would cross |
| Tracked tickers, `tracked_tickers.py` | table `tracked_ticker` | `get_`, `add_`, `remove_tracked_ticker` | between 1 and 5 tickers |
| Rate limiter, `rate_limiter.py` | `_tokens`, `_updated_at`, `_lock` | `acquire` | calls are paced; nobody waits for ever |
| Ingestion, `ingestion.py`, `cache.py`, `ticker_info.py` | `price_cache`, the attempt being made | `fetch_latest_price`, single-shot lookups, `with_backoff` | every fetch ends; calls are paced |
| Pulse, `pulse.py` | `source_counts`, `_counts_lock` | `record_source`, `flush_metrics`, `send_heartbeat` | each reading is counted once |
| Runtime configuration, `runtime_config.py` | table `runtime_config` (one row) | `get_`, `update_runtime_config` | a threshold changes only to what an editor gave for it; an edit that succeeds is there; requests never seed |
| Market hours, `market_hours.py` | none | `is_market_open` | agrees with the exchange's calendar |
| Dashboard, `static/index.html` | list of alerts, a row per ticker, the socket | `initTable`, `loadAlerts`, `refreshBaseline`, `connect` and its handlers | shows each alert once, and the price last stored; comes back after a lost connection |
| HTTP API, `main.py` | none of its own | routes, admin token | - |
| Persistence, `db.py`, `models.py`; settings, `config.py` | connections; constants | sessions | - |

How they interact:

* `poll_cycle` runs every `poll_interval_minutes` with `max_instances = 1`. For each tracked ticker
  it awaits `fetch_latest_price` (cache, limiter, worker thread, retries), then
  `process_price`: commit a `price_history` row; `check_anomaly`, which commits the
  baseline; broadcast a `price_update`; and, if the tick is anomalous and `should_alert`
  agrees, commit an `alerts` row, `record_alert`, broadcast, Slack. Then
  `check_reconciliation` takes a second reading and may alert under a key of its own.
* `POST /debug/test-alert/{ticker}` runs `trigger_test_alert` on the event loop, in the middle of
  whatever the poll job awaits. `POST /config`, `DELETE /tickers/...` and `GET` routes run
  on threads: between any two statements of anybody else.
* Every `await` lets every other task in. Between two awaits a coroutine runs alone on the
  loop, but not alone in the database.

## What is hard to test

`PROJECT.json` lists the hazards at their lines, with the properties that cover each. The main
ones: `broadcast()` suspends inside a `for` over a live set; three commits and a dictionary make
up one alert and any of them can fail or be the last thing that happens; `should_alert` and
`record_alert` are separate calls around a commit, used by two tasks and read against a
configuration that changes; checks and writes of the ticker table are separate statements; the
configuration row may be missing when two requests want it, and two editors each commit what
they loaded; the limiter sleeps with its lock held; retries and fallbacks call the provider
again after one `acquire`; worker threads and a flush share a counter; the page gets the same
alerts and prices twice, by request and by socket, in any order.

## Modules

| Module | What it models |
|---|---|
| `Broadcast` | `AlertManager`'s connections, the `/ws/alerts` handler and `broadcast()` |
| `Scheduler` (EXTENDS `Broadcast`) | the pipeline: poll cycle, test alerts, cooldown, tables, crash |
| `Debounce` | abstract: what the cooldown promises; `Scheduler` implements it |
| `Detector` | `check_anomaly` and the Welford baseline; what is read off it for the page and for test alerts |
| `FullHistory` | abstract: the verdict read off the whole history; `Detector` implements it |
| `TrackedTickers` | the ticker table and its concurrent requests |
| `RuntimeConfig` | the thresholds' row, statement by statement, with its readers and editors |
| `RateLimiter` | `TokenBucketLimiter.acquire` |
| `TokenBucket` | abstract: a bucket refilled all the time; `RateLimiter` implements it |
| `Ingestion` (EXTENDS `RateLimiter`) | fetches, cache, retries, Pulse's counts |
| `Dashboard` | one page, and the part of the server it sees |
| `MC*` | the constants' values for TLC |
| `BroadcastProofs`, `SchedulerProofs` (EXTENDS `BroadcastProofs`), `RateLimiterProofs`, `IngestionProofs` (EXTENDS `RateLimiterProofs`), `DetectorProofs`, `DashboardProofs`, `TrackedTickersProofs`, `RuntimeConfigProofs` | theorems |

An operator marked "Mutant of X" in a comment is what X would be with a plausible mistake;
nothing uses it. Putting it in X's place makes the property that it is paired with in
`PROJECT.json` fail, which shows that the property depends on that piece of the code.

**Broadcast.** `loop` is the task that is running, `NoTask` when all are suspended; an
action that needs the event loop asks for that. A broadcast frame holds what the iterator
has yet to yield, the set's size when the iterator was made, and the dead list. CPython
raises `RuntimeError` when the size differs at the next element, and that is all it checks:
one arrival and one departure during a send go unnoticed (`Undisturbed`), and the iterator
may then yield any of the members (a hash table has no order one can rely on). A send
raises only if the peer is gone, and need not raise even then. `orphan` is a socket whose
handler died of something other than `WebSocketDisconnect`: it stays in the set.

**Scheduler.** One action per stretch between two awaits, cut again at commits. `pc` names
the await or the point after a commit; `job` holds the locals. Each commit has an action
for its failure, and `StoreFails` also for the case that the commit goes through and the
read of `alert_row.id` that follows raises: the row is then stored and `record_alert` not
reached. The verdict of a tick is a free choice once the baseline has more than
`MinSamples` samples; `Detector` says which. `Crash` keeps the tables and loses everything
else. The initial state is a freshly started process on a database in which every ticker has
the same number of samples, at most `MinSamples`, so that few cycles see both a cold and a
warm baseline. Alert rows carry history
fields (`epoch`, `test`, `cool`, `tick`, `told`) that no guard reads.

**Detector** is exact: values are integers, means are kept times `Unit` and sums of
squares times its square, where `Unit` is divisible by all counts the run reaches, and
scores are compared squared, so there are no roots. It says nothing about rounding.
The verdict is computed by the rules of the code (floor relative to the price, warm-up
compared after the count was raised, a zero price without variance raises). The first tick
creates the row. A spread may be negative: the code subtracts a provider's bid from its ask
without a look at either. Thresholds are read for every tick and may differ each time.
`Backfilled` is what `GET /tickers/{ticker}/baseline` shows as hot, by `current_zscores`,
which scores the last tick against a baseline that has it folded in. `SyntheticDeviation`
is the distance from the mean at which `synthetic_anomalous_sample` puts its value; it takes
its floor from the mean, where `check_anomaly` would take it from the value.

**TrackedTickers.** One action per statement of a session. `add_ticker` and `poll_cycle`
are coroutines and reach the table without an await, so that one such operation at a time
is in progress (`LoopIsFree`); list and remove are threads. `reseeded` and `overlap` are
history fields the properties are conditional on. The seed (`TRACKED_TICKERS`) is a set of any
size, since nothing in `config.py` bounds it, and so is the table at the start. Two seeds are
outside the model, because with them no request is ever served: an empty one on an empty
table, and one that names a symbol twice, whose commit always fails; either way
`get_tracked_tickers` calls itself until the first start ends in a RecursionError.

**RuntimeConfig.** One action per statement with its commit. A request holds the row as its
session loaded it; the UPDATE of its commit has the columns whose value differs from that
(`Dirty`), which is what SQLAlchemy's unit of work does and what lets two editors of
different columns pass each other. The insert of a row that is there raises IntegrityError
and is rolled back; an UPDATE of a row that has gone raises. Somebody may delete the row by
hand (`removed`), and a restart may bring another environment. `overwritten` records which
columns others have changed since the row was loaded.

**Dashboard.** The page asks for the tickers, asks for the stored alerts and opens a
socket; the three answers come in any order. `wire` is what is sent and not yet handled,
in order; `pending` and `replies` are the baseline requests on either side, without order.
The server commits, then broadcasts (`job` holds the message in between). A page whose
socket is not registered gets nothing, and a registered one may get nothing either: `Send` may
always pass the page by, which is what a walk does that breaks before it reaches it, or that
goes on over a set laid out anew after one connection joined and another left. In the latter
case the iterator may also come to the page again (`SendAgain`, bounded with the lost
connections by `MaxBreaks`). `StoreFails` stores an alert whose number cannot be read back and
which is never broadcast. A connection is lost with any suffix of what is in
flight; a restart takes the server's tasks with it. After either, the page opens a socket
again and loads nothing. `seen`, `loaded`, `twice`, `lost`, `behind` and `applied` are history. The
server's side abstracts `Broadcast` (any walk may miss the page, whatever the other
connections do) and `Scheduler` (a poll that has broadcast may raise an alert, or another
one, at will; sending one message and committing the next row are one step, though an await
lies between).

**RateLimiter.** A tick is the unit of time; tokens are counted in fractions
(`RefillTime` to a token). The lock is FIFO, as `asyncio.Lock` is. A sleep may last longer
than asked, since nothing forces `WakeUp` when the timer is zero. `recent[w]` is history: the
tokens granted within the last `w` ticks, for every `w` up to `Window`.

**Ingestion.** Cache ages are in ticks. Every call of a provider is a step of a worker thread,
which does not need the loop: up to three for one attempt at a price (the quote, the last price
when bid and ask are zero, chart data), two for the fundamentals. Counting is two steps, read
and write, with the lock between. `loop` is held by a coroutine only where it takes
`_counts_lock`, which blocks.

## Runs

Every run checks a small instance exhaustively. Bounds are the `Max...` constants of the
modules, each with a comment; guards that carry a bound are named there.

| Run | Instance | Shows |
|---|---|---|
| `broadcast` | 2 tasks, 2 clients, 3 joins | two walks at once; a broken walk, a connection that is sent to after its peer left, a client that leaves and comes back in mid-walk; `OwnFailuresDontBreak`, `HealthyStay`, `BroadcastEnds` |
| `scheduler` | poll job and a test-alert task, 1 client that joins once, 1 ticker, cooldown 0 or 1 minute, 2 cycles, 2 alerts, 1 minute, 1 crash | `CooldownSilence`, `SilenceHasCause`, `TickAlertsOnce`, `AlertsAreWarm`, `BaselineHasHistory`, `AlertsReachSlack`, `DebounceSpec` (refinement) and the types, with broadcasts that break, commits that fail and a changing cooldown |
| `scheduler_liveness` | 2 tickers, 1 cycle, 1 client, fairness | `TasksEnd`, `EachGetsItsTurn`, `HeartbeatHonest` |
| `tracked_bounds` | 3 requests, 3 symbols, bounds 1 and 2, a seed of 2, a table of 1 to 3, fairness | `AddsKeepMax`, `RemovesKeepMin`, `RequestsEnd` and the types |
| `config` | the lifespan and 2 requests (symmetric), 2 columns of which one may be zero, 1 restart | `SeedBeforeRequests`, `OnlyEditsChange`, `EditTakesEffect` and the types |
| `dashboard` | 2 stored alerts, 1 new one, a page of 2, 1 poll of either of 2 prices, test alerts, any message passed by; 2 lost connections, restarts or messages sent again; fairness | `NewAlertsListedOnce`, `LoadedBelowLive`, `PriceSettles`, `PageComesBack` and the types |
| `detector_rescan` | 8 different ticks (spreads of both signs), 5 in a row, warm-up of 3, thresholds 1 and 2, a floor of a sixth | `BaselineIsHistory`, `RescanSpec` (refinement), `BackfillIsDampened`, `SyntheticCrosses` and the types |
| `limiter` | 3 tasks, 2 tokens, one per 3 ticks, windows up to 7 ticks | `SleepersAreServed`, `Paced`, `BucketSpec` (refinement), `AcquireEnds` |
| `ingestion` | 2 tasks, 1 ticker, 2 attempts, 1 token | `EachCountedOnce`, `FetchEnds` and the types (the limiter's among them) |
| `broadcast_everyone`, `tracked_min`, `ingestion_calls` | the same, or a smaller one | a statement of the documentation that the code does not keep; see below |

Why these bounds are enough to be interesting: two tasks are needed for a broadcast to be
disturbed or a cooldown to be shared, and a third only repeats the second, except in the
limiter, where a third queues behind a sleeper. Two clients and three joins give a departure and
an arrival in one send (the size check is fooled) and a reconnection of a client that is still
on a dead list's way. Two alerts suffice for every property that compares two rows; a cooldown
of one minute and a clock of one minute have both sides of its boundary, and with two cycles and
a crash a sample can be taken before and after it. Three requests allow two removals and an
addition, or a removal, a reseeding and an addition, at once; the theorems are about any number.
Two columns and two editors suffice for an edit to overtake another's, with the lifespan of a
restart as a third party. Three alerts are one more than the page loads, and the new one can be
stored before `/alerts` is answered, between the answer and its display, or later; each property
of the list is about one alert beside the loaded ones, and the theorems are about any number of
new ones. Two breaks are two lost connections, before and after the page's socket is registered,
or a message that comes twice over a connection lost in between. Five ticks go two past the
warm-up. Window 7 exceeds the time the bucket takes to fill. `MaxAttempts` 2 has both the retry
and the last failure.

`detector_rescan` has `CHECK_DEADLOCK FALSE`, because a history of `MaxTicks` ticks is the end
of the instance, and so has `dashboard`, where a page that is connected and has
handled everything is at rest when the server's bounds are used up. No other run needs it. In
`Scheduler`, where an operator can always change the cooldown, the absence of deadlock says
little; `TasksEnd` says it.

**Fairness.** Strong fairness for each task's own steps: asyncio resumes ready tasks in the
order they became ready, threads are scheduled by the operating system, and every await
ends: fetches, Slack and Pulse have timeouts, a send is ended by the server's keep-alive.
That a slow client's send ends is thereby assumed and not shown.
It is strong because a ready task is disabled whenever another holds the loop. Weak
fairness for the clock and, in the limiter, for a task that holds or is next for the lock.
No fairness for browsers, operators, crashes, or the start of new work. In
`TrackedTickers` each request's next statement is weakly fair (a database answers or the
statement fails); `RequestsEnd` supposes further that removals stop at some time, since
while they go on a reader may find the table empty again and again. In `Dashboard` the
page's handlers and timer are weakly fair (a browser runs what is in its queue, and the
three-second timer goes off), and so are the two steps by which the server takes a
socket; nothing makes the server answer a request or a task broadcast.

Strong fairness of a whole task (`TaskNext`) does not force one outcome of a step: a
commit or fetch may fail every time.

## Proofs

All proofs are checked by TLAPS, from the named assumptions on the constants
(`BroadcastAssumption`, `SchedulerAssumption`, `LimiterAssumption`, `IngestionAssumption`,
`TrackedAssumption`, `ConfigAssumption`, `DetectorAssumption`, `DashboardAssumption`) and
nothing else. They hold for any number of tasks, requests, tickers, clients, tokens, columns,
ticks, and any bounds. TLC evaluates the assumptions on each run. The one that is more than
a type is on `Detector`'s `Unit`, which must be divisible by the sample counts: for every
`MaxTicks` there are such numbers. Every property of a passing run that is not about
liveness is the statement of a theorem.

**`BroadcastProofs`.** `BTypeCorrect`; `OwnFailuresAreHarmless` by `WalkInv`, which adds that an
iterator has only members before it (what CPython's sees to, and the model's with it) and
`DeadAreGone`: a connection on a dead list cannot be open again,
because a reconnecting browser is a new object as long as the list holds the old one.
`HealthyAreKept`, an action property, follows from `DeadAreGone`: without it the clean-up
could drop a connection that is up. `UndisturbedReachesAll` is what remains of the claim that
`broadcast_everyone` refutes: if no other task changes the set, all are sent to.

**`SchedulerProofs`**, in five parts.

* `TypeCorrect` by `TypeInv`, the types with `HasTicker` (a poll job that is processing has a
  ticker; without it `samples[job.ticker]` means nothing).
* The cooldown: `CooldownIsSilence` and `SilenceIsCaused` by `CooldownInv`. The first is not
  inductive alone: that an alert is admitted after every earlier one follows from its
  being admitted after the last recorded time, and that from the dictionary's being ahead of
  the announced rows (`CooldownCoversTable`), and from no row's lying in the future
  (`PastRows`). The second needs the converse, that every recorded time is that of an announced
  row of this process (`RecordsHaveRows`): a failed commit or read must not record anything,
  and a crash must forget. `ImplementsDebounce`: the
  same invariant makes every step a step of `Debounce` under the refinement mapping `Fired`.
* Samples: `TicksAlertOnce` and `WarmAlerts` by `SampleInv`: a decision that is pending is
  about a sample newer than every sample that has alerted (`FreshSample`).
* One cycle: `HonestHeartbeat` and `SamplesHaveRows` by `CycleInv`. `CountInv` says that the
  ticker at work was fetched and not yet counted, and that the queue holds none that was
  fetched; `RowInv` that between the two commits of a tick the history is a row ahead;
  `FrameInv` that the poll job's broadcast is on only while it awaits one, so that no
  exception of a walk can end the turn of a ticker twice.
* From the table to Slack: the walks of the broadcasts keep `WalkInv` within the pipeline,
  over crashes (`PipelineWalksHold`, `PipelineKeepsHealthy`). A task leaves `announce` for
  Slack, by a crash, or because its walk broke, and a walk breaks only if it was disturbed:
  `StoredAlertsReachSlack`.

The steps are first sorted by what they do to the alerts, the cycle or the sockets
(`AlertSteps`, `SampleSteps`, `SocketSteps`), so that each invariant is argued over a few
cases, not over twenty actions.

**`RateLimiterProofs`.** `LTypeCorrect`; `SleepersFindTokens` by `SleepInv` (a sleeper holds the
lock, so nobody takes what flows in); `ImplementsBucket`: the lazy bucket implements the
eager one, by the arithmetic of capping twice. `GrantsArePaced` goes through the eager
bucket: what was granted in the last `w` ticks and the present credit are together at most
a full bucket and `w`, for every `w`, which `PacedInv` carries from tick to tick.

**`IngestionProofs`** takes the limiter's lemmas over to the fetches that use it.
`FetchTypeCorrect`, `ReadingsCountedOnce`, `FetchesShareOneBucket` and `FetchesArePaced` by
`FetchInv`: who is inside `acquire()` is where the task says it is, so that a retry's sleep is
nobody's sleep in `acquire()` (`WaitInv`); between the read and the write of the counter its
lock is held and the counter has not changed (`LockInv`); and what the provider gave is in
the counter or on its way (`CountInv`, a cardinality).

**`DetectorProofs`.** `DetectorTypeCorrect`, `RowIsTheHistory`, `RunningRowIsRescan`,
`BackfillAddsNothing`, `TestAlertsCross`. That a sum over the history grows by the value
appended would take an induction over the history, which is out of the prover's reach. The
induction runs along the behaviour instead: a list is `Summable` if it has partial sums and
only one list of them; the empty history is, and a tick more keeps it so and adds its value
(`SumAppend`). `Exact` says of a mean and an M2 that they are those of `n` values of given sum and
sum of squares; one step of Welford's algorithm keeps it (`WelfordExact`, where `Unit` makes
the divisions come out even). The invariant `DetectorInv` is `BaselineIsHistory` with the
types, `Summable` for all eight sums (`HistoryInv`), and that the row's last values are the
last tick's (`LastIsLast`). From `Exact`, a score against the row compares as one against the
sums (`ScoresAgree`: positive factors cancel), which makes every step a rescan's:
`RunningRowIsRescan` is the refinement of `FullHistory`. `BackfillAddsNothing` is that folding a
value into a baseline shrinks its score (`Dampened`).

**`DashboardProofs`.** `DashboardTypeCorrect`, `LiveAlertsListedOnce`, `LoadedStayBelow` and
`RowShowsLastPrice` by `PageInv`. `OnceInv`: an alert that was not sent twice is held by one
task, or is one message in flight, or is one live entry of the list, and never two of these;
`SomewhereInv`: since the load every alert is one of them or lost; `ListInv`: under the live
entries lie the loaded ones, newest first. `PriceInv`: with no price on its way and none lost,
every answer to the newest request carries the last price, and so does the row once it was
applied; `AskInv` counts the requests, so that an older answer is never taken for the newest (a
message sent again may add one, hence `Extra`).

**`TrackedTickersProofs`.** `TypeCorrect`, with where a request stands and what it is about
(`PlaceOK`). `AdditionsKeepMax`: `Turns` (the operations of the event loop take turns) makes
`Room` inductive: until a request reseeds, an addition that has been let through still finds
less than the maximum, because nobody else can insert. It says nothing of how large the table is
to begin with, only that it does not grow beyond. `AddedSymbolsKeepMax` is the same for the
symbols that are not of the seed (`RoomBesideSeed`), which a reseeding leaves alone, and so
holds throughout; it is proved without a run, as it takes too many symbols to violate.
`RemovalsKeepMin` is its mirror image: without an overlap there is one removal at a time
(`Alone`), so that what it was let through with it leaves behind (`Spare`).

**`RuntimeConfigProofs`.** `TypeCorrect`; `NoRequestSeeds` by `Seeding` (once requests are accepted
the row is there, unless somebody removes it); `EditsLand` by `Knowing` (a session that is
about to commit has loaded a row, and where that row no longer holds, the column is recorded
as overwritten); `EditsOnly` from what a commit writes, for any course of inserts, removals and
restarts.

Only model-checked: liveness (`BroadcastEnds`, `TasksEnd`, `EachGetsItsTurn`, `RequestsEnd`,
`PageComesBack`, `AcquireEnds`, `FetchEnds`), since TLAPS has no rule for `ENABLED`, and that the
operators of `FullHistory` mean what a statistician means by them, which is read off their
definitions.

## Where the code and its documentation disagree

Shown by a run that TLC ends with a counterexample:

* `EveryoneIsSent` (`alerts.py:88`). A connect or a disconnect while a send is awaited makes
  `broadcast()` raise `RuntimeError`: those still to come get nothing, and the dead
  connections are kept. "Send `payload` ... to every connected client" (`alerts.py:79-80`).
  When it is an alert that was broadcast, the exception skips `notify_slack` too
  (`scheduler.py:288`): the alert is stored and in its cooldown, and Slack never gets it.
  `AlertsReachSlack` states what does hold: nothing else stops it but a crash.
* `NeverBelowMin` (`tracked_tickers.py:99`). Two removals that overlap leave no ticker.
  The next read of the list fills the table with the seed.
* `CallsArePaced` (`ingestion.py:188`). One token pays for up to three calls per attempt and
  five attempts, and for two calls of the fundamentals. "One budget across all OpenBB/yfinance
  calls" (`ticker_info.py:15`).

Met while modelling, without a run of their own:

* `scheduler.py:309-312` says that repeated test alerts "won't spam duplicates"; the test
  path never asks `should_alert`. The models have it so (`CooldownSilence` excepts tests).
* `scheduler.py:33-34`: the heartbeat is `fail` "when ... none could be fetched"; a cycle that
  fetched all and could store none says `fail` as well. `HeartbeatHonest` states the
  direction that does hold.
* `tracked_tickers.py:39`: a removal that empties the table makes a reader reseed it, and an
  addition in progress can bring it to one more than the maximum. `AddsKeepMax` excepts a
  reseeded table; `AddedSymbolsKeepMax` proves that no more than the maximum comes on top of the
  seed.
* `config.py:87-96` takes a seed of any length: with more than `MAX_TICKERS` symbols the table
  is beyond the bound of `tracked_tickers.py:3` from the first start. `AddsKeepMax` says that
  no addition makes it worse.
* `README.md:126-127` calls a quote stale when "price and volume are both unchanged"; the
  code asks for an unchanged price and a volume of *zero* (`detector.py:161`).
  `detector.py:129` has the flag go up "above" the threshold; it goes up at it.
* The page loads its list once. An alert stored after `/alerts` was answered and received
  before the answer is shown is wiped from the list (`index.html:411`); one stored before
  the answer and received after it is listed twice; and one sent while the page was
  disconnected, or whose broadcast broke before it came to the page, or whose number could
  not be read back after the commit (`scheduler.py:283`), is not shown until the page is
  loaded anew. A walk that goes on after one connection joined and another left may come to
  the page twice, and the alert is then listed twice. `NewAlertsListedOnce` and
  `LoadedBelowLive` state what does hold besides.
* The answer to an older baseline request may overwrite a newer price
  (`index.html:383-393`), until the next poll. `PriceSettles` excepts it, and a price message
  that was lost or passed the page by.
* `detector.py:261` has the synthetic value "cross the anomaly threshold". Where the floor
  applies, it does so only while z(z+1) is at most 1/`min_stddev_fraction`: by default up to
  a threshold of 44. `SyntheticCrosses` has that condition.
* Two edits that overlap may leave a mixture: each writes the columns in which it differs
  from what it loaded, and no others. An edit that sets a column to the value it loaded
  writes nothing and does not undo another's change (`EditTakesEffect` excepts columns
  overwritten since).
* `alerts.py:20-22` has the silence last "until the cooldown window passes or the anomaly
  clears"; nothing looks at whether it clears.

## What is not modelled

* The market-hours gate: two comparisons on what a time-zone and a calendar library
  return. A cycle outside market hours changes nothing.
* The HTTP layer, its parsing and its token; the environment's parsing (`config.py`); the ORM,
  except which columns an UPDATE writes.
* Of the dashboard: modals, charts, admin forms, rebuilding the table when the list of
  tickers is edited, and the volume, spread, mean and score cells, which are filled with
  the price from the same message or answer.
* The content of messages and of providers' answers, rounding of floats and NaN.
* In `Scheduler`, the arithmetic of a test alert (only its guard; `Detector` has the rest), and
  a poll cycle that finds no ticker, which sends a heartbeat and changes nothing.
* More than one process: the limiter, the cache and the cooldown are in memory.

## Plan

1. Done: the modules above, in the order `Broadcast`, `Scheduler`, `Debounce`,
   `TrackedTickers`, `Detector`, `RateLimiter`, `Ingestion`, `RuntimeConfig`, `Dashboard`; the
   proofs of every safety and action property that a run checks, and of the three
   refinements.
2. Next: more of what the parts promise one another. The fetches and the cycle are
   composed by abstraction only: a theorem that `Ingestion`'s fetch does what `Scheduler`
   assumes of one, and one that the server `Dashboard` assumes is `Scheduler`'s. The market-hours
   gate, as a function of the calendar it is given.
3. Then, if the program grows: several pages, and a page that edits the list of tickers.
