----------------------------- MODULE Scheduler -----------------------------
(***************************************************************************)
(* The alert pipeline: poll_cycle, process_price, check_reconciliation and *)
(* trigger_test_alert (app/scheduler.py) with AlertManager's cooldown      *)
(* (app/alerts.py), over the database tables they commit to and over the   *)
(* WebSocket broadcasts of module Broadcast.                               *)
(*                                                                         *)
(* One action is what a task does between two awaits, cut further at each  *)
(* commit so that a crash, the clock or a request thread can come between. *)
(* The tables survive a crash; the cooldown dictionary, the connections    *)
(* and every task are lost with the process.                               *)
(***************************************************************************)
EXTENDS Broadcast, Sequences

CONSTANTS
  Poll,        \* the APScheduler job (max_instances = 1); other tasks: test alerts
  Tickers,
  NoTicker,
  Cooldowns,   \* the values an operator may give alert_cooldown_minutes
  MinSamples,  \* no alert from a baseline of this many samples or fewer (5)
  Never,       \* no alert recorded under a key
  MaxCycles, MaxAlerts, MaxTime, MaxEpoch   \* bounds

ASSUME SchedulerAssumption ==
  /\ Poll \in Tasks
  /\ IsFiniteSet(Tickers)
  /\ NoTicker \notin Tickers
  /\ Cooldowns \subseteq Nat
  /\ Cooldowns # {}
  /\ MinSamples \in Nat
  /\ Never \notin Nat
  /\ MaxCycles \in Nat /\ MaxAlerts \in Nat /\ MaxTime \in Nat /\ MaxEpoch \in Nat

VARIABLES
  pc,           \* where each task is suspended or running
  job,          \* the locals of process_price and its siblings
  queue,        \* poll_cycle: tickers still to come
  ok,           \* poll_cycle: the counter of the same name
  fetched,      \* history: tickers whose fetch returned in this cycle
  beat,         \* poll_cycle: `status' of the heartbeat being sent
  cycles,       \* cycles started (bounded by MaxCycles)
  history,      \* table price_history: rows per ticker
  samples,      \* table ticker_baseline: sample_count per ticker
  alerts,       \* table alerts
  cooldown,     \* table runtime_config: alert_cooldown_minutes
  lastAlertAt,  \* AlertManager._last_alert_at
  now,          \* the clock, in minutes
  epoch         \* process starts so far

pollVars == <<queue, ok, fetched, beat, cycles>>
tickVars == <<history, samples>>
alertVars == <<alerts, lastAlertAt>>
clockVars == <<now, epoch>>
socketVars == <<connections, sock, joins>>
svars == <<pc, job, pollVars, tickVars, alertVars, cooldown, clockVars>>
vars == <<bvars, svars>>

Admins == Tasks \ {Poll}

Places == {"idle", "fetch", "detect", "tick", "decide", "announce", "slack",
           "recon", "report"}

\* Cooldown keys: "T" for a signal, "T:reconciliation" for a mismatch.
Kinds == {"signal", "reconciliation"}
Keys == Tickers \X Kinds

Job == [ticker  : Tickers \union {NoTicker},
        kind    : Kinds,
        anomaly : BOOLEAN,                \* result.is_anomaly
        cool    : Cooldowns \union {0},   \* config.alert_cooldown_minutes
        id      : Nat]                    \* alert_id, 0 before the commit

NoJob == [ticker |-> NoTicker, kind |-> "signal", anomaly |-> FALSE,
          cool |-> 0, id |-> 0]

\* An alerts row, with what its creation depended on: the process that made
\* it, whether it is a test, the cooldown it was admitted under, the sample
\* that raised it (0: none) and whether record_alert was reached.
Row == [key : Keys, at : Nat, epoch : Nat, test : BOOLEAN,
        cool : Cooldowns \union {0}, tick : Nat, told : BOOLEAN]

Init ==
  /\ BInit
  /\ pc = [t \in Tasks |-> "idle"]
  /\ job = [t \in Tasks |-> NoJob]
  /\ queue = {} /\ ok = 0 /\ fetched = {} /\ beat = "none" /\ cycles = 0
  /\ \E n \in 0..MinSamples : history = [tk \in Tickers |-> n]
  /\ samples = history
  /\ alerts = <<>>
  /\ cooldown \in Cooldowns
  /\ lastAlertAt = [k \in Keys |-> Never]
  /\ now = 0
  /\ epoch = 0

----------------------------------------------------------------------------
(* AlertManager's cooldown.                                                *)

\* Mutant of ShouldAlert: the time since the last alert is rounded up.
ShouldAlertEarly(key, cool) ==
  lastAlertAt[key] # Never => now - lastAlertAt[key] + 1 >= cool

ShouldAlert(key, cool) ==
  lastAlertAt[key] # Never => now - lastAlertAt[key] >= cool

RecordAlert(key) == lastAlertAt' = [lastAlertAt EXCEPT ![key] = now]

----------------------------------------------------------------------------
(* What a tick leaves in the tables.                                       *)

\* Mutant of KeepTick: the row is added but not committed.
KeepTickUncommitted(tk) == UNCHANGED history

KeepTick(tk) == history' = [history EXCEPT ![tk] = @ + 1]

\* Mutant of FoldTick: a commit that failed goes unnoticed.
FoldTickUncommitted(tk) ==
  samples' \in {samples, [samples EXCEPT ![tk] = @ + 1]}

FoldTick(tk) == samples' = [samples EXCEPT ![tk] = @ + 1]

\* Mutant of Warm: the warm-up is one sample short.
WarmEarly(count) == count >= MinSamples

Warm(count) == count > MinSamples

----------------------------------------------------------------------------
(* How tasks move on.                                                      *)

Suspended(t, place) == pc[t] = place /\ loop = NoTask

Running(t, place) == pc[t] = place /\ loop = t

Goto(t, place) == pc' = [pc EXCEPT ![t] = place]

\* poll_cycle takes tk from `rest', the tickers to come, and awaits its price.
FetchNext(tk, rest) ==
  /\ tk \in rest
  /\ queue' = rest \ {tk}
  /\ Goto(Poll, "fetch")
  /\ job' = [job EXCEPT ![Poll] = [NoJob EXCEPT !.ticker = tk]]

\* The loop is over: the heartbeat is awaited.
Report ==
  /\ queue' = {}
  /\ beat' = IF ok' = 0 THEN "fail" ELSE "ok"
  /\ Goto(Poll, "report")
  /\ job' = [job EXCEPT ![Poll] = NoJob]

\* The loop's body is left: the next ticker or, after the last, the heartbeat.
NextOrReport ==
  /\ \/ \E tk \in queue : FetchNext(tk, queue) /\ UNCHANGED beat
     \/ queue = {} /\ Report
  /\ loop' = NoTask
  /\ UNCHANGED cycles

\* Mutant of LeaveTicker: a failure is counted against the successes.
LeaveTickerCountingDown(n) == ok' = ok + 2 * n - 1 /\ NextOrReport

\* Mutant of LeaveTicker: `ok += 1' comes before the try block.
LeaveTickerCountingAll(n) == ok' = ok + 1 /\ NextOrReport

\* Mutant of LeaveTicker: the try block surrounds the whole loop.
LeaveTickerGivingUp(n) ==
  /\ ok' = ok + n
  /\ IF n = 1 THEN NextOrReport ELSE Report /\ loop' = NoTask /\ UNCHANGED cycles

\* n is 1 after `ok += 1', 0 in the handler of the exception.
LeaveTicker(n) == ok' = ok + n /\ NextOrReport

\* A test-alert request is answered.
Answer(t) ==
  /\ Goto(t, "idle")
  /\ job' = [job EXCEPT ![t] = NoJob]
  /\ loop' = NoTask
  /\ UNCHANGED <<queue, ok, beat, cycles>>

\* An exception leaves process_price, check_reconciliation or
\* trigger_test_alert.
Abort(t) ==
  \/ t = Poll /\ LeaveTicker(0)
  \/ t # Poll /\ Answer(t)

AddRow(t, key, cool, tick, told) ==
  /\ Len(alerts) < MaxAlerts
  /\ alerts' = Append(alerts, [key |-> key, at |-> now, epoch |-> epoch,
                               test |-> t # Poll, cool |-> cool, tick |-> tick,
                               told |-> told])

\* The alerts row is committed, record_alert marks the key, and the
\* broadcast of the alert begins, with no await in between.
Announce(t, key, cool, tick) ==
  /\ AddRow(t, key, cool, tick, TRUE)
  /\ RecordAlert(key)
  /\ BeginBroadcast(t)
  /\ loop' = t
  /\ Goto(t, "announce")
  /\ job' = [job EXCEPT ![t] = [ticker |-> key[1], kind |-> key[2],
                                anomaly |-> TRUE, cool |-> cool,
                                id |-> Len(alerts) + 1]]
  /\ UNCHANGED <<pollVars, tickVars, cooldown, clockVars, socketVars>>

\* Mutant of StoreFails: record_alert comes before the commit.
StoreFailsRecorded(t, key, cool, tick) ==
  /\ AddRow(t, key, cool, tick, FALSE) \/ UNCHANGED alerts
  /\ RecordAlert(key)
  /\ Abort(t)
  /\ UNCHANGED <<socketVars, bcast, fetched, tickVars, cooldown, clockVars>>

\* The commit raises, or succeeds and reading alert_row.id back raises (the
\* session expires its rows at a commit): the row may be there all the same.
StoreFails(t, key, cool, tick) ==
  /\ AddRow(t, key, cool, tick, FALSE) \/ UNCHANGED alerts
  /\ Abort(t)
  /\ UNCHANGED <<socketVars, bcast, fetched, tickVars, lastAlertAt, cooldown, clockVars>>

----------------------------------------------------------------------------
(* poll_cycle and process_price.                                           *)

PollStart ==
  /\ Suspended(Poll, "idle")
  /\ cycles < MaxCycles
  /\ \E tracked \in SUBSET Tickers : \E tk \in tracked : FetchNext(tk, tracked)
  /\ ok' = 0
  /\ fetched' = {}
  /\ cycles' = cycles + 1
  /\ UNCHANGED <<bvars, beat, tickVars, alertVars, cooldown, clockVars>>

FetchFails ==
  /\ Suspended(Poll, "fetch")
  /\ LeaveTicker(0)
  /\ UNCHANGED <<socketVars, bcast, fetched, tickVars, alertVars, cooldown, clockVars>>

\* The fetch returns and the price_history row is committed.
StoreTick ==
  /\ Suspended(Poll, "fetch")
  /\ LET tk == job[Poll].ticker
     IN  /\ fetched' = fetched \union {tk}
         /\ KeepTick(tk)
  /\ loop' = Poll
  /\ Goto(Poll, "detect")
  /\ UNCHANGED <<socketVars, bcast, job, queue, ok, beat, cycles, samples,
                 alertVars, cooldown, clockVars>>

StoreTickFails ==
  /\ Suspended(Poll, "fetch")
  /\ fetched' = fetched \union {job[Poll].ticker}
  /\ LeaveTicker(0)
  /\ UNCHANGED <<socketVars, bcast, tickVars, alertVars, cooldown, clockVars>>

\* check_anomaly commits the updated baseline; a tick is anomalous only if
\* the baseline has enough samples.  The price_update broadcast begins.
Detect ==
  /\ Running(Poll, "detect")
  /\ LET tk == job[Poll].ticker
     IN  /\ FoldTick(tk)
         /\ \E anomaly \in BOOLEAN :
              /\ anomaly => Warm(samples'[tk])
              /\ job' = [job EXCEPT ![Poll] =
                           [ticker |-> tk, kind |-> "signal", anomaly |-> anomaly,
                            cool |-> cooldown, id |-> 0]]
  /\ BeginBroadcast(Poll)
  /\ Goto(Poll, "tick")
  /\ UNCHANGED <<loop, socketVars, pollVars, history, alertVars, cooldown, clockVars>>

\* The commit raises, or the baseline cannot be read back after it.
DetectFails ==
  /\ Running(Poll, "detect")
  /\ FoldTick(job[Poll].ticker) \/ UNCHANGED samples
  /\ LeaveTicker(0)
  /\ UNCHANGED <<socketVars, bcast, fetched, history, alertVars, cooldown, clockVars>>

SignalKey == <<job[Poll].ticker, "signal">>

\* Mutant of Alarming: should_alert is not asked.
AlarmingAlways == job[Poll].anomaly

Alarming == job[Poll].anomaly /\ ShouldAlert(SignalKey, job[Poll].cool)

\* No alert: process_price returns and the second reading is awaited.
Suppress ==
  /\ Running(Poll, "decide")
  /\ ~Alarming
  /\ Goto(Poll, "recon")
  /\ loop' = NoTask
  /\ UNCHANGED <<socketVars, bcast, job, pollVars, tickVars, alertVars, cooldown, clockVars>>

AlertSignal ==
  /\ Running(Poll, "decide")
  /\ Alarming
  /\ Announce(Poll, SignalKey, job[Poll].cool, samples[job[Poll].ticker])

AlertSignalFails ==
  /\ Running(Poll, "decide")
  /\ Alarming
  /\ StoreFails(Poll, SignalKey, job[Poll].cool, samples[job[Poll].ticker])

----------------------------------------------------------------------------
(* check_reconciliation.                                                   *)

ReconKey == <<job[Poll].ticker, "reconciliation">>

\* No second reading, or one within tolerance, or one in its cooldown.
ReconQuiet ==
  /\ Suspended(Poll, "recon")
  /\ LeaveTicker(1)
  /\ UNCHANGED <<socketVars, bcast, fetched, tickVars, alertVars, cooldown, clockVars>>

AlertMismatch ==
  /\ Suspended(Poll, "recon")
  /\ ShouldAlert(ReconKey, cooldown)
  /\ Announce(Poll, ReconKey, cooldown, 0)

AlertMismatchFails ==
  /\ Suspended(Poll, "recon")
  /\ ShouldAlert(ReconKey, cooldown)
  /\ StoreFails(Poll, ReconKey, cooldown, 0)

\* The configuration cannot be read, or the primary price is zero.
ReconFails ==
  /\ Suspended(Poll, "recon")
  /\ LeaveTicker(0)
  /\ UNCHANGED <<socketVars, bcast, fetched, tickVars, alertVars, cooldown, clockVars>>

----------------------------------------------------------------------------
(* trigger_test_alert: should_alert is not asked.  A request that is       *)
(* refused, for too few samples, changes nothing.                          *)

MayTest(t, tk) ==
  /\ t \in Admins
  /\ Suspended(t, "idle")
  /\ Warm(samples[tk])

TestAlert(t) ==
  \E tk \in Tickers : MayTest(t, tk) /\ Announce(t, <<tk, "signal">>, cooldown, 0)

TestAlertFails(t) ==
  \E tk \in Tickers : MayTest(t, tk) /\ StoreFails(t, <<tk, "signal">>, cooldown, 0)

----------------------------------------------------------------------------
(* Broadcasts and Slack, for every task.                                   *)

BcastReturns(t) ==
  /\ EndBroadcast(t)
  /\ \/ pc[t] = "tick" /\ Goto(t, "decide") /\ UNCHANGED loop
     \/ pc[t] = "announce" /\ Goto(t, "slack") /\ loop' = NoTask
  /\ UNCHANGED <<job, pollVars, tickVars, alertVars, cooldown, clockVars>>

BcastRaises(t) ==
  /\ IterationBreaks(t)
  /\ Abort(t)
  /\ UNCHANGED <<fetched, tickVars, alertVars, cooldown, clockVars>>

BcastSends(t) ==
  /\ \/ \E c \in Clients : SendNext(t, c)
     \/ SendReturns(t)
  /\ UNCHANGED svars

\* notify_slack returns, whatever became of the post.
SlackReturns(t) ==
  /\ Suspended(t, "slack")
  /\ \/ /\ t = Poll /\ job[t].kind = "signal"
        /\ Goto(t, "recon")
        /\ UNCHANGED <<loop, job, queue, ok, beat, cycles>>
     \/ t = Poll /\ job[t].kind = "reconciliation" /\ LeaveTicker(1)
     \/ t # Poll /\ Answer(t)
  /\ UNCHANGED <<socketVars, bcast, fetched, tickVars, alertVars, cooldown, clockVars>>

\* Mutant of TimesOut: a heartbeat that says "fail" is never through.
TimesOutWell == beat = "ok"

\* Both posts to Pulse have a timeout.
TimesOut == TRUE

\* Heartbeat and metrics are posted, or time out.
ReportReturns ==
  /\ Suspended(Poll, "report")
  /\ TimesOut
  /\ Goto(Poll, "idle")
  /\ beat' = "none"
  /\ UNCHANGED <<bvars, job, queue, ok, fetched, cycles, tickVars, alertVars,
                 cooldown, clockVars>>

----------------------------------------------------------------------------
(* The environment.                                                        *)

\* POST /config runs on a thread of its own: the loop may be busy.
PostConfig ==
  /\ \E c \in Cooldowns \ {cooldown} : cooldown' = c
  /\ UNCHANGED <<bvars, pc, job, pollVars, tickVars, alertVars, clockVars>>

Advance ==
  /\ now < MaxTime
  /\ now' = now + 1
  /\ UNCHANGED <<bvars, pc, job, pollVars, tickVars, alertVars, cooldown, epoch>>

\* The process dies and is started again on the same database.
Crash ==
  /\ epoch < MaxEpoch
  /\ epoch' = epoch + 1
  /\ loop' = NoTask
  /\ connections' = {}
  /\ sock' = [c \in Clients |-> "closed"]
  /\ bcast' = [t \in Tasks |-> Quiet]
  /\ pc' = [t \in Tasks |-> "idle"]
  /\ job' = [t \in Tasks |-> NoJob]
  /\ queue' = {} /\ ok' = 0 /\ fetched' = {} /\ beat' = "none"
  /\ lastAlertAt' = [k \in Keys |-> Never]
  /\ UNCHANGED <<joins, cycles, tickVars, alerts, cooldown, now>>

----------------------------------------------------------------------------
PollNext ==
  \/ FetchFails \/ StoreTick \/ StoreTickFails
  \/ Detect \/ DetectFails
  \/ Suppress \/ AlertSignal \/ AlertSignalFails
  \/ ReconQuiet \/ AlertMismatch \/ AlertMismatchFails \/ ReconFails
  \/ ReportReturns

TaskNext(t) ==
  \/ t = Poll /\ PollNext
  \/ BcastSends(t) \/ BcastReturns(t) \/ BcastRaises(t) \/ SlackReturns(t)

Next ==
  \/ PollStart
  \/ \E t \in Tasks : TestAlert(t) \/ TestAlertFails(t) \/ TaskNext(t)
  \/ SocketNext /\ UNCHANGED svars
  \/ PostConfig \/ Advance \/ Crash

Spec == Init /\ [][Next]_vars

\* A task that is ready again and again is resumed; every await has a
\* timeout (fetches, Slack, Pulse) or the keep-alive of the socket.
FairSpec == Spec /\ \A t \in Tasks : SF_vars(TaskNext(t))

----------------------------------------------------------------------------
(* Properties.                                                             *)

TypeOK ==
  /\ BTypeOK
  /\ pc \in [Tasks -> Places]
  /\ job \in [Tasks -> Job]
  /\ queue \in SUBSET Tickers
  /\ ok \in Nat
  /\ fetched \in SUBSET Tickers
  /\ beat \in {"none", "ok", "fail"}
  /\ cycles \in 0..MaxCycles
  /\ history \in [Tickers -> Nat]
  /\ samples \in [Tickers -> Nat]
  /\ alerts \in Seq(Row)
  /\ cooldown \in Cooldowns
  /\ lastAlertAt \in [Keys -> Nat \union {Never}]
  /\ now \in Nat
  /\ epoch \in Nat

\* After an alert under a key, test alert or real, no real alert is admitted
\* under that key before the cooldown it was checked against has passed:
\* whatever the sends, the posts, the test requests and the changes of the
\* configuration between should_alert and record_alert.  Per process: the
\* dictionary dies with it.
CooldownSilence ==
  \A i, j \in DOMAIN alerts :
    /\ i < j
    /\ alerts[i].key = alerts[j].key
    /\ alerts[i].epoch = alerts[j].epoch
    /\ alerts[i].told
    /\ ~alerts[j].test
    => alerts[j].at - alerts[i].at >= alerts[j].cool

\* An anomaly is passed over in silence only on account of an alert that was
\* stored, and whose broadcast this process began, within the cooldown that was
\* read for the tick: never of one whose commit failed, or whose row could not
\* be read back, nor of one of an earlier process.
SilenceHasCause ==
  [][pc[Poll] = "decide" /\ pc'[Poll] = "recon" /\ job[Poll].anomaly =>
       \E i \in DOMAIN alerts :
         /\ alerts[i].key = SignalKey
         /\ alerts[i].epoch = epoch
         /\ alerts[i].told
         /\ now - alerts[i].at < job[Poll].cool]_vars

\* One sample of a ticker raises one signal alert at most, also with a
\* cooldown of zero and over crashes and failed commits: a later real alert
\* comes from a later sample.
TickAlertsOnce ==
  \A i, j \in DOMAIN alerts :
    /\ i < j
    /\ alerts[i].key = alerts[j].key
    /\ alerts[i].key[2] = "signal"
    /\ ~alerts[i].test /\ ~alerts[j].test
    => alerts[i].tick < alerts[j].tick

\* No alert stands on a baseline that was too young when it was raised.
AlertsAreWarm ==
  \A i \in DOMAIN alerts :
    alerts[i].key[2] = "signal" /\ ~alerts[i].test =>
      MinSamples < alerts[i].tick /\ alerts[i].tick <= samples[alerts[i].key[1]]

\* Each sample of the baseline has its price_history row, wherever a crash
\* or a failed commit fell.
BaselineHasHistory == \A tk \in Tickers : samples[tk] <= history[tk]

\* The cycle never counts as good a ticker it could not fetch, and says
\* "fail" when it could fetch none.
HeartbeatHonest ==
  /\ ok <= Cardinality(fetched)
  /\ beat = "ok" => fetched # {}

\* Every poll cycle and every test request comes to its end, with broadcasts
\* that break and commits that fail on the way.
TasksEnd == \A t \in Tasks : pc[t] # "idle" ~> pc[t] = "idle"

\* One ticker's failure does not take down the cycle: each of the cycle's
\* tickers gets its turn, unless the process dies.
EachGetsItsTurn ==
  \A tk \in Tickers : \A e \in 0..MaxEpoch :
    tk \in queue /\ epoch = e ~>
      \/ pc[Poll] = "fetch" /\ job[Poll].ticker = tk
      \/ epoch # e

\* The dictionary of last times implements the debounce that remembers every
\* alert.
Fired == {[key |-> alerts[i].key, at |-> alerts[i].at, cool |-> alerts[i].cool,
           forced |-> alerts[i].test] :
            i \in {n \in DOMAIN alerts : alerts[n].told /\ alerts[n].epoch = epoch}}

D == INSTANCE Debounce WITH fired <- Fired, Cooldowns <- Cooldowns \union {0}

DebounceSpec == D!Spec

\* A test alert is "stored, broadcast, Slack-notified" (trigger_test_alert's
\* docstring), and so is a real one: what was stored goes on to Slack, however
\* many of its sends fail.  The only things that stop it are a crash and a
\* browser that joins or leaves during the broadcast.
AlertsReachSlack ==
  [][\A t \in Tasks : pc[t] = "announce" /\ pc'[t] # "announce" =>
       pc'[t] = "slack" \/ epoch' # epoch \/ bcast[t].churn]_vars
=============================================================================
