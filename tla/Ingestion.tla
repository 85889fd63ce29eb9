----------------------------- MODULE Ingestion ------------------------------
(***************************************************************************)
(* How prices and lookups are fetched: fetch_latest_price with its cache   *)
(* and its retries, the single-shot lookups (the second price reading, the *)
(* chart and the fundamentals of the dashboard), and the counts of what    *)
(* was fetched that go to Pulse (app/ingestion.py, app/ticker_info.py,     *)
(* app/cache.py, app/rate_limiter.py, app/pulse.py), over the token bucket *)
(* of module RateLimiter.                                                  *)
(*                                                                         *)
(* Coroutines run on the event loop, one at a time; the provider is called *)
(* on worker threads.  `loop' is the task that is in the middle of a       *)
(* section of the event loop which takes _counts_lock, a lock the threads  *)
(* take as well.                                                           *)
(***************************************************************************)
EXTENDS RateLimiter, FiniteSets

CONSTANTS
  Reporter,     \* the poll job, which flushes the counts
  Tickers,
  TTL,          \* price_cache_ttl_seconds, in ticks
  MaxAttempts,  \* of with_backoff
  MaxOwed       \* bound: readings that no flush has reported yet

ASSUME IngestionAssumption ==
  /\ Reporter \in Tasks
  /\ Tickers # {}
  /\ TTL \in Nat
  /\ MaxAttempts \in Nat \ {0}
  /\ MaxOwed \in Nat \ {0}

VARIABLES
  pc,         \* where each task is
  fetch,      \* what it fetches: a ticker's price, or another lookup
  cache,      \* age of each ticker's entry in price_cache; Stale: none, or past its TTL
  loop,       \* see above
  countLock,  \* who holds _counts_lock
  counts,     \* source_counts, all sources together
  local,      \* what a task has read of it while it holds the lock
  owed,       \* history: readings the provider gave that no flush has reported
  calls       \* history: calls to the provider within the last w ticks

countVars == <<countLock, counts, local>>
ivars == <<pc, fetch, cache, loop, countVars, owed, calls>>
vars == <<lvars, ivars>>

Stale == TTL + 1

Places == {"idle", "acquire", "quote", "fast_info", "chart", "backoff", "lookup",
           "calendar", "count", "increment", "return", "clear"}

Fetch == [price : BOOLEAN, ticker : Tickers, attempt : 0..(MaxAttempts - 1)]

Init ==
  /\ LInit
  /\ pc = [t \in Tasks |-> "idle"]
  /\ fetch \in [Tasks -> {f \in Fetch : f.price /\ f.attempt = 0}]
  /\ cache = [tk \in Tickers |-> Stale]
  /\ loop = NoTask
  /\ countLock = NoTask /\ counts = 0 /\ local = [t \in Tasks |-> 0]
  /\ owed = 0
  /\ calls = B!NoneRecent

Goto(t, place) == pc' = [pc EXCEPT ![t] = place]

\* A step of a coroutine, from one await to the next.
OnLoop(t, place) == pc[t] = place /\ loop = NoTask

\* acquire() has returned (the worker thread starts) or it is awaited.
Proceed(t, price) ==
  Goto(t, IF wait'[t] # "no" THEN "acquire" ELSE IF price THEN "quote" ELSE "lookup")

----------------------------------------------------------------------------
(* The coroutines.                                                         *)

\* fetch_latest_price on a cache miss; an expired entry is deleted.  (On a
\* hit it returns what the cache has, and nothing changes.)
FetchPrice(t, tk) ==
  /\ OnLoop(t, "idle")
  /\ cache[tk] = Stale
  /\ Acquire(t)
  /\ fetch' = [fetch EXCEPT ![t] = [price |-> TRUE, ticker |-> tk, attempt |-> 0]]
  /\ Proceed(t, TRUE)
  /\ UNCHANGED <<cache, loop, countVars, owed, calls>>

\* fetch_reconciliation_price, fetch_history, fetch_fundamentals.
FetchOther(t) ==
  /\ OnLoop(t, "idle")
  /\ Acquire(t)
  /\ fetch' = [fetch EXCEPT ![t].price = FALSE]
  /\ Proceed(t, FALSE)
  /\ UNCHANGED <<cache, loop, countVars, owed, calls>>

\* acquire() goes on.
Continue(t) ==
  /\ OnLoop(t, "acquire")
  /\ Resume(t)
  /\ Proceed(t, fetch[t].price)
  /\ UNCHANGED <<fetch, cache, loop, countVars, owed, calls>>

\* Mutant of Exhausted: one attempt too many.
ExhaustedLate(t) == fetch[t].attempt = MaxAttempts

Exhausted(t) == fetch[t].attempt = MaxAttempts - 1

\* Mutant of NextAttempt: the attempts are not counted.
NextAttemptSame(t) == fetch[t].attempt

NextAttempt(t) == fetch[t].attempt + 1

\* with_backoff: an attempt has failed.
Backoff(t) ==
  IF Exhausted(t)
  THEN /\ Goto(t, "idle")
       /\ UNCHANGED <<fetch, timer>>
  ELSE /\ Goto(t, "backoff")
       /\ fetch' = [fetch EXCEPT ![t].attempt = NextAttempt(t)]
       /\ \E jitter \in 0..1 :
            timer' = [timer EXCEPT ![t] = 2 ^ fetch[t].attempt + jitter]

Retry(t) ==
  /\ OnLoop(t, "backoff")
  /\ timer[t] = 0
  /\ Goto(t, "quote")
  /\ UNCHANGED <<lvars, fetch, cache, loop, countVars, owed, calls>>

\* The price has come: it is cached and returned.
Return(t) ==
  /\ OnLoop(t, "return")
  /\ cache' = [cache EXCEPT ![fetch[t].ticker] = 0]
  /\ Goto(t, "idle")
  /\ UNCHANGED <<lvars, fetch, loop, countVars, owed, calls>>

----------------------------------------------------------------------------
(* The worker threads.                                                     *)

CallProvider == calls' = B!OneMore(calls)

\* The provider answers; what it gave is to be counted.
Answered(t) ==
  /\ owed < MaxOwed
  /\ owed' = owed + 1
  /\ Goto(t, "count")

\* The quote endpoint answers, where a quote without a bid and an ask takes the
\* last price from another, or the chart endpoint is tried.
Quote(t) ==
  /\ pc[t] \in {"quote", "fast_info"}
  /\ CallProvider
  /\ \/ Answered(t)
     \/ pc[t] = "quote" /\ Goto(t, "fast_info") /\ UNCHANGED owed
     \/ Goto(t, "chart") /\ UNCHANGED owed
  /\ UNCHANGED <<lvars, fetch, cache, loop, countVars>>

Chart(t) ==
  /\ pc[t] = "chart"
  /\ CallProvider
  /\ \/ Answered(t) /\ UNCHANGED <<fetch, timer>>
     \/ Backoff(t) /\ UNCHANGED owed
  /\ UNCHANGED <<bucketVars, holder, waiters, wait, cache, loop, countVars>>

\* A lookup is not retried: None is returned, or the exception goes on.  The
\* fundamentals are two calls, the dividends and the calendar; either may fail,
\* and they are counted all the same (unless MaxOwed is reached).
Lookup(t) ==
  /\ pc[t] \in {"lookup", "calendar"}
  /\ CallProvider
  /\ \/ Answered(t)
     \/ pc[t] = "lookup" /\ Goto(t, "calendar") /\ UNCHANGED owed
     \/ (pc[t] = "lookup" \/ owed = MaxOwed) /\ Goto(t, "idle") /\ UNCHANGED owed
  /\ UNCHANGED <<lvars, fetch, cache, loop, countVars>>

----------------------------------------------------------------------------
(* Pulse's counts.  A price is counted by the thread that fetched it, any  *)
(* other lookup by its coroutine.                                          *)

\* Mutant of TakeLock: `with _counts_lock' is missing.
TakeLockNot(t) == UNCHANGED countLock

TakeLock(t) == countLock = NoTask /\ countLock' = t

\* _counts_lock is taken and the counter read.
LockCounts(t) ==
  /\ TakeLock(t)
  /\ local' = [local EXCEPT ![t] = counts]
  /\ UNCHANGED counts

\* The counter is written and the lock released.
UnlockCounts(t, n) ==
  /\ counts' = n
  /\ countLock' = NoTask
  /\ local' = [local EXCEPT ![t] = 0]

\* record_source.
RecordSource(t) ==
  /\ pc[t] = "count"
  /\ IF fetch[t].price THEN UNCHANGED loop ELSE loop = NoTask /\ loop' = t
  /\ LockCounts(t)
  /\ Goto(t, "increment")
  /\ UNCHANGED <<lvars, fetch, cache, owed, calls>>

SourceRecorded(t) ==
  /\ pc[t] = "increment"
  /\ UnlockCounts(t, local[t] + 1)
  /\ IF fetch[t].price
     THEN Goto(t, "return") /\ UNCHANGED loop
     ELSE Goto(t, "idle") /\ loop' = NoTask
  /\ UNCHANGED <<lvars, fetch, cache, owed, calls>>

\* flush_metrics copies the counts and clears them; whether the post of the
\* copy succeeds makes no difference.
FlushMetrics(t) ==
  /\ t = Reporter
  /\ OnLoop(t, "idle")
  /\ LockCounts(t)
  /\ loop' = t
  /\ Goto(t, "clear")
  /\ UNCHANGED <<lvars, fetch, cache, owed, calls>>

MetricsFlushed(t) ==
  /\ pc[t] = "clear"
  /\ UnlockCounts(t, 0)
  /\ owed' = owed - local[t]
  /\ loop' = NoTask
  /\ Goto(t, "idle")
  /\ UNCHANGED <<lvars, fetch, cache, calls>>

----------------------------------------------------------------------------
\* The clock.
Tick ==
  /\ LTick
  /\ cache' = [tk \in Tickers |-> IF cache[tk] = Stale THEN Stale ELSE cache[tk] + 1]
  /\ calls' = B!Aged(calls)
  /\ UNCHANGED <<pc, fetch, loop, countVars, owed>>

TaskStep(t) ==
  \/ Continue(t) \/ Retry(t) \/ Return(t)
  \/ Quote(t) \/ Chart(t) \/ Lookup(t)
  \/ RecordSource(t) \/ SourceRecorded(t) \/ MetricsFlushed(t)

Next ==
  \/ Tick
  \/ \E t \in Tasks :
       \/ \E tk \in Tickers : FetchPrice(t, tk)
       \/ FetchOther(t)
       \/ FlushMetrics(t)
       \/ TaskStep(t)

Spec == Init /\ [][Next]_vars

\* Time passes.  The event loop and the operating system let every task and
\* thread go on that can again and again; the provider's client has timeouts.
FairSpec == Spec /\ WF_vars(Tick) /\ \A t \in Tasks : SF_vars(TaskStep(t))

----------------------------------------------------------------------------
(* Properties.                                                             *)

TypeOK ==
  /\ LTypeOK
  /\ pc \in [Tasks -> Places]
  /\ fetch \in [Tasks -> Fetch]
  /\ cache \in [Tickers -> 0..Stale]
  /\ loop \in Tasks \union {NoTask}
  /\ countLock \in Tasks \union {NoTask}
  /\ counts \in Nat
  /\ local \in [Tasks -> Nat]
  /\ owed \in 0..MaxOwed
  /\ calls \in [0..Window -> Nat]

\* Every reading the provider gave is counted once and reported once, however
\* the increments of the threads and the flush of the event loop fall
\* together: it is in the counter, or on its way there, until a flush takes it.
EachCountedOnce ==
  owed = counts + Cardinality({t \in Tasks : pc[t] \in {"count", "increment"}})

\* Every fetch comes to its end, with a price, without one or by an exception.
FetchEnds == \A t \in Tasks : pc[t] # "idle" ~> pc[t] = "idle"

\* "shared token bucket - one budget across all OpenBB/yfinance calls"
\* (ticker_info.py): the calls of any w ticks are no more than a full bucket
\* and what flows in meanwhile.
CallsArePaced ==
  \A w \in 0..Window : RefillTime * calls[w] <= B!Full + w
=============================================================================
