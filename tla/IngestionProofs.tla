-------------------------- MODULE IngestionProofs ---------------------------
(***************************************************************************)
(* Proofs about fetching for every number of tasks and tickers, every      *)
(* capacity, refill rate and number of attempts.  The inductive invariant  *)
(* has three parts beside the types: who is inside acquire() is where the  *)
(* task says it is, so that a retry's timer is nobody's acquire() timer;   *)
(* whoever has read the counter holds its lock, and it has not changed     *)
(* since; and what the provider gave is in the counter or on its way.      *)
(***************************************************************************)
EXTENDS Ingestion, RateLimiterProofs, FiniteSetTheorems

Counting == {t \in Tasks : pc[t] \in {"count", "increment"}}

\* Only a task that awaits acquire() is inside it.
WaitInv == \A t \in Tasks : wait[t] # "no" => pc[t] = "acquire"

\* Between the read and the write of the counter its lock is held.
LockInv ==
  \A t \in Tasks : pc[t] \in {"increment", "clear"} =>
    countLock = t /\ local[t] = counts

CountInv ==
  /\ IsFiniteSet(Counting)
  /\ owed = counts + Cardinality(Counting)

FetchInv == TypeOK /\ SleepInv /\ WaitInv /\ LockInv /\ CountInv

\* A delay of with_backoff is a number of ticks: 2^n counts the subsets of a
\* set of n elements.
LEMMA PowerOfTwo == ASSUME NEW n \in Nat PROVE 2 ^ n \in Nat
<1>1. IsFiniteSet(1..n) /\ Cardinality(1..n) = n
  BY FS_Interval
<1>2. Cardinality(SUBSET (1..n)) = 2 ^ Cardinality(1..n)
  BY <1>1, FS_SUBSET
<1>3. Cardinality(SUBSET (1..n)) \in Nat
  BY <1>1, FS_SUBSET, FS_CardinalityType
<1> QED BY <1>1, <1>2, <1>3

\* The initial states satisfy the invariant.
LEMMA FetchInit == Init => FetchInv
<1> SUFFICES ASSUME Init
             PROVE  FetchInv
  OBVIOUS
<1> USE DEF Init
<1>1. LTypeOK /\ SleepInv
  BY LimiterInit
<1>2. Counting = {}
  BY DEF Counting
<1>3. CountInv
  BY <1>2, FS_EmptySet DEF CountInv
<1>4. WaitInv /\ LockInv
  BY DEF LInit, WaitInv, LockInv
<1>5. TypeOK
  BY <1>1, IngestionAssumption, LimiterAssumption
     DEF TypeOK, Fetch, Places, Stale, B!NoneRecent
<1> QED BY <1>1, <1>3, <1>4, <1>5 DEF FetchInv

----------------------------------------------------------------------------
(* The limiter inside.                                                     *)

\* acquire() changes where nobody else is.
LEMMA AcquireKeepsOthers ==
  ASSUME LTypeOK, NEW t \in Tasks, Acquire(t) \/ Resume(t)
  PROVE  /\ wait' \in [Tasks -> {"no", "lock", "sleep"}]
         /\ \A u \in Tasks \ {t} : wait'[u] = wait[u]
BY DEF LTypeOK, Acquire, Resume, HandOver, WakeUp, Try, Grant, FallAsleep

\* A step of a fetch is a step of the limiter, or leaves it alone but for the
\* timer of a task that is not inside acquire().
LEMMA LimiterInside ==
  ASSUME FetchInv, [Next]_vars
  PROVE  \/ [LNext]_lvars
         \/ \E t \in Tasks : /\ wait[t] = "no"
                             /\ \E n \in Nat : timer' = [timer EXCEPT ![t] = n]
                             /\ UNCHANGED <<bucketVars, holder, waiters, wait>>
<1>1. ASSUME NEW t \in Tasks, pc[t] # "acquire"
      PROVE  wait[t] = "no"
  BY <1>1 DEF FetchInv, WaitInv
<1>2. CASE Tick
  BY <1>2 DEF Tick, LNext
<1>3. ASSUME NEW t \in Tasks, (\E tk \in Tickers : FetchPrice(t, tk)) \/ FetchOther(t)
      PROVE  LNext
  BY <1>1, <1>3 DEF FetchPrice, FetchOther, OnLoop, LNext, Call
<1>4. ASSUME NEW t \in Tasks, Continue(t)
      PROVE  LNext
  BY <1>4 DEF Continue, LNext
<1>5. ASSUME NEW t \in Tasks, Chart(t), ~(UNCHANGED timer)
      PROVE  /\ wait[t] = "no"
             /\ \E n \in Nat : timer' = [timer EXCEPT ![t] = n]
             /\ UNCHANGED <<bucketVars, holder, waiters, wait>>
  <2>1. fetch[t].attempt \in Nat
    BY IngestionAssumption DEF FetchInv, TypeOK, Fetch
  <2>2. 2 ^ fetch[t].attempt \in Nat
    BY <2>1, PowerOfTwo
  <2>3. PICK jitter \in 0..1 :
          timer' = [timer EXCEPT ![t] = 2 ^ fetch[t].attempt + jitter]
    BY <1>5 DEF Chart, Backoff
  <2>4. 2 ^ fetch[t].attempt + jitter \in Nat
    BY <2>2
  <2> QED BY <1>1, <1>5, <2>3, <2>4 DEF Chart
<1>6. ASSUME NEW t \in Tasks, Chart(t), UNCHANGED timer
      PROVE  UNCHANGED lvars
  BY <1>6 DEF Chart, lvars
<1>7. ASSUME NEW t \in Tasks,
             \/ Retry(t) \/ Return(t) \/ Quote(t) \/ Lookup(t)
             \/ RecordSource(t) \/ SourceRecorded(t)
             \/ FlushMetrics(t) \/ MetricsFlushed(t)
      PROVE  UNCHANGED lvars
  BY <1>7 DEF Retry, Return, Quote, Lookup, RecordSource, SourceRecorded,
              FlushMetrics, MetricsFlushed
<1>8. CASE UNCHANGED vars
  BY <1>8 DEF vars
<1> QED BY <1>2, <1>3, <1>4, <1>5, <1>6, <1>7, <1>8 DEF Next, TaskStep

\* The limiter's invariant holds among fetches too.
LEMMA LimiterInsideInv ==
  ASSUME FetchInv, [Next]_vars
  PROVE  LTypeOK' /\ SleepInv'
<1>1. LTypeOK /\ SleepInv
  BY DEF FetchInv, TypeOK
<1>2. CASE [LNext]_lvars
  BY <1>1, <1>2, LimiterStep
<1>3. ASSUME NEW t \in Tasks, NEW n \in Nat, wait[t] = "no",
             timer' = [timer EXCEPT ![t] = n],
             UNCHANGED <<bucketVars, holder, waiters, wait>>
      PROVE  LTypeOK' /\ SleepInv'
  <2>1. LTypeOK'
    BY <1>1, <1>3 DEF LTypeOK, bucketVars
  <2>2. \A u \in Tasks : wait[u] = "sleep" => timer'[u] = timer[u]
    BY <1>1, <1>3 DEF LTypeOK
  <2>3. SleepInv'
    BY <1>1, <1>3, <2>2 DEF SleepInv, bucketVars
  <2> QED BY <2>1, <2>3
<1> QED BY <1>2, <1>3, LimiterInside

----------------------------------------------------------------------------
(* Types.                                                                  *)

\* What a task fetches stays a fetch.
LEMMA FetchType ==
  ASSUME TypeOK, [Next]_vars
  PROVE  fetch' \in [Tasks -> Fetch]
<1>0. /\ fetch \in [Tasks -> Fetch]
      /\ MaxAttempts \in Nat /\ MaxAttempts >= 1
      /\ \A f \in Fetch : /\ f.price \in BOOLEAN /\ f.ticker \in Tickers
                          /\ f.attempt \in 0..(MaxAttempts - 1)
  BY IngestionAssumption DEF TypeOK, Fetch
<1>1. ASSUME NEW t \in Tasks, NEW tk \in Tickers, FetchPrice(t, tk)
      PROVE  fetch' \in [Tasks -> Fetch]
  BY <1>0, <1>1 DEF FetchPrice, Fetch
<1>2. ASSUME NEW t \in Tasks, FetchOther(t)
      PROVE  fetch' \in [Tasks -> Fetch]
  <2>1. [fetch[t] EXCEPT !.price = FALSE] \in Fetch
    BY <1>0 DEF Fetch
  <2>2. fetch' = [fetch EXCEPT ![t] = [fetch[t] EXCEPT !.price = FALSE]]
    BY <1>2 DEF FetchOther
  <2> QED BY <1>0, <2>1, <2>2
<1>3. ASSUME NEW t \in Tasks, Backoff(t), ~Exhausted(t)
      PROVE  fetch' \in [Tasks -> Fetch]
  <2>1. NextAttempt(t) \in 0..(MaxAttempts - 1)
    BY <1>0, <1>3 DEF NextAttempt, Exhausted
  <2>2. [fetch[t] EXCEPT !.attempt = NextAttempt(t)] \in Fetch
    BY <1>0, <2>1 DEF Fetch
  <2>3. fetch' = [fetch EXCEPT ![t] = [fetch[t] EXCEPT !.attempt = NextAttempt(t)]]
    BY <1>3 DEF Backoff
  <2> QED BY <1>0, <2>2, <2>3
<1>4. ASSUME NEW t \in Tasks, Chart(t)
      PROVE  fetch' \in [Tasks -> Fetch]
  <2>1. UNCHANGED fetch \/ Backoff(t)
    BY <1>4 DEF Chart
  <2>2. Exhausted(t) /\ Backoff(t) => UNCHANGED fetch
    BY DEF Backoff
  <2> QED BY <1>0, <1>3, <2>1, <2>2
<1>5. ASSUME \/ Tick \/ UNCHANGED vars
             \/ \E t \in Tasks : \/ Continue(t) \/ Retry(t) \/ Return(t)
                                 \/ Quote(t) \/ Lookup(t)
                                 \/ RecordSource(t) \/ SourceRecorded(t)
                                 \/ FlushMetrics(t) \/ MetricsFlushed(t)
      PROVE  UNCHANGED fetch
  BY <1>5 DEF Tick, vars, ivars, Continue, Retry, Return, Quote, Lookup, RecordSource,
              SourceRecorded, FlushMetrics, MetricsFlushed
<1> QED BY <1>0, <1>1, <1>2, <1>4, <1>5 DEF Next, TaskStep

\* The steps that have nothing to do with acquire().
Elsewhere(t) ==
  \/ Retry(t) \/ Return(t) \/ Quote(t) \/ Chart(t) \/ Lookup(t)
  \/ RecordSource(t) \/ SourceRecorded(t) \/ FlushMetrics(t) \/ MetricsFlushed(t)

\* They move the task from one place to another.
LEMMA MovesElsewhere ==
  ASSUME NEW t \in Tasks, Elsewhere(t)
  PROVE  /\ pc[t] # "acquire" /\ UNCHANGED wait
         /\ \E place \in Places : pc' = [pc EXCEPT ![t] = place]
<1>1. CASE Chart(t)
  <2>1. Answered(t) \/ Backoff(t)
    BY <1>1 DEF Chart
  <2>2. \E place \in Places : Goto(t, place)
    BY <2>1 DEF Answered, Backoff, Places
  <2> QED BY <1>1, <2>2 DEF Chart, Goto
<1>2. CASE Retry(t) \/ Return(t) \/ Quote(t) \/ Lookup(t)
  BY <1>2 DEF Retry, Return, Quote, Lookup, Answered, Goto, Places, OnLoop, lvars
<1>3. CASE RecordSource(t) \/ SourceRecorded(t) \/ FlushMetrics(t) \/ MetricsFlushed(t)
  BY <1>3 DEF RecordSource, SourceRecorded, FlushMetrics, MetricsFlushed, Goto, Places,
              OnLoop, lvars
<1> QED BY <1>1, <1>2, <1>3 DEF Elsewhere

\* Tasks stay in places, and only a task inside acquire() is inside it.
LEMMA WaitStep ==
  ASSUME FetchInv, [Next]_vars
  PROVE  pc' \in [Tasks -> Places] /\ WaitInv'
<1>0. /\ LTypeOK /\ WaitInv /\ pc \in [Tasks -> Places]
      /\ \A t \in Tasks : fetch[t].price \in BOOLEAN
  BY DEF FetchInv, TypeOK, Fetch
<1>1. ASSUME NEW t \in Tasks, NEW price \in BOOLEAN,
             Acquire(t) \/ Resume(t), Proceed(t, price)
      PROVE  pc' \in [Tasks -> Places] /\ WaitInv'
  <2>1. WaitInv'
    BY <1>0, <1>1, AcquireKeepsOthers DEF Proceed, Goto, WaitInv
  <2>2. pc' \in [Tasks -> Places]
    BY <1>0, <1>1 DEF Proceed, Goto, Places
  <2> QED BY <2>1, <2>2
<1>2. ASSUME NEW t \in Tasks,
             (\E tk \in Tickers : FetchPrice(t, tk)) \/ FetchOther(t) \/ Continue(t)
      PROVE  pc' \in [Tasks -> Places] /\ WaitInv'
  BY <1>0, <1>1, <1>2 DEF FetchPrice, FetchOther, Continue
<1>3. ASSUME NEW t \in Tasks, Elsewhere(t)
      PROVE  pc' \in [Tasks -> Places] /\ WaitInv'
  BY <1>0, <1>3, MovesElsewhere DEF WaitInv
<1>4. CASE Tick \/ UNCHANGED vars
  BY <1>0, <1>4 DEF Tick, LTick, vars, lvars, ivars, WaitInv
<1> QED BY <1>2, <1>3, <1>4 DEF Next, TaskStep, Elsewhere

----------------------------------------------------------------------------
(* The counts.                                                             *)

\* A step that moves a task from a place before or after the count to another
\* one leaves those who count alone.
LEMMA CountingSame ==
  ASSUME TypeOK, NEW t \in Tasks, NEW place \in Places, pc' = [pc EXCEPT ![t] = place],
         pc[t] \in {"count", "increment"} <=> place \in {"count", "increment"}
  PROVE  Counting' = Counting
BY DEF TypeOK, Counting

\* The provider has answered: one more counts.
LEMMA AnsweredCounts ==
  ASSUME FetchInv, NEW t \in Tasks, pc[t] \notin {"count", "increment"}, Answered(t),
         UNCHANGED countVars
  PROVE  owed' \in 0..MaxOwed /\ CountInv' /\ LockInv'
<1>0. /\ pc \in [Tasks -> Places] /\ owed \in 0..MaxOwed /\ counts \in Nat
      /\ IsFiniteSet(Counting) /\ owed = counts + Cardinality(Counting)
      /\ MaxOwed \in Nat
  BY IngestionAssumption DEF FetchInv, TypeOK, CountInv
<1>1. Counting' = Counting \cup {t}
  BY <1>0 DEF Answered, Goto, Counting
<1>2. t \notin Counting
  BY DEF Counting
<1>3. IsFiniteSet(Counting') /\ Cardinality(Counting') = Cardinality(Counting) + 1
  BY <1>0, <1>1, <1>2, FS_AddElement
<1>4. Cardinality(Counting) \in Nat
  BY <1>0, FS_CardinalityType
<1>5. CountInv'
  BY <1>0, <1>3, <1>4 DEF Answered, countVars, CountInv
<1>6. LockInv'
  BY <1>0 DEF Answered, Goto, countVars, FetchInv, LockInv
<1> QED BY <1>0, <1>5, <1>6 DEF Answered

\* A step that neither reads nor writes the counter, nor answers a call.
LEMMA UncountedStep ==
  ASSUME FetchInv, NEW t \in Tasks, NEW place \in Places, pc' = [pc EXCEPT ![t] = place],
         {pc[t], place} \cap {"count", "increment", "clear"} = {},
         UNCHANGED <<countVars, owed>>
  PROVE  CountInv' /\ LockInv'
<1>1. Counting' = Counting
  BY CountingSame DEF FetchInv
<1>2. CountInv'
  BY <1>1 DEF FetchInv, CountInv, countVars
<1>3. LockInv'
  BY DEF FetchInv, TypeOK, LockInv, countVars
<1> QED BY <1>2, <1>3

\* The counter is read: nobody else is between its read and its write.
LEMMA ReadCounts ==
  ASSUME FetchInv, NEW t \in Tasks, NEW place \in Places, pc' = [pc EXCEPT ![t] = place],
         pc[t] \in {"count", "increment"} <=> place \in {"count", "increment"},
         LockCounts(t), UNCHANGED owed
  PROVE  CountInv' /\ LockInv'
<1>1. CountInv'
  BY CountingSame DEF FetchInv, CountInv, LockCounts
<1>2. \A u \in Tasks : pc[u] \notin {"increment", "clear"}
  BY LimiterAssumption DEF FetchInv, LockInv, LockCounts, TakeLock
<1>3. LockInv'
  BY <1>2 DEF FetchInv, TypeOK, LockInv, LockCounts, TakeLock
<1> QED BY <1>1, <1>3

\* The lock is released: whoever held it moves on, and nobody else held it.
LEMMA Released ==
  ASSUME FetchInv, NEW t \in Tasks, NEW place \in Places \ {"increment", "clear"},
         pc[t] \in {"increment", "clear"}, pc' = [pc EXCEPT ![t] = place]
  PROVE  LockInv'
BY DEF FetchInv, TypeOK, LockInv

\* The counter is written back: it has not changed since it was read.
LEMMA WriteCounts ==
  ASSUME FetchInv, NEW t \in Tasks, SourceRecorded(t)
  PROVE  CountInv' /\ LockInv'
<1>0. /\ pc \in [Tasks -> Places] /\ counts \in Nat /\ local[t] = counts
      /\ IsFiniteSet(Counting) /\ owed = counts + Cardinality(Counting)
  BY DEF FetchInv, TypeOK, CountInv, LockInv, SourceRecorded
<1>1. PICK place \in {"return", "idle"} : pc' = [pc EXCEPT ![t] = place]
  BY DEF SourceRecorded, Goto
<1>2. Counting' = Counting \ {t} /\ t \in Counting
  BY <1>0, <1>1 DEF Counting, SourceRecorded
<1>3. IsFiniteSet(Counting') /\ Cardinality(Counting') = Cardinality(Counting) - 1
  BY <1>0, <1>2, FS_RemoveElement
<1>4. Cardinality(Counting) \in Nat
  BY <1>0, FS_CardinalityType
<1>5. counts' = counts + 1 /\ UNCHANGED owed
  BY <1>0 DEF SourceRecorded, UnlockCounts
<1>6. CountInv'
  BY <1>0, <1>3, <1>4, <1>5 DEF CountInv
<1>7. LockInv'
  BY <1>1, Released DEF SourceRecorded, Places
<1> QED BY <1>6, <1>7

\* The counter is cleared: what the flush has read is all there was, and no
\* increment fell between its read and its write.
LEMMA ClearCounts ==
  ASSUME FetchInv, NEW t \in Tasks, MetricsFlushed(t)
  PROVE  owed' \in 0..MaxOwed /\ CountInv' /\ LockInv'
<1>0. /\ pc \in [Tasks -> Places] /\ counts \in Nat /\ local[t] = counts
      /\ owed \in 0..MaxOwed /\ MaxOwed \in Nat
      /\ IsFiniteSet(Counting) /\ owed = counts + Cardinality(Counting)
  BY IngestionAssumption DEF FetchInv, TypeOK, CountInv, LockInv, MetricsFlushed
<1>1. pc' = [pc EXCEPT ![t] = "idle"] /\ pc[t] = "clear"
  BY DEF MetricsFlushed, Goto
<1>2. Counting' = Counting
  BY <1>0, <1>1 DEF Counting
<1>3. Cardinality(Counting) \in Nat
  BY <1>0, FS_CardinalityType
<1>4. counts' = 0 /\ owed' = owed - counts
  BY <1>0 DEF MetricsFlushed, UnlockCounts
<1>5. CountInv' /\ owed' \in 0..MaxOwed
  BY <1>0, <1>2, <1>3, <1>4 DEF CountInv
<1>6. LockInv'
  BY <1>1, Released DEF Places
<1> QED BY <1>5, <1>6

\* Every step keeps the counter, its lock and what the provider gave together.
LEMMA CountStep ==
  ASSUME FetchInv, [Next]_vars
  PROVE  owed' \in 0..MaxOwed /\ CountInv' /\ LockInv'
<1>0. owed \in 0..MaxOwed /\ \A t \in Tasks : fetch[t].price \in BOOLEAN
  BY DEF FetchInv, TypeOK, Fetch
<1> DEFINE Goal == owed' \in 0..MaxOwed /\ CountInv' /\ LockInv'
<1>1. ASSUME NEW t \in Tasks,
             (\E tk \in Tickers : FetchPrice(t, tk)) \/ FetchOther(t) \/ Continue(t)
      PROVE  Goal
  <2>1. PICK place \in {"acquire", "quote", "lookup"} : pc' = [pc EXCEPT ![t] = place]
    BY <1>1 DEF FetchPrice, FetchOther, Continue, Proceed, Goto
  <2>2. pc[t] \in {"idle", "acquire"} /\ UNCHANGED <<countVars, owed>>
    BY <1>1 DEF FetchPrice, FetchOther, Continue, OnLoop
  <2> QED BY <1>0, <2>1, <2>2, UncountedStep DEF Places
<1>2. ASSUME NEW t \in Tasks, Retry(t) \/ Return(t)
      PROVE  Goal
  <2>1. PICK place \in {"quote", "idle"} : pc' = [pc EXCEPT ![t] = place]
    BY <1>2 DEF Retry, Return, Goto
  <2>2. pc[t] \in {"backoff", "return"} /\ UNCHANGED <<countVars, owed>>
    BY <1>2 DEF Retry, Return, OnLoop
  <2> QED BY <1>0, <2>1, <2>2, UncountedStep DEF Places
<1>3. ASSUME NEW t \in Tasks, Quote(t) \/ Chart(t) \/ Lookup(t)
      PROVE  Goal
  <2>1. /\ pc[t] \in {"quote", "fast_info", "chart", "lookup", "calendar"}
        /\ UNCHANGED countVars
    BY <1>3 DEF Quote, Chart, Lookup
  <2>2. CASE Answered(t)
    BY <2>1, <2>2, AnsweredCounts
  <2>3. CASE ~Answered(t)
    <3> DEFINE further == {"fast_info", "chart", "calendar", "idle", "backoff"}
    <3>1. UNCHANGED owed /\ ((\E place \in further : Goto(t, place)) \/ Backoff(t))
      BY <1>3, <2>3 DEF Quote, Chart, Lookup
    <3>2. Backoff(t) => Goto(t, "idle") \/ Goto(t, "backoff")
      BY DEF Backoff
    <3>3. UNCHANGED owed /\ \E place \in further : Goto(t, place)
      BY <3>1, <3>2
    <3>4. PICK place \in further : pc' = [pc EXCEPT ![t] = place]
      BY <3>3 DEF Goto
    <3>5. place \in Places /\ {pc[t], place} \cap {"count", "increment", "clear"} = {}
      BY <2>1, <3>4 DEF Places
    <3>6. UNCHANGED <<countVars, owed>>
      BY <2>1, <3>1
    <3>7. CountInv' /\ LockInv'
      BY <3>4, <3>5, <3>6, UncountedStep
    <3> QED BY <1>0, <3>1, <3>7
  <2> QED BY <2>2, <2>3
<1>4. ASSUME NEW t \in Tasks, RecordSource(t)
      PROVE  Goal
  BY <1>0, <1>4, ReadCounts DEF RecordSource, Goto, Places
<1>5. ASSUME NEW t \in Tasks, FlushMetrics(t)
      PROVE  Goal
  BY <1>0, <1>5, ReadCounts DEF FlushMetrics, OnLoop, Goto, Places
<1>6. ASSUME NEW t \in Tasks, SourceRecorded(t)
      PROVE  Goal
  BY <1>0, <1>6, WriteCounts DEF SourceRecorded
<1>7. ASSUME NEW t \in Tasks, MetricsFlushed(t)
      PROVE  Goal
  BY <1>7, ClearCounts
<1>8. CASE Tick \/ UNCHANGED vars
  <2>1. UNCHANGED <<pc, countVars, owed>>
    BY <1>8 DEF Tick, vars, ivars
  <2>2. Counting' = Counting
    BY <2>1 DEF Counting
  <2> QED BY <1>0, <2>1, <2>2 DEF FetchInv, CountInv, LockInv, countVars
<1> QED BY <1>1, <1>2, <1>3, <1>4, <1>5, <1>6, <1>7, <1>8 DEF Next, TaskStep

----------------------------------------------------------------------------
(* All together.                                                           *)

\* The counter, its lock, the cache and the window keep their types.
LEMMA RestTypes ==
  ASSUME FetchInv, [Next]_vars
  PROVE  /\ cache' \in [Tickers -> 0..Stale]
         /\ loop' \in Tasks \union {NoTask} /\ countLock' \in Tasks \union {NoTask}
         /\ counts' \in Nat /\ local' \in [Tasks -> Nat]
         /\ calls' \in [0..Window -> Nat]
<1> DEFINE CountTypes == /\ loop' \in Tasks \union {NoTask}
                         /\ countLock' \in Tasks \union {NoTask}
                         /\ counts' \in Nat /\ local' \in [Tasks -> Nat]
           OtherTypes == cache' \in [Tickers -> 0..Stale] /\ calls' \in [0..Window -> Nat]
<1>0. /\ cache \in [Tickers -> 0..Stale] /\ calls \in [0..Window -> Nat]
      /\ loop \in Tasks \union {NoTask} /\ countLock \in Tasks \union {NoTask}
      /\ counts \in Nat /\ local \in [Tasks -> Nat]
      /\ fetch \in [Tasks -> Fetch]
      /\ Stale \in Nat /\ Window \in Nat
  BY LimiterAssumption, IngestionAssumption DEF FetchInv, TypeOK, Stale
<1>1. ASSUME NEW t \in Tasks,
             \/ (\E tk \in Tickers : FetchPrice(t, tk)) \/ FetchOther(t)
             \/ Continue(t) \/ Retry(t)
      PROVE  UNCHANGED <<cache, loop, countVars, calls>>
  BY <1>1 DEF FetchPrice, FetchOther, Continue, Retry
<1>2. ASSUME NEW t \in Tasks, Return(t)
      PROVE  CountTypes /\ OtherTypes
  <2>1. cache' = [cache EXCEPT ![fetch[t].ticker] = 0] /\ 0 \in 0..Stale
    BY <1>0, <1>2 DEF Return
  <2>2. cache' \in [Tickers -> 0..Stale]
    BY <1>0, <2>1
  <2>3. UNCHANGED <<loop, countVars, calls>>
    BY <1>2 DEF Return
  <2> QED BY <1>0, <2>2, <2>3 DEF countVars
<1>3. ASSUME NEW t \in Tasks, Quote(t) \/ Chart(t) \/ Lookup(t)
      PROVE  CountTypes /\ OtherTypes
  <2>1. UNCHANGED <<cache, loop, countVars>> /\ calls' = B!OneMore(calls)
    BY <1>3 DEF Quote, Chart, Lookup, CallProvider
  <2>2. calls' \in [0..Window -> Nat]
    BY <1>0, <2>1 DEF B!OneMore
  <2> QED BY <1>0, <2>1, <2>2 DEF countVars
<1>4. ASSUME NEW t \in Tasks, RecordSource(t) \/ FlushMetrics(t)
      PROVE  CountTypes /\ OtherTypes
  <2>1. LockCounts(t) /\ UNCHANGED <<cache, calls>> /\ loop' \in {loop, t}
    BY <1>4 DEF RecordSource, FlushMetrics
  <2> QED BY <1>0, <2>1 DEF LockCounts, TakeLock
<1>5. ASSUME NEW t \in Tasks, SourceRecorded(t) \/ MetricsFlushed(t)
      PROVE  CountTypes /\ OtherTypes
  <2>1. \E n \in Nat : UnlockCounts(t, n)
    BY <1>0, <1>5 DEF SourceRecorded, MetricsFlushed
  <2>2. UNCHANGED <<cache, calls>> /\ loop' \in {loop, NoTask}
    BY <1>5 DEF SourceRecorded, MetricsFlushed
  <2> QED BY <1>0, <2>1, <2>2 DEF UnlockCounts
<1>6. CASE Tick
  <2>1. cache' \in [Tickers -> 0..Stale]
    BY <1>0, <1>6 DEF Tick
  <2>2. calls' \in [0..Window -> Nat]
    BY <1>0, <1>6 DEF Tick, B!Aged
  <2> QED BY <1>0, <1>6, <2>1, <2>2 DEF Tick, countVars
<1>7. CASE UNCHANGED vars
  BY <1>0, <1>7 DEF vars, ivars, countVars
<1>8. ASSUME UNCHANGED <<cache, loop, countVars, calls>>
      PROVE  CountTypes /\ OtherTypes
  BY <1>0, <1>8 DEF countVars
<1>9. CountTypes /\ OtherTypes
  BY <1>1, <1>2, <1>3, <1>4, <1>5, <1>6, <1>7, <1>8 DEF Next, TaskStep
<1> QED BY <1>9

\* Every step preserves the invariant.
LEMMA FetchStep == FetchInv /\ [Next]_vars => FetchInv'
<1> SUFFICES ASSUME FetchInv, [Next]_vars
             PROVE  FetchInv'
  OBVIOUS
<1>1. LTypeOK' /\ SleepInv'
  BY LimiterInsideInv
<1>2. pc' \in [Tasks -> Places] /\ WaitInv'
  BY WaitStep
<1>3. owed' \in 0..MaxOwed /\ CountInv' /\ LockInv'
  BY CountStep
<1>4. fetch' \in [Tasks -> Fetch]
  BY FetchType DEF FetchInv
<1>5. TypeOK'
  BY <1>1, <1>2, <1>3, <1>4, RestTypes DEF TypeOK
<1> QED BY <1>1, <1>2, <1>3, <1>5 DEF FetchInv

\* The invariant holds in every behaviour.
LEMMA FetchInvariant == Spec => []FetchInv
BY FetchInit, FetchStep, PTL DEF Spec

\* The variables of the fetches keep their types: no task makes more attempts
\* than with_backoff allows, and no flush reports more than there was.
THEOREM FetchTypeCorrect == Spec => []TypeOK
<1>1. FetchInv => TypeOK
  BY DEF FetchInv
<1> QED BY <1>1, FetchInvariant, PTL

\* Every reading is counted once and reported once, for any number of worker
\* threads and coroutines that count while a flush copies and clears.
THEOREM ReadingsCountedOnce == Spec => []EachCountedOnce
<1>1. FetchInv => EachCountedOnce
  BY DEF FetchInv, CountInv, Counting, EachCountedOnce
<1> QED BY <1>1, FetchInvariant, PTL

\* Whatever fetches there are, with their retries, fallbacks and counts, the
\* bucket they share grants what one refilled all the time would grant.
THEOREM FetchesShareOneBucket == Spec => BucketSpec
<1>1. Init => L!Init
  BY FullHolds, CappedIs DEF Init, LInit, L!Init, Have, L!NoneRecent, B!NoneRecent
<1>2. FetchInv /\ [Next]_vars => [L!Draw \/ L!Tick]_<<Have, recent>>
  BY LimiterInside, BucketStep DEF FetchInv, TypeOK, bucketVars, Have
<1> QED BY <1>1, <1>2, FetchInvariant, PTL DEF Spec, BucketSpec, L!Spec

\* No window of time sees more fetches begin than the shared bucket allows;
\* what the fallback and the retries call beside it is not among them.
THEOREM FetchesArePaced == Spec => []Paced
<1>1. Init => PacedInv
  BY PacedInit DEF Init
<1>2. FetchInv /\ FetchInv' /\ PacedInv /\ [Next]_vars => PacedInv'
  <2>1. FetchInv /\ [Next]_vars => [L!Draw \/ L!Tick]_<<Have, recent>>
    BY LimiterInside, BucketStep DEF FetchInv, TypeOK, bucketVars, Have
  <2> QED BY <2>1, PacedStep DEF FetchInv, TypeOK
<1>3. FetchInv /\ PacedInv => Paced
  BY PacedInvPaces DEF FetchInv, TypeOK
<1> QED BY <1>1, <1>2, <1>3, FetchInvariant, PTL DEF Spec
=============================================================================
