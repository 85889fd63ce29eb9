------------------------- MODULE RateLimiterProofs --------------------------
(***************************************************************************)
(* Proofs about the token bucket for every number of tasks, every capacity *)
(* and every refill rate.  The inductive invariant is the type invariant   *)
(* with SleepInv: whoever sleeps holds the lock, so that nobody else takes *)
(* what flows in, and will find a token when the sleep is over.            *)
(***************************************************************************)
EXTENDS RateLimiter, TLAPS

SleepInv ==
  \A t \in Tasks : wait[t] = "sleep" =>
    holder = t /\ tokens + since + timer[t] >= RefillTime

\* A full bucket holds a token at least.
LEMMA FullHolds == B!Full \in Nat /\ B!Full >= RefillTime /\ L!Full = B!Full
<1> DEFINE C == Capacity
           R == RefillTime
<1>1. C \in Nat /\ R \in Nat /\ C >= 1
  BY LimiterAssumption
<1>2. C * R \in Nat /\ C * R >= R
  BY <1>1
<1> QED BY <1>2 DEF B!Full, L!Full

\* What capping returns.
LEMMA CappedIs ==
  ASSUME NEW n \in Nat
  PROVE  /\ B!Capped(n) \in 0..B!Full
         /\ n <= B!Full => B!Capped(n) = n
         /\ n > B!Full => B!Capped(n) = B!Full
         /\ L!Capped(n) = B!Capped(n)
BY FullHolds DEF B!Capped, L!Capped

\* The bucket brought up to date is a legal content.
LEMMA HaveType == LTypeOK => Have \in 0..B!Full
BY CappedIs, FullHolds DEF LTypeOK, Have

\* The initial states satisfy the invariant.
LEMMA LimiterInit == LInit => LTypeOK /\ SleepInv
BY FullHolds, LimiterAssumption DEF LInit, LTypeOK, SleepInv, B!NoneRecent

\* Trying to take a token preserves the types, but for the waiters.
LEMMA TryType ==
  ASSUME LTypeOK, NEW t \in Tasks, Try(t), waiters' \in Seq(Tasks)
  PROVE  LTypeOK'
<1>0. Have \in 0..B!Full /\ RefillTime \in Nat
  BY HaveType, LimiterAssumption
<1>1. CASE Grant(t)
  <2>1. recent' \in [0..Window -> Nat]
    BY <1>1, LimiterAssumption DEF Grant, Stamp, Release, LTypeOK, B!OneMore
  <2> QED BY <1>0, <1>1, <2>1, FullHolds DEF Grant, Stamp, Release, LTypeOK
<1>2. CASE FallAsleep(t)
  BY <1>0, <1>2, FullHolds DEF FallAsleep, Stamp, Hold, LTypeOK
<1> QED BY <1>1, <1>2 DEF Try

\* Whoever tries holds the lock, or nobody does: no other task is asleep.
LEMMA TrySleep ==
  ASSUME LTypeOK, SleepInv, NEW t \in Tasks, Try(t), holder \in {NoTask, t}
  PROVE  SleepInv'
<1>0. Have \in Nat /\ RefillTime \in Nat
  BY HaveType, FullHolds, LimiterAssumption
<1>1. \A u \in Tasks \ {t} : wait[u] # "sleep"
  BY LimiterAssumption DEF SleepInv
<1>2. CASE Grant(t)
  BY <1>1, <1>2 DEF Grant, Stamp, Release, SleepInv, LTypeOK
<1>3. CASE FallAsleep(t)
  BY <1>0, <1>1, <1>3 DEF FallAsleep, Stamp, Hold, SleepInv, LTypeOK
<1> QED BY <1>2, <1>3 DEF Try

\* A tick preserves the invariant: what a sleep loses, the bucket gains.
LEMMA TickInv ==
  ASSUME LTypeOK, SleepInv, LTick
  PROVE  LTypeOK' /\ SleepInv'
<1>0. since + 1 \in Nat /\ B!Full \in Nat /\ RefillTime \in Nat /\ tokens \in Nat
  BY FullHolds, LimiterAssumption DEF LTypeOK
<1>1. LTypeOK'
  <2>1. since' \in 0..B!Full
    BY <1>0, CappedIs DEF LTick
  <2>2. recent' \in [0..Window -> Nat]
    BY LimiterAssumption DEF LTick, LTypeOK, B!Aged
  <2>3. timer' \in [Tasks -> Nat]
    BY DEF LTick, LTypeOK
  <2> QED BY <2>1, <2>2, <2>3 DEF LTick, LTypeOK
<1>2. ASSUME NEW t \in Tasks, wait'[t] = "sleep"
      PROVE  holder' = t /\ tokens' + since' + timer'[t] >= RefillTime
  <2>1. holder = t /\ tokens + since + timer[t] >= RefillTime
    BY <1>2 DEF SleepInv, LTick
  <2>2. timer'[t] \in Nat /\ timer[t] \in Nat /\ timer'[t] >= timer[t] - 1
    BY DEF LTick, LTypeOK
  <2>3. since' = since + 1 \/ since' = B!Full
    BY <1>0, CappedIs DEF LTick
  <2> QED BY <1>0, <2>1, <2>2, <2>3, FullHolds DEF LTick, LTypeOK
<1> QED BY <1>1, <1>2 DEF SleepInv

\* Every step preserves the invariant.
LEMMA LimiterStep == LTypeOK /\ SleepInv /\ [LNext]_lvars => LTypeOK' /\ SleepInv'
<1> SUFFICES ASSUME LTypeOK, SleepInv, [LNext]_lvars
             PROVE  LTypeOK' /\ SleepInv'
  OBVIOUS
<1>1. CASE LTick
  BY <1>1, TickInv
<1>2. ASSUME NEW t \in Tasks, Call(t)
      PROVE  LTypeOK' /\ SleepInv'
  <2>1. CASE holder = NoTask /\ Try(t) /\ UNCHANGED waiters
    BY <2>1, TryType, TrySleep DEF LTypeOK
  <2>2. CASE /\ waiters' = Append(waiters, t)
             /\ wait' = [wait EXCEPT ![t] = "lock"]
             /\ UNCHANGED <<bucketVars, holder, timer>>
    BY <2>2 DEF LTypeOK, SleepInv, bucketVars
  <2> QED BY <1>2, <2>1, <2>2 DEF Call, Acquire
<1>3. ASSUME NEW t \in Tasks, HandOver(t)
      PROVE  LTypeOK' /\ SleepInv'
  <2>1. waiters' \in Seq(Tasks)
    BY <1>3 DEF HandOver, LTypeOK
  <2> QED BY <1>3, <2>1, TryType, TrySleep DEF HandOver
<1>4. ASSUME NEW t \in Tasks, WakeUp(t)
      PROVE  LTypeOK' /\ SleepInv'
  BY <1>4, TryType, TrySleep DEF WakeUp, SleepInv, LTypeOK
<1>5. CASE UNCHANGED lvars
  BY <1>5 DEF lvars, bucketVars, LTypeOK, SleepInv
<1> QED BY <1>1, <1>2, <1>3, <1>4, <1>5 DEF LNext, Resume

\* The invariant holds in every behaviour.
LEMMA LimiterInvariant == LSpec => [](LTypeOK /\ SleepInv)
BY LimiterInit, LimiterStep, PTL DEF LSpec

\* The limiter's variables keep their types.
THEOREM LTypeCorrect == LSpec => []LTypeOK
BY LimiterInvariant, PTL

\* A sleeper finds its token, for any number of tasks that ask meanwhile:
\* acquire() sleeps at most once, and too short a wait_for never shows.
THEOREM SleepersFindTokens == LSpec => []SleepersAreServed
<1>1. SleepInv => SleepersAreServed
  BY DEF SleepInv, SleepersAreServed
<1> QED BY <1>1, LimiterInvariant, PTL

\* A step of the limiter is a draw, a tick or a stutter of the bucket that is
\* refilled all the time.
LEMMA BucketStep ==
  LTypeOK /\ [LNext]_lvars => [L!Draw \/ L!Tick]_<<Have, recent>>
<1> SUFFICES ASSUME LTypeOK, [LNext]_lvars
             PROVE  [L!Draw \/ L!Tick]_<<Have, recent>>
  OBVIOUS
<1>0. /\ Have \in Nat /\ Have <= B!Full /\ RefillTime \in Nat /\ B!Full \in Nat
      /\ tokens \in Nat /\ since \in Nat
  BY HaveType, FullHolds, LimiterAssumption DEF LTypeOK
<1>1. ASSUME NEW t \in Tasks, Grant(t)
      PROVE  L!Draw
  <2>1. Have' = Have - RefillTime
    BY <1>0, <1>1, CappedIs DEF Grant, Stamp, Release, Have
  <2> QED BY <1>1, <2>1 DEF Grant, Stamp, Release, L!Draw, L!OneMore, B!OneMore
<1>2. ASSUME NEW t \in Tasks, FallAsleep(t)
      PROVE  UNCHANGED <<Have, recent>>
  <2>1. Have' = B!Capped(Have)
    BY <1>0, <1>2 DEF FallAsleep, Stamp, Hold, Have
  <2> QED BY <1>0, <1>2, <2>1, CappedIs DEF FallAsleep
<1>3. CASE LTick
  <2>1. Have' = B!Capped(tokens + B!Capped(since + 1))
    BY <1>3 DEF LTick, Have
  <2>2. Have = B!Capped(tokens + since)
    BY DEF Have
  <2>3. B!Capped(since + 1) \in Nat
    BY <1>0, CappedIs
  <2>4. Have' = L!Capped(Have + 1)
    BY <1>0, <2>1, <2>2, <2>3, FullHolds DEF B!Capped, L!Capped
  <2>5. L!Aged(recent) = B!Aged(recent)
    BY DEF L!Aged, B!Aged
  <2> QED BY <1>3, <2>4, <2>5 DEF LTick, L!Tick
<1>4. CASE UNCHANGED lvars
  BY <1>4 DEF lvars, bucketVars, Have
<1>5. ASSUME NEW t \in Tasks, Call(t) \/ Resume(t), ~(Grant(t) \/ FallAsleep(t))
      PROVE  UNCHANGED <<Have, recent>>
  BY <1>5 DEF Call, Resume, Acquire, HandOver, WakeUp, Try, bucketVars, Have
<1> QED BY <1>1, <1>2, <1>3, <1>4, <1>5 DEF LNext

\* The bucket that looks at the clock only when it is asked implements the
\* one that is refilled with every tick.
THEOREM ImplementsBucket == LSpec => BucketSpec
<1>1. LInit => L!Init
  BY FullHolds, CappedIs DEF LInit, L!Init, Have, L!NoneRecent, B!NoneRecent
<1> QED BY <1>1, BucketStep, LimiterInvariant, PTL DEF LSpec, BucketSpec, L!Spec

\* What was granted within any w ticks and what the bucket holds were in the
\* bucket w ticks ago or have flowed in since.
PacedInv ==
  \A w \in 0..Window : RefillTime * recent[w] + Have <= B!Full + w

\* A draw moves a token from the bucket to what was granted; a tick adds no
\* more to the bucket than it adds to the window.
LEMMA PacedStep ==
  ASSUME LTypeOK, LTypeOK', PacedInv, [L!Draw \/ L!Tick]_<<Have, recent>>
  PROVE  PacedInv'
<1>0. /\ Have \in Nat /\ Have' \in Nat /\ Have' <= B!Full /\ B!Full \in Nat
      /\ RefillTime \in Nat /\ Window \in Nat
      /\ \A w \in 0..Window : recent[w] \in Nat
  <2>1. Have \in 0..B!Full /\ Have' \in 0..B!Full
    <3>1. Have \in 0..B!Full
      BY HaveType
    <3>2. LTypeOK' => (Have \in 0..B!Full)'
      BY HaveType, PTL
    <3> QED BY <3>1, <3>2 DEF B!Full
  <2> QED BY <2>1, FullHolds, LimiterAssumption DEF LTypeOK
<1> SUFFICES ASSUME NEW w \in 0..Window
             PROVE  RefillTime * recent'[w] + Have' <= B!Full + w
  BY DEF PacedInv, B!Full
<1>1. CASE L!Draw
  <2>1. Have' = Have - RefillTime /\ recent'[w] = recent[w] + 1
    BY <1>1 DEF L!Draw, L!OneMore
  <2>2. RefillTime * (recent[w] + 1) = RefillTime * recent[w] + RefillTime
    BY <1>0
  <2>3. RefillTime * recent[w] \in Nat
    BY <1>0
  <2>4. RefillTime * recent[w] + Have <= B!Full + w
    BY DEF PacedInv
  <2> QED BY <1>0, <2>1, <2>2, <2>3, <2>4
<1>2. CASE L!Tick
  <2>1. Have' <= Have + 1
    BY <1>0, <1>2, CappedIs, FullHolds DEF L!Tick, L!Capped
  <2>2. CASE w = 0
    <3>1. recent'[w] = 0
      BY <1>2, <2>2 DEF L!Tick, L!Aged
    <3>2. RefillTime * recent'[w] = 0
      BY <1>0, <3>1
    <3>3. w \in Nat
      BY <2>2
    <3> QED BY <1>0, <3>2, <3>3
  <2>3. CASE w # 0
    <3>1. recent'[w] = recent[w - 1] /\ w - 1 \in 0..Window
      BY <1>0, <1>2, <2>3 DEF L!Tick, L!Aged
    <3>2. RefillTime * recent[w - 1] + Have <= B!Full + (w - 1)
      BY <3>1 DEF PacedInv
    <3>3. RefillTime * recent'[w] = RefillTime * recent[w - 1]
      BY <3>1
    <3>4. RefillTime * recent[w - 1] \in Nat
      BY <1>0, <3>1
    <3> QED BY <1>0, <2>1, <3>2, <3>3, <3>4
  <2> QED BY <2>2, <2>3
<1>3. CASE UNCHANGED <<Have, recent>>
  BY <1>3 DEF PacedInv
<1> QED BY <1>1, <1>2, <1>3

\* It holds of a full bucket that has granted nothing.
LEMMA PacedInit == LInit => PacedInv
<1>1. LInit => Have = B!Full /\ \A w \in 0..Window : recent[w] = 0
  BY FullHolds, CappedIs DEF LInit, Have, B!NoneRecent
<1> QED BY <1>1, FullHolds, LimiterAssumption DEF PacedInv

\* And it bounds what is granted.
LEMMA PacedInvPaces == LTypeOK /\ PacedInv => Paced
<1> SUFFICES ASSUME LTypeOK, PacedInv, NEW w \in 0..Window
             PROVE  RefillTime * recent[w] <= B!Full + w
  BY DEF Paced
<1>1. Have \in Nat /\ RefillTime \in Nat /\ recent[w] \in Nat /\ B!Full \in Nat
  BY HaveType, FullHolds, LimiterAssumption DEF LTypeOK
<1>2. RefillTime * recent[w] \in Nat
  BY <1>1
<1> QED BY <1>1, <1>2 DEF PacedInv

\* No window of time sees more grants than a full bucket and what flows in
\* meanwhile, however the tasks call acquire(), and though the bucket is
\* brought up to date only when somebody asks.
THEOREM GrantsArePaced == LSpec => []Paced
<1>1. LTypeOK /\ SleepInv /\ PacedInv /\ [LNext]_lvars => PacedInv'
  BY LimiterStep, BucketStep, PacedStep
<1> QED BY PacedInit, <1>1, PacedInvPaces, LimiterInvariant, PTL DEF LSpec
=============================================================================
