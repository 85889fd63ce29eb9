---------------------------- MODULE RateLimiter -----------------------------
(***************************************************************************)
(* TokenBucketLimiter (app/rate_limiter.py): acquire() takes an asyncio    *)
(* lock, brings the bucket up to date, and takes a token or sleeps until   *)
(* there is one, with the lock held all the while.                         *)
(*                                                                         *)
(* Time is a tick that every timer follows; the bucket alone does not look *)
(* at the clock until it is asked.  Tokens are counted in fractions,       *)
(* RefillTime to a token (refill_per_sec is 1 / RefillTime).  An asyncio   *)
(* lock goes to those who wait for it in the order they came, and nobody   *)
(* takes a free lock while there are some.                                 *)
(***************************************************************************)
EXTENDS Naturals, Sequences

CONSTANTS
  Tasks,
  NoTask,
  Capacity, RefillTime,
  Window   \* bound: grants older than this are not remembered

ASSUME LimiterAssumption ==
  /\ NoTask \notin Tasks
  /\ Capacity \in Nat \ {0}
  /\ RefillTime \in Nat \ {0}
  /\ Window \in Nat

VARIABLES
  tokens,   \* _tokens
  since,    \* ticks since _updated_at, as far as they matter
  holder,   \* who holds _lock
  waiters,  \* who waits for it
  wait,     \* where each task is in acquire()
  timer,    \* what is left of each task's asyncio.sleep
  recent    \* history: tokens granted within the last w ticks

bucketVars == <<tokens, since, recent>>
lvars == <<bucketVars, holder, waiters, wait, timer>>

B == INSTANCE TokenBucket WITH credit <- tokens

LInit ==
  /\ tokens = B!Full /\ since = 0 /\ recent = B!NoneRecent
  /\ holder = NoTask /\ waiters = <<>>
  /\ wait = [t \in Tasks |-> "no"]
  /\ timer = [t \in Tasks |-> 0]

----------------------------------------------------------------------------
\* Mutant of Have: what has flowed in is not capped.
HaveUncapped == tokens + since

\* The bucket's content, brought up to date.
Have == B!Capped(tokens + since)

\* Mutant of Stamp: _updated_at is left alone.
StampNot == UNCHANGED since

\* _updated_at is set to the present.
Stamp == since' = 0

\* Mutant of Release: the lock is kept.
ReleaseNot == UNCHANGED holder

Release == holder' = NoTask

\* Mutant of Hold: the lock is released before the sleep.
HoldNot(t) == holder' = NoTask

Hold(t) == holder' = t

\* With the lock: a token is there, and the lock is released.
Grant(t) ==
  /\ Have >= RefillTime
  /\ tokens' = Have - RefillTime
  /\ Stamp
  /\ recent' = B!OneMore(recent)
  /\ Release
  /\ wait' = [wait EXCEPT ![t] = "no"]
  /\ UNCHANGED timer

\* With the lock: none is there, and the task sleeps until one is.
FallAsleep(t) ==
  /\ Have < RefillTime
  /\ tokens' = Have
  /\ Stamp
  /\ timer' = [timer EXCEPT ![t] = RefillTime - Have]
  /\ Hold(t)
  /\ wait' = [wait EXCEPT ![t] = "sleep"]
  /\ UNCHANGED recent

Try(t) == Grant(t) \/ FallAsleep(t)

\* The call, up to its first await or its return.
Acquire(t) ==
  \/ /\ holder = NoTask /\ waiters = <<>>
     /\ Try(t)
     /\ UNCHANGED waiters
  \/ /\ holder # NoTask \/ waiters # <<>>
     /\ waiters' = Append(waiters, t)
     /\ wait' = [wait EXCEPT ![t] = "lock"]
     /\ UNCHANGED <<bucketVars, holder, timer>>

\* The first of those who wait gets the lock.
HandOver(t) ==
  /\ wait[t] = "lock"
  /\ holder = NoTask
  /\ waiters # <<>> /\ t = Head(waiters)
  /\ waiters' = Tail(waiters)
  /\ Try(t)

WakeUp(t) ==
  /\ wait[t] = "sleep"
  /\ timer[t] = 0
  /\ Try(t)
  /\ UNCHANGED waiters

\* A tick of the clock.  Sleeps may last longer than they should.
LTick ==
  /\ since' = B!Capped(since + 1)
  /\ timer' = [t \in Tasks |-> IF timer[t] = 0 THEN 0 ELSE timer[t] - 1]
  /\ recent' = B!Aged(recent)
  /\ UNCHANGED <<tokens, holder, waiters, wait>>

----------------------------------------------------------------------------
(* The component alone.                                                    *)

Call(t) == wait[t] = "no" /\ Acquire(t)

Resume(t) == HandOver(t) \/ WakeUp(t)

LNext == LTick \/ \E t \in Tasks : Call(t) \/ Resume(t)

LSpec == LInit /\ [][LNext]_lvars

\* Time passes, and the event loop runs a task whose sleep is over or whom
\* the lock was handed to.
LFairSpec == LSpec /\ WF_lvars(LTick) /\ \A t \in Tasks : WF_lvars(Resume(t))

----------------------------------------------------------------------------
(* Properties.                                                             *)

LTypeOK ==
  /\ tokens \in 0..B!Full
  /\ since \in 0..B!Full
  /\ holder \in Tasks \union {NoTask}
  /\ waiters \in Seq(Tasks)
  /\ wait \in [Tasks -> {"no", "lock", "sleep"}]
  /\ timer \in [Tasks -> Nat]
  /\ recent \in [0..Window -> Nat]

\* A sleeper finds its token when it wakes up, however many tasks ask for one
\* meanwhile: nobody can take what flows in while it sleeps.
SleepersAreServed ==
  \A t \in Tasks : wait[t] = "sleep" => tokens + since + timer[t] >= RefillTime

\* The bucket that is brought up to date on demand grants what one that is
\* refilled with every tick would grant.
L == INSTANCE TokenBucket WITH credit <- Have

BucketSpec == L!Spec

\* Whatever the tasks do, the tokens granted within any w ticks are no more
\* than a full bucket and what flows in meanwhile.
Paced ==
  \A w \in 0..Window : RefillTime * recent[w] <= B!Full + w

\* Everyone who asks for a token gets one.
AcquireEnds == \A t \in Tasks : wait[t] # "no" ~> wait[t] = "no"
=============================================================================
