-------------------------- MODULE SchedulerProofs --------------------------
(***************************************************************************)
(* Proofs about module Scheduler, for every set of tickers, test tasks,    *)
(* clients and cooldowns: the types; the cooldown and the debounce that it *)
(* implements; samples and the alerts they raise; one cycle of the poll    *)
(* job; and the broadcasts within the pipeline, on the way to Slack.       *)
(***************************************************************************)
EXTENDS Scheduler, BroadcastProofs

----------------------------------------------------------------------------
(* Type correctness.                                                       *)

\* The part of TypeOK that a task's moves concern.
ControlOK ==
  /\ pc \in [Tasks -> Places]
  /\ job \in [Tasks -> Job]
  /\ queue \in SUBSET Tickers
  /\ ok \in Nat
  /\ beat \in {"none", "ok", "fail"}
  /\ cycles \in 0..MaxCycles

\* The part about the tables, the dictionary and the clock.
DataOK ==
  /\ fetched \in SUBSET Tickers
  /\ history \in [Tickers -> Nat]
  /\ samples \in [Tickers -> Nat]
  /\ alerts \in Seq(Row)
  /\ cooldown \in Cooldowns
  /\ lastAlertAt \in [Keys -> Nat \union {Never}]
  /\ now \in Nat
  /\ epoch \in Nat

\* The type invariant is that of the sockets, of the tasks and of the data.
LEMMA TypeParts == TypeOK <=> BTypeOK /\ ControlOK /\ DataOK
BY DEF TypeOK, ControlOK, DataOK

\* The same of the next state.
LEMMA TypePartsNext == TypeOK' <=> BTypeOK' /\ ControlOK' /\ DataOK'
BY DEF TypeOK, ControlOK, DataOK

\* The locals of a task that has just begun are a Job.
LEMMA NoJobType ==
  /\ NoJob \in Job
  /\ \A tk \in Tickers : [NoJob EXCEPT !.ticker = tk] \in Job
BY DEF NoJob, Job, Kinds

\* The initial tables and tasks have their types.
LEMMA TypeInit == Init => TypeOK
<1> SUFFICES ASSUME Init PROVE TypeOK
  OBVIOUS
<1>1. BTypeOK
  BY BTypeInit DEF Init
<1>2. ControlOK
  BY NoJobType, SchedulerAssumption DEF Init, ControlOK, Places
<1>3. PICK n \in 0..MinSamples : history = [tk \in Tickers |-> n]
  BY DEF Init
<1>4. n \in Nat
  BY <1>3, SchedulerAssumption
<1>5. DataOK
  BY <1>3, <1>4 DEF Init, DataOK
<1> QED BY <1>1, <1>2, <1>5, TypeParts

\* Leaving the body of poll_cycle's loop keeps the types of the tasks.
LEMMA LeaveTickerType ==
  ASSUME ControlOK, NEW n \in {0, 1}, LeaveTicker(n)
  PROVE  ControlOK' /\ loop' = NoTask
<1>1. ok' \in Nat /\ cycles' \in 0..MaxCycles /\ loop' = NoTask
  BY DEF LeaveTicker, NextOrReport, Report, ControlOK
<1>2. CASE \E tk \in queue : FetchNext(tk, queue) /\ UNCHANGED beat
  BY <1>1, <1>2, NoJobType, SchedulerAssumption
     DEF FetchNext, Goto, ControlOK, Places
<1>3. CASE /\ queue = {}
           /\ Report
  BY <1>1, <1>3, NoJobType DEF Report, Goto, ControlOK, Places
<1> QED BY <1>2, <1>3 DEF LeaveTicker, NextOrReport, Report

\* Answering a test-alert request keeps the types of the tasks.
LEMMA AnswerType ==
  ASSUME ControlOK, NEW t \in Tasks, Answer(t)
  PROVE  ControlOK' /\ loop' = NoTask
BY NoJobType DEF Answer, Goto, ControlOK, Places

\* An exception keeps the types of the tasks, whoever catches it.
LEMMA AbortType ==
  ASSUME ControlOK, NEW t \in Tasks, Abort(t)
  PROVE  ControlOK' /\ loop' = NoTask
BY LeaveTickerType, AnswerType DEF Abort

\* A step that leaves the sockets and the frames alone and hands the loop on.
LEMMA LoopOnlyType ==
  ASSUME BTypeOK, UNCHANGED <<socketVars, bcast>>,
         loop' \in Tasks \union {NoTask}
  PROVE  BTypeOK'
BY DEF socketVars, BTypeOK

\* An added alerts row is a Row.
LEMMA AddRowType ==
  ASSUME DataOK, NEW t \in Tasks, NEW key \in Keys,
         NEW cool \in Cooldowns \union {0}, NEW tick \in Nat, NEW told \in BOOLEAN,
         AddRow(t, key, cool, tick, told)
  PROVE  alerts' \in Seq(Row)
<1> DEFINE row == [key |-> key, at |-> now, epoch |-> epoch, test |-> t # Poll,
                   cool |-> cool, tick |-> tick, told |-> told]
<1>1. row \in Row
  BY DEF Row, DataOK
<1>2. alerts' = Append(alerts, row)
  BY DEF AddRow
<1> QED BY <1>1, <1>2 DEF DataOK

\* Storing, recording and beginning to broadcast an alert keeps the types.
LEMMA AnnounceType ==
  ASSUME TypeOK, NEW t \in Tasks, NEW key \in Keys,
         NEW cool \in Cooldowns \union {0}, NEW tick \in Nat,
         Announce(t, key, cool, tick)
  PROVE  TypeOK'
<1>1. BTypeOK'
  BY BeginType, TypeParts DEF Announce, socketVars
<1>2. ControlOK'
  <2>1. key[1] \in Tickers /\ key[2] \in Kinds
    BY DEF Keys
  <2>2. Len(alerts) + 1 \in Nat
    BY DEF TypeOK
  <2>3. [ticker |-> key[1], kind |-> key[2], anomaly |-> TRUE, cool |-> cool,
         id |-> Len(alerts) + 1] \in Job
    BY <2>1, <2>2 DEF Job
  <2> QED BY <2>3 DEF Announce, Goto, pollVars, TypeOK, ControlOK, Places
<1>3. DataOK'
  <2>1. alerts' \in Seq(Row)
    BY AddRowType, TypeParts DEF Announce
  <2>2. lastAlertAt' \in [Keys -> Nat \union {Never}]
    BY DEF Announce, RecordAlert, TypeOK
  <2> QED BY <2>1, <2>2 DEF Announce, pollVars, tickVars, clockVars, TypeOK, DataOK
<1> QED BY <1>1, <1>2, <1>3, TypePartsNext

\* An alert whose commit or read-back fails keeps the types.
LEMMA StoreFailsType ==
  ASSUME TypeOK, NEW t \in Tasks, NEW key \in Keys,
         NEW cool \in Cooldowns \union {0}, NEW tick \in Nat,
         StoreFails(t, key, cool, tick)
  PROVE  TypeOK'
<1>1. ControlOK' /\ loop' = NoTask
  BY AbortType, TypeParts DEF StoreFails
<1>2. BTypeOK'
  BY <1>1, LoopOnlyType, TypeParts DEF StoreFails
<1>3. alerts' \in Seq(Row)
  <2>1. CASE AddRow(t, key, cool, tick, FALSE)
    BY <2>1, AddRowType, TypeParts
  <2>2. CASE UNCHANGED alerts
    BY <2>2 DEF TypeOK
  <2> QED BY <2>1, <2>2 DEF StoreFails
<1>4. DataOK'
  BY <1>3 DEF StoreFails, tickVars, clockVars, TypeOK, DataOK
<1> QED BY <1>1, <1>2, <1>4, TypePartsNext

\* While poll_cycle is at work on a ticker, it is at work on a ticker.
HasTicker == pc[Poll] \notin {"idle", "report"} => job[Poll].ticker \in Tickers

TypeInv == TypeOK /\ HasTicker

\* After leaving the loop's body the poll job is fetching a ticker or reporting.
LEMMA LeaveTickerHas ==
  ASSUME TypeOK, NEW n \in {0, 1}, LeaveTicker(n)
  PROVE  HasTicker'
<1>1. CASE \E tk \in queue : FetchNext(tk, queue)
  BY <1>1, SchedulerAssumption DEF FetchNext, TypeOK, NoJob, HasTicker
<1>2. CASE Goto(Poll, "report")
  BY <1>2, SchedulerAssumption DEF Goto, TypeOK, HasTicker
<1> QED BY <1>1, <1>2 DEF LeaveTicker, NextOrReport, Report

\* After an exception the poll job still has its ticker, or none is needed.
LEMMA AbortHas ==
  ASSUME TypeInv, NEW t \in Tasks, Abort(t)
  PROVE  HasTicker'
<1>1. CASE t = Poll /\ LeaveTicker(0)
  BY <1>1, LeaveTickerHas DEF TypeInv
<1>2. CASE t # Poll /\ Answer(t)
  BY <1>2, SchedulerAssumption DEF Answer, Goto, TypeInv, TypeOK, HasTicker
<1> QED BY <1>1, <1>2 DEF Abort

\* A task that announces an alert has the ticker of its key.
LEMMA AnnounceHas ==
  ASSUME TypeInv, NEW t \in Tasks, NEW key \in Keys, NEW cool, NEW tick,
         Announce(t, key, cool, tick)
  PROVE  HasTicker'
<1>1. key[1] \in Tickers
  BY DEF Keys
<1> QED BY <1>1, SchedulerAssumption DEF Announce, Goto, TypeInv, TypeOK, HasTicker

\* Everything an action that ends the ticker's turn has to keep.
LEMMA TurnEnds ==
  ASSUME TypeInv, NEW n \in {0, 1}, LeaveTicker(n), DataOK',
         UNCHANGED <<socketVars, bcast>>
  PROVE  TypeInv'
<1>1. ControlOK' /\ loop' = NoTask
  BY LeaveTickerType, TypeParts DEF TypeInv
<1>2. BTypeOK'
  BY <1>1, LoopOnlyType, TypeParts DEF TypeInv
<1> QED BY <1>1, <1>2, LeaveTickerHas, TypePartsNext DEF TypeInv

\* A step that leaves the tables alone keeps their types.
LEMMA DataUnchanged ==
  ASSUME DataOK, UNCHANGED <<fetched, tickVars, alertVars, cooldown, clockVars>>
  PROVE  DataOK'
BY DEF DataOK, tickVars, alertVars, clockVars

\* While a ticker is being processed its cooldown keys are keys.
LEMMA SignalKeyType ==
  ASSUME TypeInv, pc[Poll] \notin {"idle", "report"}
  PROVE  SignalKey \in Keys /\ ReconKey \in Keys
BY DEF TypeInv, HasTicker, SignalKey, ReconKey, Keys, Kinds

\* Every step of the poll job's own keeps the type invariant.
LEMMA PollType ==
  ASSUME TypeInv, PollNext
  PROVE  TypeInv'
<1> USE SchedulerAssumption
<1>0. BTypeOK /\ ControlOK /\ DataOK
  BY TypeParts DEF TypeInv
<1>1. CASE FetchFails
  BY <1>0, <1>1, DataUnchanged, TurnEnds DEF FetchFails
<1>2. CASE StoreTick
  <2>1. ControlOK'
    BY <1>0, <1>2 DEF StoreTick, Goto, ControlOK, Places
  <2>2. BTypeOK'
    BY <1>0, <1>2, LoopOnlyType DEF StoreTick
  <2>3. HasTicker'
    BY <1>0, <1>2 DEF StoreTick, Suspended, Goto, TypeInv, HasTicker, ControlOK
  <2>4. job[Poll].ticker \in Tickers
    BY <1>2 DEF StoreTick, Suspended, TypeInv, HasTicker
  <2>5. DataOK'
    BY <1>0, <1>2, <2>4 DEF StoreTick, KeepTick, DataOK, alertVars, clockVars
  <2> QED BY <2>1, <2>2, <2>3, <2>5, TypePartsNext DEF TypeInv
<1>3. CASE StoreTickFails
  <2>1. job[Poll].ticker \in Tickers
    BY <1>3 DEF StoreTickFails, Suspended, TypeInv, HasTicker
  <2>2. DataOK'
    BY <1>0, <1>3, <2>1 DEF StoreTickFails, DataOK, tickVars, alertVars, clockVars
  <2> QED BY <1>3, <2>2, TurnEnds DEF StoreTickFails
<1>4. CASE Detect
  <2>1. job[Poll].ticker \in Tickers
    BY <1>4 DEF Detect, Running, TypeInv, HasTicker
  <2>2. PICK anomaly \in BOOLEAN :
          job' = [job EXCEPT ![Poll] =
                    [ticker |-> job[Poll].ticker, kind |-> "signal",
                     anomaly |-> anomaly, cool |-> cooldown, id |-> 0]]
    BY <1>4 DEF Detect
  <2>3. job' \in [Tasks -> Job] /\ job'[Poll].ticker = job[Poll].ticker
    BY <1>0, <2>1, <2>2 DEF ControlOK, DataOK, Job, Kinds
  <2>4. ControlOK' /\ HasTicker'
    BY <1>0, <1>4, <2>1, <2>3 DEF Detect, Goto, pollVars, ControlOK, Places, HasTicker
  <2>5. BTypeOK'
    BY <1>0, <1>4, BeginType DEF Detect, socketVars, BTypeOK
  <2>6. samples' = [samples EXCEPT ![job[Poll].ticker] = @ + 1]
    BY <1>4 DEF Detect, FoldTick
  <2>7. samples' \in [Tickers -> Nat]
    BY <1>0, <2>1, <2>6 DEF DataOK
  <2>8. UNCHANGED <<pollVars, history, alertVars, cooldown, clockVars>>
    BY <1>4 DEF Detect
  <2>9. DataOK'
    BY <1>0, <2>7, <2>8 DEF pollVars, DataOK, alertVars, clockVars
  <2> QED BY <2>4, <2>5, <2>9, TypePartsNext DEF TypeInv
<1>5. CASE DetectFails
  <2>1. job[Poll].ticker \in Tickers
    BY <1>5 DEF DetectFails, Running, TypeInv, HasTicker
  <2>2. samples' \in [Tickers -> Nat]
    BY <1>0, <1>5, <2>1 DEF DetectFails, FoldTick, DataOK
  <2>3. DataOK'
    BY <1>0, <1>5, <2>2 DEF DetectFails, FoldTick, DataOK, alertVars, clockVars
  <2> QED BY <1>5, <2>3, TurnEnds DEF DetectFails
<1>6. CASE Suppress
  <2>1. ControlOK' /\ HasTicker'
    BY <1>0, <1>6 DEF Suppress, Running, Goto, pollVars, ControlOK, Places, TypeInv, HasTicker
  <2>2. BTypeOK'
    BY <1>0, <1>6, LoopOnlyType DEF Suppress
  <2>3. DataOK'
    BY <1>0, <1>6, DataUnchanged DEF Suppress, pollVars
  <2> QED BY <2>1, <2>2, <2>3, TypePartsNext DEF TypeInv
<1>7. ASSUME AlertSignal \/ AlertSignalFails PROVE TypeInv'
  <2>1. SignalKey \in Keys /\ job[Poll].ticker \in Tickers
    BY <1>7, SignalKeyType DEF AlertSignal, AlertSignalFails, Running, TypeInv, HasTicker
  <2>2. job[Poll].cool \in Cooldowns \union {0} /\ samples[job[Poll].ticker] \in Nat
    BY <1>0, <2>1 DEF ControlOK, DataOK, Job
  <2>3. CASE AlertSignal
    BY <2>1, <2>2, <2>3, AnnounceType, AnnounceHas DEF AlertSignal, TypeInv
  <2>4. CASE AlertSignalFails
    BY <2>1, <2>2, <2>4, StoreFailsType, AbortHas DEF AlertSignalFails, StoreFails, TypeInv
  <2> QED BY <1>7, <2>3, <2>4
<1>8. CASE ReconQuiet
  BY <1>0, <1>8, DataUnchanged, TurnEnds DEF ReconQuiet
<1>9. ASSUME AlertMismatch \/ AlertMismatchFails PROVE TypeInv'
  <2>1. ReconKey \in Keys
    BY <1>9, SignalKeyType DEF AlertMismatch, AlertMismatchFails, Suspended
  <2>2. cooldown \in Cooldowns \union {0}
    BY <1>0 DEF DataOK
  <2>3. CASE AlertMismatch
    BY <2>1, <2>2, <2>3, AnnounceType, AnnounceHas DEF AlertMismatch, TypeInv
  <2>4. CASE AlertMismatchFails
    BY <2>1, <2>2, <2>4, StoreFailsType, AbortHas DEF AlertMismatchFails, StoreFails, TypeInv
  <2> QED BY <1>9, <2>3, <2>4
<1>10. CASE ReconFails
  BY <1>0, <1>10, DataUnchanged, TurnEnds DEF ReconFails
<1>11. CASE ReportReturns
  <2>1. ControlOK' /\ HasTicker'
    BY <1>0, <1>11 DEF ReportReturns, Goto, ControlOK, Places, HasTicker
  <2>2. BTypeOK'
    BY <1>0, <1>11 DEF ReportReturns, bvars, BTypeOK
  <2>3. DataOK'
    BY <1>0, <1>11, DataUnchanged DEF ReportReturns
  <2> QED BY <2>1, <2>2, <2>3, TypePartsNext DEF TypeInv
<1> QED BY <1>1, <1>2, <1>3, <1>4, <1>5, <1>6, <1>7, <1>8, <1>9, <1>10, <1>11 DEF PollNext

\* Every step of a task, its broadcasts and posts included, keeps it.
LEMMA TaskType ==
  ASSUME TypeInv, NEW t \in Tasks, TaskNext(t)
  PROVE  TypeInv'
<1> USE SchedulerAssumption
<1>0. BTypeOK /\ ControlOK /\ DataOK
  BY TypeParts DEF TypeInv
<1>1. CASE PollNext
  BY <1>1, PollType
<1>2. CASE BcastSends(t)
  <2>1. BTypeOK'
    BY <1>0, <1>2, SendNextType, SendReturnsType DEF BcastSends
  <2>2. ControlOK' /\ DataOK' /\ HasTicker'
    BY <1>0, <1>2 DEF BcastSends, svars, pollVars, tickVars, alertVars, clockVars,
                      ControlOK, DataOK, TypeInv, HasTicker
  <2> QED BY <2>1, <2>2, TypePartsNext DEF TypeInv
<1>3. CASE BcastReturns(t)
  <2>1. loop' \in Tasks \union {NoTask}
    BY <1>0, <1>3 DEF BcastReturns, BTypeOK
  <2>2. BTypeOK'
    BY <1>0, <1>3, <2>1, EndType DEF BcastReturns
  <2>3. ControlOK' /\ HasTicker'
    BY <1>0, <1>3 DEF BcastReturns, Goto, pollVars, ControlOK, Places, TypeInv, HasTicker
  <2>4. DataOK'
    BY <1>0, <1>3, DataUnchanged DEF BcastReturns, pollVars
  <2> QED BY <2>2, <2>3, <2>4, TypePartsNext DEF TypeInv
<1>4. CASE BcastRaises(t)
  <2>1. ControlOK' /\ loop' = NoTask
    BY <1>0, <1>4, AbortType DEF BcastRaises
  <2>2. BTypeOK'
    BY <1>0, <1>4, <2>1, BreakType DEF BcastRaises
  <2>3. DataOK' /\ HasTicker'
    BY <1>0, <1>4, DataUnchanged, AbortHas DEF BcastRaises
  <2> QED BY <2>1, <2>2, <2>3, TypePartsNext DEF TypeInv
<1>5. CASE SlackReturns(t)
  <2>1. DataOK' /\ UNCHANGED <<socketVars, bcast>>
    BY <1>0, <1>5, DataUnchanged DEF SlackReturns
  <2>2. CASE t = Poll /\ LeaveTicker(1)
    BY <2>1, <2>2, TurnEnds
  <2>3. CASE t # Poll /\ Answer(t)
    <3>1. ControlOK' /\ loop' = NoTask
      BY <1>0, <2>3, AnswerType
    <3>2. HasTicker'
      BY <2>3, AbortHas DEF Abort
    <3> QED BY <1>0, <2>1, <3>1, <3>2, LoopOnlyType, TypePartsNext DEF TypeInv
  <2>4. CASE t = Poll /\ Goto(t, "recon") /\ UNCHANGED <<loop, job, queue, ok, beat, cycles>>
    <3>1. ControlOK' /\ HasTicker'
      BY <1>0, <1>5, <2>4 DEF SlackReturns, Suspended, Goto, ControlOK, Places, TypeInv, HasTicker
    <3>2. BTypeOK'
      BY <1>0, <2>1, <2>4, LoopOnlyType DEF BTypeOK
    <3> QED BY <2>1, <3>1, <3>2, TypePartsNext DEF TypeInv
  <2> QED BY <1>5, <2>2, <2>3, <2>4 DEF SlackReturns
<1> QED BY <1>1, <1>2, <1>3, <1>4, <1>5 DEF TaskNext

\* Every step of the pipeline keeps it.
LEMMA TypeStep == TypeInv /\ [Next]_vars => TypeInv'
<1> USE SchedulerAssumption
<1> SUFFICES ASSUME TypeInv, [Next]_vars PROVE TypeInv'
  OBVIOUS
<1>0. BTypeOK /\ ControlOK /\ DataOK
  BY TypeParts DEF TypeInv
<1>1. CASE PollStart
  <2>0. PICK tracked \in SUBSET Tickers : \E tk \in tracked : FetchNext(tk, tracked)
    BY <1>1 DEF PollStart
  <2>1. PICK tk \in tracked : FetchNext(tk, tracked)
    BY <2>0
  <2>2. ControlOK' /\ HasTicker'
    <3>1. cycles < MaxCycles /\ cycles' = cycles + 1 /\ cycles \in 0..MaxCycles
      BY <1>0, <1>1 DEF PollStart, ControlOK
    <3>2. cycles' \in 0..MaxCycles
      BY <3>1
    <3>3. pc' \in [Tasks -> Places] /\ queue' \in SUBSET Tickers
      BY <1>0, <2>1 DEF FetchNext, Goto, ControlOK, Places
    <3>4. job' \in [Tasks -> Job] /\ job'[Poll].ticker \in Tickers
      BY <1>0, <2>1, NoJobType DEF FetchNext, ControlOK, NoJob
    <3> QED BY <1>0, <1>1, <3>2, <3>3, <3>4 DEF PollStart, ControlOK, HasTicker
  <2>3. BTypeOK' /\ DataOK'
    BY <1>0, <1>1 DEF PollStart, bvars, BTypeOK, DataOK, tickVars, alertVars, clockVars
  <2> QED BY <2>2, <2>3, TypePartsNext DEF TypeInv
<1>2. ASSUME NEW t \in Tasks, TestAlert(t) \/ TestAlertFails(t) PROVE TypeInv'
  <2>1. PICK tk \in Tickers :
          \/ Announce(t, <<tk, "signal">>, cooldown, 0)
          \/ StoreFails(t, <<tk, "signal">>, cooldown, 0)
    BY <1>2 DEF TestAlert, TestAlertFails
  <2>2. <<tk, "signal">> \in Keys /\ cooldown \in Cooldowns \union {0} /\ 0 \in Nat
    BY <1>0 DEF Keys, Kinds, DataOK
  <2>3. CASE Announce(t, <<tk, "signal">>, cooldown, 0)
    BY <2>2, <2>3, AnnounceType, AnnounceHas DEF TypeInv
  <2>4. CASE StoreFails(t, <<tk, "signal">>, cooldown, 0)
    BY <2>2, <2>4, StoreFailsType, AbortHas DEF StoreFails, TypeInv
  <2> QED BY <2>1, <2>3, <2>4
<1>3. ASSUME NEW t \in Tasks, TaskNext(t) PROVE TypeInv'
  BY <1>3, TaskType
<1>4. CASE SocketNext /\ UNCHANGED svars
  <2>1. BTypeOK'
    BY <1>0, <1>4, SocketType
  <2>2. ControlOK' /\ DataOK' /\ HasTicker'
    BY <1>0, <1>4 DEF svars, pollVars, tickVars, alertVars, clockVars,
                      ControlOK, DataOK, TypeInv, HasTicker
  <2> QED BY <2>1, <2>2, TypePartsNext DEF TypeInv
<1>5. CASE PostConfig \/ Advance
  <2>1. BTypeOK' /\ ControlOK' /\ HasTicker'
    BY <1>0, <1>5 DEF PostConfig, Advance, bvars, pollVars, BTypeOK, ControlOK,
                      TypeInv, HasTicker
  <2>2. DataOK'
    BY <1>0, <1>5 DEF PostConfig, Advance, pollVars, tickVars, alertVars, clockVars, DataOK
  <2> QED BY <2>1, <2>2, TypePartsNext DEF TypeInv
<1>6. CASE Crash
  <2>1. BTypeOK'
    BY <1>0, <1>6 DEF Crash, BTypeOK, SockStates, Quiet, Frame
  <2>2. ControlOK' /\ HasTicker'
    BY <1>0, <1>6, NoJobType DEF Crash, ControlOK, Places, HasTicker
  <2>3. DataOK'
    BY <1>0, <1>6 DEF Crash, tickVars, DataOK
  <2> QED BY <2>1, <2>2, <2>3, TypePartsNext DEF TypeInv
<1>7. CASE UNCHANGED vars
  BY <1>7 DEF vars, bvars, svars, pollVars, tickVars, alertVars, clockVars,
              TypeInv, TypeOK, BTypeOK, HasTicker
<1> QED BY <1>1, <1>2, <1>3, <1>4, <1>5, <1>6, <1>7 DEF Next

\* The types always hold, and a busy poll job always has a ticker.
LEMMA TypeInvariant == Spec => []TypeInv
<1>1. Init => TypeInv
  BY TypeInit, SchedulerAssumption DEF Init, TypeInv, HasTicker
<1> QED BY <1>1, TypeStep, PTL DEF Spec

\* All state of the pipeline, the tables and the sockets has its type.
THEOREM TypeCorrect == Spec => []TypeOK
<1>1. TypeInv => TypeOK
  BY DEF TypeInv
<1> QED BY TypeInvariant, <1>1, PTL

----------------------------------------------------------------------------
(* The cooldown.                                                           *)

\* A row is added by a task that asked should_alert, or was a test, and the
\* key is marked unless the row is untold.
NewAlert(t, key, cool, tick, told) ==
  /\ AddRow(t, key, cool, tick, told)
  /\ t = Poll => ShouldAlert(key, cool)
  /\ told => RecordAlert(key)
  /\ ~told => UNCHANGED lastAlertAt
  /\ UNCHANGED clockVars

\* What any step may do to the alerts, to the dictionary and to the clock.
AlertSteps ==
  \/ UNCHANGED <<alertVars, epoch>> /\ now' >= now
  \/ \E t \in Tasks, key \in Keys, cool \in Cooldowns \union {0},
        tick \in Nat, told \in BOOLEAN : NewAlert(t, key, cool, tick, told)
  \/ Crash

\* Announce adds one row that should_alert admitted, or a test.
LEMMA AnnounceIsNew ==
  ASSUME NEW t \in Tasks, NEW key \in Keys, NEW cool \in Cooldowns \union {0},
         NEW tick \in Nat, t = Poll => ShouldAlert(key, cool),
         Announce(t, key, cool, tick)
  PROVE  AlertSteps
<1>1. NewAlert(t, key, cool, tick, TRUE)
  BY DEF Announce, NewAlert
<1> QED BY <1>1 DEF AlertSteps

\* A failed store adds such a row unannounced, or nothing.
LEMMA StoreFailsIsNew ==
  ASSUME DataOK, NEW t \in Tasks, NEW key \in Keys, NEW cool \in Cooldowns \union {0},
         NEW tick \in Nat, t = Poll => ShouldAlert(key, cool),
         StoreFails(t, key, cool, tick)
  PROVE  AlertSteps
<1>1. CASE AddRow(t, key, cool, tick, FALSE)
  <2>1. NewAlert(t, key, cool, tick, FALSE)
    BY <1>1 DEF StoreFails, NewAlert
  <2> QED BY <2>1 DEF AlertSteps
<1>2. CASE UNCHANGED alerts
  BY <1>2 DEF StoreFails, AlertSteps, alertVars, clockVars, DataOK
<1> QED BY <1>1, <1>2 DEF StoreFails

\* What any step does to the alerts table, the cooldown dictionary and the clock
\* is one of the cases of AlertSteps.
LEMMA NextAlertSteps ==
  ASSUME TypeInv, [Next]_vars
  PROVE  AlertSteps
<1> USE SchedulerAssumption
<1>0. ControlOK /\ DataOK /\ now \in Nat
  BY TypeParts DEF TypeInv, DataOK
<1> DEFINE Same == UNCHANGED <<alertVars, epoch>> /\ now' >= now
<1>1. ASSUME NEW t \in Tasks, TestAlert(t) \/ TestAlertFails(t) PROVE AlertSteps
  <2>1. PICK tk \in Tickers :
          /\ t \in Admins
          /\ \/ Announce(t, <<tk, "signal">>, cooldown, 0)
             \/ StoreFails(t, <<tk, "signal">>, cooldown, 0)
    BY <1>1 DEF TestAlert, TestAlertFails, MayTest
  <2>2. <<tk, "signal">> \in Keys /\ cooldown \in Cooldowns \union {0} /\ t # Poll
    BY <1>0, <2>1 DEF Keys, Kinds, DataOK, Admins
  <2> QED BY <1>0, <2>1, <2>2, AnnounceIsNew, StoreFailsIsNew
<1>2. ASSUME AlertSignal \/ AlertSignalFails PROVE AlertSteps
  <2>1. SignalKey \in Keys /\ job[Poll].ticker \in Tickers
    BY <1>2, SignalKeyType DEF AlertSignal, AlertSignalFails, Running, TypeInv, HasTicker
  <2>2. job[Poll].cool \in Cooldowns \union {0} /\ samples[job[Poll].ticker] \in Nat
    BY <1>0, <2>1 DEF ControlOK, DataOK, Job
  <2>3. ShouldAlert(SignalKey, job[Poll].cool)
    BY <1>2 DEF AlertSignal, AlertSignalFails, Alarming
  <2> QED BY <1>0, <1>2, <2>1, <2>2, <2>3, AnnounceIsNew, StoreFailsIsNew
          DEF AlertSignal, AlertSignalFails
<1>3. ASSUME AlertMismatch \/ AlertMismatchFails PROVE AlertSteps
  <2>1. ReconKey \in Keys /\ cooldown \in Cooldowns \union {0}
    BY <1>0, <1>3, SignalKeyType DEF AlertMismatch, AlertMismatchFails, Suspended, DataOK
  <2> QED BY <1>0, <1>3, <2>1, AnnounceIsNew, StoreFailsIsNew
          DEF AlertMismatch, AlertMismatchFails
<1>4. ASSUME FetchFails \/ StoreTick \/ StoreTickFails \/ Detect \/ DetectFails
               \/ Suppress \/ ReconQuiet \/ ReconFails \/ ReportReturns
      PROVE  Same
  BY <1>0, <1>4 DEF FetchFails, StoreTick, StoreTickFails, Detect, DetectFails, Suppress,
                    ReconQuiet, ReconFails, ReportReturns, alertVars, clockVars
<1>5. ASSUME NEW t \in Tasks,
             BcastSends(t) \/ BcastReturns(t) \/ BcastRaises(t) \/ SlackReturns(t)
      PROVE  Same
  BY <1>0, <1>5 DEF BcastSends, BcastReturns, BcastRaises, SlackReturns, svars,
                    alertVars, clockVars
<1>6. ASSUME PollStart \/ (SocketNext /\ UNCHANGED svars) \/ PostConfig \/ Advance
               \/ UNCHANGED vars
      PROVE  Same
  BY <1>0, <1>6 DEF PollStart, PostConfig, Advance, vars, svars, alertVars, clockVars
<1>7. Same \/ Crash => AlertSteps
  BY DEF AlertSteps
<1> QED BY <1>1, <1>2, <1>3, <1>4, <1>5, <1>6, <1>7 DEF Next, TaskNext, PollNext

\* What adding a row makes of the table.
LEMMA AddRowEffect ==
  ASSUME DataOK, NEW t, NEW key, NEW cool, NEW tick, NEW told,
         AddRow(t, key, cool, tick, told)
  PROVE  /\ Len(alerts) \in Nat
         /\ DOMAIN alerts = 1..Len(alerts)
         /\ DOMAIN alerts' = 1..(Len(alerts) + 1)
         /\ \A i \in DOMAIN alerts : alerts'[i] = alerts[i]
         /\ alerts'[Len(alerts) + 1] =
              [key |-> key, at |-> now, epoch |-> epoch, test |-> t # Poll,
               cool |-> cool, tick |-> tick, told |-> told]
BY DEF AddRow, DataOK

\* The fields of a stored row have their types.
LEMMA RowType ==
  ASSUME DataOK, NEW i \in DOMAIN alerts
  PROVE  /\ alerts[i] \in Row
         /\ alerts[i].at \in Nat /\ alerts[i].epoch \in Nat
         /\ alerts[i].tick \in Nat /\ alerts[i].key \in Keys
         /\ alerts[i].cool \in Nat
<1>1. alerts \in Seq(Row)
  BY DEF DataOK
<1>2. alerts[i] \in Row
  BY <1>1
<1>3. /\ alerts[i].at \in Nat /\ alerts[i].epoch \in Nat
      /\ alerts[i].tick \in Nat /\ alerts[i].key \in Keys
      /\ alerts[i].cool \in Cooldowns \union {0}
  BY <1>2 DEF Row
<1>4. Cooldowns \union {0} \subseteq Nat
  BY SchedulerAssumption
<1> QED BY <1>2, <1>3, <1>4

\* No row is from the future, by the clock or by the process that made it.
PastRows ==
  \A i \in DOMAIN alerts : alerts[i].at <= now /\ alerts[i].epoch <= epoch

\* An alert announced by this process is recorded, or a later one is.
CooldownCoversTable ==
  \A i \in DOMAIN alerts :
    alerts[i].epoch = epoch /\ alerts[i].told =>
      /\ lastAlertAt[alerts[i].key] # Never
      /\ lastAlertAt[alerts[i].key] >= alerts[i].at

\* What is recorded is the time of an alert announced by this process.
RecordsHaveRows ==
  \A k \in Keys : lastAlertAt[k] # Never =>
    \E i \in DOMAIN alerts :
      /\ alerts[i].key = k /\ alerts[i].epoch = epoch /\ alerts[i].told
      /\ alerts[i].at = lastAlertAt[k]

CooldownInv == CooldownSilence /\ CooldownCoversTable /\ RecordsHaveRows /\ PastRows

\* Nothing has been alerted at process start.
LEMMA CooldownInit == Init => CooldownInv
BY DEF Init, CooldownInv, CooldownSilence, CooldownCoversTable, RecordsHaveRows, PastRows

\* A new row keeps the cooldown invariant: should_alert compared it with the last
\* time recorded, and no announced row of this process is later than that.
LEMMA NewAlertCooldown ==
  ASSUME TypeInv, CooldownInv,
         NEW t \in Tasks, NEW key \in Keys, NEW cool \in Cooldowns \union {0},
         NEW tick \in Nat, NEW told \in BOOLEAN, NewAlert(t, key, cool, tick, told)
  PROVE  CooldownInv'
<1> DEFINE n == Len(alerts) + 1
<1>0. DataOK
  BY TypeParts DEF TypeInv
<1>1. /\ n \in Nat /\ DOMAIN alerts = 1..(n - 1) /\ DOMAIN alerts' = 1..n
      /\ \A i \in DOMAIN alerts : alerts'[i] = alerts[i] /\ i < n
      /\ alerts'[n] = [key |-> key, at |-> now, epoch |-> epoch, test |-> t # Poll,
                       cool |-> cool, tick |-> tick, told |-> told]
  BY <1>0, AddRowEffect DEF NewAlert
<1>2. \A i \in DOMAIN alerts' : i \in DOMAIN alerts \/ i = n
  BY <1>1
<1>3. now \in Nat /\ epoch \in Nat /\ now' = now /\ epoch' = epoch
  BY <1>0 DEF DataOK, NewAlert, clockVars
<1>4. PastRows'
  BY <1>1, <1>2, <1>3 DEF PastRows, CooldownInv
<1>5. CooldownCoversTable'
  <2>1. CASE told
    <3>1. lastAlertAt' = [lastAlertAt EXCEPT ![key] = now]
      BY <2>1 DEF NewAlert, RecordAlert
    <3>2. lastAlertAt'[key] = now /\ now # Never
      BY <1>0, <1>3, <3>1, SchedulerAssumption DEF DataOK
    <3>3. \A i \in DOMAIN alerts : alerts[i].key # key =>
            lastAlertAt'[alerts[i].key] = lastAlertAt[alerts[i].key]
      BY <1>0, <3>1, RowType DEF DataOK
    <3> SUFFICES ASSUME NEW i \in DOMAIN alerts',
                        alerts'[i].epoch = epoch', alerts'[i].told
                 PROVE  /\ lastAlertAt'[alerts'[i].key] # Never
                        /\ lastAlertAt'[alerts'[i].key] >= alerts'[i].at
      BY DEF CooldownCoversTable
    <3>4. CASE alerts'[i].key = key
      <4>1. alerts'[i].at <= now
        BY <1>3, <1>4 DEF PastRows
      <4>2. alerts'[i].at \in Nat
        BY <1>0, <1>1, <1>2, <1>3, RowType
      <4> QED BY <1>3, <3>2, <3>4, <4>1, <4>2
    <3>5. CASE alerts'[i].key # key
      <4>1. i \in DOMAIN alerts
        BY <1>1, <1>2, <3>5
      <4> QED BY <1>1, <1>3, <3>3, <3>5, <4>1 DEF CooldownInv, CooldownCoversTable
    <3> QED BY <3>4, <3>5
  <2>2. CASE ~told
    <3>1. lastAlertAt' = lastAlertAt /\ ~alerts'[n].told
      BY <1>1, <2>2 DEF NewAlert
    <3> QED BY <1>1, <1>2, <1>3, <3>1 DEF CooldownInv, CooldownCoversTable
  <2> QED BY <2>1, <2>2
<1>6. CooldownSilence'
  <2> SUFFICES ASSUME NEW i \in DOMAIN alerts', NEW j \in DOMAIN alerts', i < j,
                      alerts'[i].key = alerts'[j].key,
                      alerts'[i].epoch = alerts'[j].epoch,
                      alerts'[i].told, ~alerts'[j].test
               PROVE  alerts'[j].at - alerts'[i].at >= alerts'[j].cool
    BY DEF CooldownSilence
  <2>1. CASE j \in DOMAIN alerts
    <3>1. i \in DOMAIN alerts
      BY <1>1, <2>1
    <3> QED BY <1>1, <2>1, <3>1 DEF CooldownInv, CooldownSilence
  <2>2. CASE j = n
    <3>1. i \in DOMAIN alerts
      BY <1>1, <1>2, <2>2
    <3>0. /\ alerts'[j].key = key /\ alerts'[j].epoch = epoch
          /\ alerts'[j].test = (t # Poll)
      BY <1>1, <2>2
    <3>2. /\ alerts[i].key = key /\ alerts[i].epoch = epoch /\ alerts[i].told
          /\ t = Poll
      BY <1>1, <3>0, <3>1
    <3>3. lastAlertAt[key] # Never /\ lastAlertAt[key] >= alerts[i].at
      BY <3>1, <3>2 DEF CooldownInv, CooldownCoversTable
    <3>4. now - lastAlertAt[key] >= cool
      BY <3>2, <3>3 DEF NewAlert, ShouldAlert
    <3>5. lastAlertAt[key] \in Nat /\ alerts[i].at \in Nat /\ cool \in Nat
      BY <1>0, <3>1, <3>3, RowType, SchedulerAssumption DEF DataOK
    <3>6. now - alerts[i].at >= cool
      BY <1>3, <3>3, <3>4, <3>5
    <3>7. alerts'[i].at = alerts[i].at /\ alerts'[j].at = now /\ alerts'[j].cool = cool
      BY <1>1, <2>2, <3>1
    <3> QED BY <3>6, <3>7
  <2> QED BY <1>2, <2>1, <2>2
<1>7. RecordsHaveRows'
  <2> SUFFICES ASSUME NEW k \in Keys, lastAlertAt'[k] # Never
               PROVE  \E i \in DOMAIN alerts' :
                        /\ alerts'[i].key = k /\ alerts'[i].epoch = epoch' /\ alerts'[i].told
                        /\ alerts'[i].at = lastAlertAt'[k]
    BY DEF RecordsHaveRows
  <2>1. CASE lastAlertAt'[k] = lastAlertAt[k]
    <3>1. PICK i \in DOMAIN alerts :
            /\ alerts[i].key = k /\ alerts[i].epoch = epoch /\ alerts[i].told
            /\ alerts[i].at = lastAlertAt[k]
      BY <2>1 DEF CooldownInv, RecordsHaveRows
    <3>2. i \in DOMAIN alerts' /\ alerts'[i] = alerts[i]
      BY <1>1, <3>1
    <3> QED BY <1>3, <2>1, <3>1, <3>2
  <2>2. CASE lastAlertAt'[k] # lastAlertAt[k]
    <3>1. told /\ lastAlertAt' = [lastAlertAt EXCEPT ![key] = now]
      BY <2>2 DEF NewAlert, RecordAlert
    <3>2. k = key /\ lastAlertAt'[k] = now
      BY <1>0, <2>2, <3>1 DEF DataOK
    <3>3. /\ n \in DOMAIN alerts' /\ alerts'[n].key = key /\ alerts'[n].epoch = epoch
          /\ alerts'[n].told /\ alerts'[n].at = now
      BY <1>1, <3>1
    <3> QED BY <1>3, <3>2, <3>3
  <2> QED BY <2>1, <2>2
<1> QED BY <1>4, <1>5, <1>6, <1>7 DEF CooldownInv

\* Every step keeps the cooldown invariant.
LEMMA CooldownStep == TypeInv /\ CooldownInv /\ [Next]_vars => CooldownInv'
<1> SUFFICES ASSUME TypeInv, CooldownInv, [Next]_vars PROVE CooldownInv'
  OBVIOUS
<1>0. DataOK /\ DataOK'
  BY TypeStep, TypeParts, TypePartsNext DEF TypeInv
<1>1. CASE UNCHANGED <<alertVars, epoch>> /\ now' >= now
  <2>1. \A i \in DOMAIN alerts : alerts[i].at <= now'
    BY <1>0, <1>1, RowType DEF CooldownInv, PastRows, DataOK
  <2> QED BY <1>1, <2>1
          DEF alertVars, CooldownInv, CooldownSilence, CooldownCoversTable, RecordsHaveRows,
              PastRows
<1>2. CASE \E t \in Tasks, key \in Keys, cool \in Cooldowns \union {0},
              tick \in Nat, told \in BOOLEAN : NewAlert(t, key, cool, tick, told)
  BY <1>2, NewAlertCooldown
<1>3. CASE Crash
  <2>1. alerts' = alerts /\ now' = now /\ epoch' = epoch + 1 /\ epoch \in Nat
    BY <1>0, <1>3 DEF Crash, DataOK
  <2>2. \A i \in DOMAIN alerts : alerts[i].epoch <= epoch /\ alerts[i].epoch \in Nat
    BY <1>0, RowType DEF CooldownInv, PastRows
  <2>3. \A i \in DOMAIN alerts : alerts[i].epoch < epoch'
    BY <2>1, <2>2
  <2>4. CooldownCoversTable' /\ PastRows'
    BY <2>1, <2>2, <2>3 DEF CooldownInv, CooldownCoversTable, PastRows
  <2>5. RecordsHaveRows'
    BY <1>3 DEF Crash, RecordsHaveRows
  <2> QED BY <2>1, <2>4, <2>5 DEF CooldownInv, CooldownSilence
<1> QED BY <1>1, <1>2, <1>3, NextAlertSteps DEF AlertSteps

\* The cooldown invariant always holds, beside the types.
LEMMA CooldownInvariant == Spec => [](TypeInv /\ CooldownInv)
<1>1. Init => TypeInv
  BY TypeInit, SchedulerAssumption DEF Init, TypeInv, HasTicker
<1>2. TypeInv /\ CooldownInv /\ [Next]_vars => (TypeInv /\ CooldownInv)'
  BY TypeStep, CooldownStep
<1> QED BY <1>1, CooldownInit, <1>2, PTL DEF Spec

\* One alert, then silence: within one process, no real alert is admitted
\* under a key until its cooldown has passed since every earlier alert that
\* was told, however the tasks interleave and the configuration changes.
THEOREM CooldownIsSilence == Spec => []CooldownSilence
<1>1. CooldownInv => CooldownSilence
  BY DEF CooldownInv
<1> QED BY CooldownInvariant, <1>1, PTL

\* An exception does not lead the poll to the second reading.
LEMMA TurnNotRecon ==
  ASSUME ControlOK, NEW t \in Tasks, Abort(t), pc[Poll] = "decide"
  PROVE  pc'[Poll] # "recon"
BY SchedulerAssumption
   DEF Abort, Answer, LeaveTicker, NextOrReport, FetchNext, Report, Goto, ControlOK

\* A poll goes from its decision to the second reading without an alert only
\* where should_alert says no.
LEMMA PassedOver ==
  ASSUME TypeInv, [Next]_vars, pc[Poll] = "decide", pc'[Poll] = "recon", job[Poll].anomaly
  PROVE  ~ShouldAlert(SignalKey, job[Poll].cool)
<1> USE SchedulerAssumption
<1>0. ControlOK /\ DataOK
  BY TypeParts DEF TypeInv
<1>1. ASSUME NEW t \in Tasks, NEW key, NEW cool, NEW tick,
             Announce(t, key, cool, tick) \/ StoreFails(t, key, cool, tick)
      PROVE  FALSE
  <2>1. CASE Announce(t, key, cool, tick)
    BY <1>0, <2>1 DEF Announce, Goto, ControlOK
  <2>2. CASE StoreFails(t, key, cool, tick)
    BY <1>0, <2>2, TurnNotRecon DEF StoreFails
  <2> QED BY <1>1, <2>1, <2>2
<1>2. ASSUME NEW t \in Tasks, TestAlert(t) \/ TestAlertFails(t)
      PROVE  FALSE
  BY <1>1, <1>2 DEF TestAlert, TestAlertFails
<1>3. ASSUME AlertSignal \/ AlertSignalFails \/ AlertMismatch \/ AlertMismatchFails
      PROVE  FALSE
  BY <1>1, <1>3 DEF AlertSignal, AlertSignalFails, AlertMismatch, AlertMismatchFails
<1>4. CASE Suppress
  BY <1>4 DEF Suppress, Alarming
<1>5. ASSUME FetchFails \/ StoreTick \/ StoreTickFails \/ Detect \/ DetectFails \/ ReconQuiet
               \/ ReconFails \/ ReportReturns \/ PollStart
      PROVE  FALSE
  BY <1>5 DEF FetchFails, StoreTick, StoreTickFails, Detect, DetectFails, ReconQuiet, ReconFails,
              ReportReturns, PollStart, Running, Suspended
<1>6. ASSUME NEW t \in Tasks, BcastReturns(t)
      PROVE  FALSE
  BY <1>0, <1>6 DEF BcastReturns, Goto, ControlOK
<1>7. ASSUME NEW t \in Tasks, BcastRaises(t)
      PROVE  FALSE
  BY <1>0, <1>7, TurnNotRecon DEF BcastRaises
<1>8. ASSUME NEW t \in Tasks, SlackReturns(t)
      PROVE  FALSE
  <2>1. t # Poll /\ Answer(t)
    BY <1>8 DEF SlackReturns, Suspended
  <2> QED BY <1>0, <2>1 DEF Answer, Goto, ControlOK
<1>9. ASSUME NEW t \in Tasks, BcastSends(t)
      PROVE  FALSE
  BY <1>9 DEF BcastSends, svars
<1>10. ASSUME (SocketNext /\ UNCHANGED svars) \/ PostConfig \/ Advance \/ UNCHANGED vars
       PROVE  FALSE
  BY <1>10 DEF svars, PostConfig, Advance, vars
<1>11. ASSUME Crash
       PROVE  FALSE
  BY <1>0, <1>11 DEF Crash, ControlOK
<1> QED BY <1>2, <1>3, <1>4, <1>5, <1>6, <1>7, <1>8, <1>9, <1>10, <1>11
        DEF Next, TaskNext, PollNext

\* An anomaly that no alert is raised for has an announced alert of this process
\* behind it, within the cooldown: what a failed store, another process or
\* another key left does not silence it.
THEOREM SilenceIsCaused == Spec => SilenceHasCause
<1> DEFINE Silenced == pc[Poll] = "decide" /\ pc'[Poll] = "recon" /\ job[Poll].anomaly
           Caused == \E i \in DOMAIN alerts :
                       /\ alerts[i].key = SignalKey /\ alerts[i].epoch = epoch /\ alerts[i].told
                       /\ now - alerts[i].at < job[Poll].cool
<1>1. ASSUME TypeInv, CooldownInv, [Next]_vars,
             Silenced
      PROVE  Caused
  <2>0. ControlOK /\ DataOK
    BY TypeParts, <1>1 DEF TypeInv
  <2>1. SignalKey \in Keys
    BY <1>1, SignalKeyType DEF TypeInv, HasTicker
  <2>2. /\ lastAlertAt[SignalKey] # Never
        /\ ~(now - lastAlertAt[SignalKey] >= job[Poll].cool)
    BY <1>1, PassedOver DEF ShouldAlert
  <2>3. /\ lastAlertAt[SignalKey] \in Nat /\ now \in Nat
        /\ job[Poll].cool \in Nat
    <3>1. lastAlertAt[SignalKey] \in Nat \union {Never} /\ now \in Nat
      BY <2>0, <2>1 DEF DataOK
    <3>2. job[Poll] \in Job
      BY <2>0, SchedulerAssumption DEF ControlOK
    <3>3. job[Poll].cool \in Cooldowns \union {0}
      BY <3>2 DEF Job
    <3>4. Cooldowns \union {0} \subseteq Nat
      BY SchedulerAssumption
    <3> HIDE DEF Silenced, Caused
    <3>5. job[Poll].cool \in Nat
      BY <3>3, <3>4, Zenon
    <3> QED BY <2>2, <3>1, <3>5
  <2>4. now - lastAlertAt[SignalKey] < job[Poll].cool
    BY <2>2, <2>3
  <2> QED BY <1>1, <2>1, <2>2, <2>4 DEF CooldownInv, RecordsHaveRows
<1>2. TypeInv /\ CooldownInv /\ [Next]_vars => [Silenced => Caused]_vars
  <2> HIDE DEF Silenced, Caused
  <2> QED BY <1>1, Zenon
<1>3. TypeInv /\ CooldownInv /\ [Next]_vars
        => [pc[Poll] = "decide" /\ pc'[Poll] = "recon" /\ job[Poll].anomaly =>
              \E i \in DOMAIN alerts :
                /\ alerts[i].key = SignalKey
                /\ alerts[i].epoch = epoch
                /\ alerts[i].told
                /\ now - alerts[i].at < job[Poll].cool]_vars
  BY <1>2, Zenon
<1> HIDE DEF Silenced, Caused
<1> QED BY CooldownInvariant, <1>3, PTL DEF Spec, SilenceHasCause

----------------------------------------------------------------------------
(* The dictionary of last times implements the debounce that remembers     *)
(* every alert.                                                            *)

Told(table, e, i) == table[i].told /\ table[i].epoch = e

Image(table, i) == [key |-> table[i].key, at |-> table[i].at, cool |-> table[i].cool,
                    forced |-> table[i].test]

\* Fired, member by member.
LEMMA FiredIsImage ==
  \A f : f \in Fired <=> \E i \in DOMAIN alerts : Told(alerts, epoch, i) /\ f = Image(alerts, i)
BY DEF Fired, Told, Image

\* The same of the next state.
LEMMA FiredIsImageNext ==
  \A f : f \in Fired' <=>
    \E i \in DOMAIN alerts' : Told(alerts', epoch', i) /\ f = Image(alerts', i)
BY DEF Fired, Told, Image

\* A new row is an admitted or a forced alert of the debounce, or a stutter when
\* it is not announced.
LEMMA NewAlertDebounces ==
  ASSUME TypeInv, CooldownInv,
         NEW t \in Tasks, NEW key \in Keys, NEW cool \in Cooldowns \union {0},
         NEW tick \in Nat, NEW told \in BOOLEAN, NewAlert(t, key, cool, tick, told)
  PROVE  [D!Next]_<<Fired, now>>
<1> DEFINE n == Len(alerts) + 1
           new == [key |-> key, at |-> now, cool |-> cool, forced |-> t # Poll]
<1>0. DataOK
  BY TypeParts DEF TypeInv
<1>1. /\ n \in Nat /\ DOMAIN alerts = 1..(n - 1) /\ DOMAIN alerts' = 1..n
      /\ \A i \in DOMAIN alerts : alerts'[i] = alerts[i]
      /\ alerts'[n] = [key |-> key, at |-> now, epoch |-> epoch, test |-> t # Poll,
                       cool |-> cool, tick |-> tick, told |-> told]
  BY <1>0, AddRowEffect DEF NewAlert
<1>2. n \in DOMAIN alerts' /\ \A i \in DOMAIN alerts' : i \in DOMAIN alerts \/ i = n
  BY <1>1
<1>3. now \in Nat /\ now' = now /\ epoch' = epoch
  BY <1>0 DEF DataOK, NewAlert, clockVars
<1>4. \A i \in DOMAIN alerts :
        /\ i \in DOMAIN alerts'
        /\ Image(alerts', i) = Image(alerts, i)
        /\ Told(alerts', epoch', i) <=> Told(alerts, epoch, i)
  BY <1>1, <1>3 DEF Image, Told
<1>5. (Told(alerts', epoch', n) <=> told) /\ Image(alerts', n) = new
  BY <1>1, <1>3 DEF Image, Told
<1>6. CASE told
  <2>1. Fired' = Fired \union {new}
    BY <1>2, <1>4, <1>5, <1>6, FiredIsImage, FiredIsImageNext
  <2>2. CASE t # Poll
    <3>1. new = D!Alert(key, cool, TRUE)
      BY <2>2 DEF D!Alert
    <3> QED BY <1>3, <2>1, <3>1 DEF D!Next, D!Force
  <2>3. CASE t = Poll
    <3>1. new = D!Alert(key, cool, FALSE)
      BY <2>3 DEF D!Alert
    <3>2. ASSUME NEW f \in Fired, f.key = key PROVE now - f.at >= cool
      <4>1. PICK i \in DOMAIN alerts : Told(alerts, epoch, i) /\ f = Image(alerts, i)
        BY FiredIsImage
      <4>2. f.key = alerts[i].key /\ f.at = alerts[i].at
        BY <4>1 DEF Image
      <4>3. lastAlertAt[key] # Never /\ lastAlertAt[key] >= f.at
        BY <3>2, <4>1, <4>2 DEF Told, CooldownInv, CooldownCoversTable
      <4>4. now - lastAlertAt[key] >= cool
        BY <2>3, <4>3 DEF NewAlert, ShouldAlert
      <4>5. lastAlertAt[key] \in Nat /\ f.at \in Nat /\ cool \in Nat
        BY <1>0, <4>2, <4>3, RowType, SchedulerAssumption DEF DataOK
      <4> QED BY <1>3, <4>3, <4>4, <4>5
    <3> QED BY <1>3, <2>1, <3>1, <3>2 DEF D!Next, D!Admit
  <2> QED BY <2>2, <2>3
<1>7. CASE ~told
  <2>0. \A f : f \in Fired' <=> f \in Fired
    BY <1>2, <1>4, <1>5, <1>7, FiredIsImage, FiredIsImageNext
  <2>1. Fired' = Fired
    BY <2>0 DEF Fired
  <2> QED BY <1>3, <2>1
<1> QED BY <1>6, <1>7

\* Every step of the pipeline is a step of the debounce or a stutter.
LEMMA DebounceStep == TypeInv /\ CooldownInv /\ [Next]_vars => [D!Next]_<<Fired, now>>
<1> SUFFICES ASSUME TypeInv, CooldownInv, [Next]_vars PROVE [D!Next]_<<Fired, now>>
  OBVIOUS
<1>0. DataOK /\ DataOK'
  BY TypeStep, TypeParts, TypePartsNext DEF TypeInv
<1>1. CASE UNCHANGED <<alertVars, epoch>> /\ now' >= now
  <2>1. Fired' = Fired
    BY <1>1 DEF Fired, alertVars
  <2>2. now' = now \/ now' > now
    BY <1>0, <1>1 DEF DataOK
  <2> QED BY <2>1, <2>2 DEF D!Next, D!Advance
<1>2. CASE \E t \in Tasks, key \in Keys, cool \in Cooldowns \union {0},
              tick \in Nat, told \in BOOLEAN : NewAlert(t, key, cool, tick, told)
  BY <1>2, NewAlertDebounces
<1>3. CASE Crash
  <2>1. alerts' = alerts /\ now' = now /\ epoch' = epoch + 1 /\ epoch \in Nat
    BY <1>0, <1>3 DEF Crash, DataOK
  <2>2. \A i \in DOMAIN alerts : alerts[i].epoch # epoch'
    BY <1>0, <2>1, RowType DEF CooldownInv, PastRows
  <2>3. Fired' = {}
    BY <2>1, <2>2, FiredIsImageNext DEF Told
  <2> QED BY <2>1, <2>3 DEF D!Next, D!Restart
<1> QED BY <1>1, <1>2, <1>3, NextAlertSteps DEF AlertSteps

\* AlertManager's cooldown implements the abstract debounce: one last time
\* per key stands for all the alerts since the process started.
THEOREM ImplementsDebounce == Spec => DebounceSpec
<1>1. Init => D!Init
  BY DEF Init, D!Init, Fired
<1> QED BY CooldownInvariant, <1>1, DebounceStep, PTL DEF Spec, DebounceSpec, D!Spec

----------------------------------------------------------------------------
(* Samples and alerts.                                                     *)

\* Where the poll job is between the commit of a sample and the decision
\* about it.
Deciding == pc[Poll] \in {"tick", "decide"}

\* The sample being decided on is warm if it is anomalous, and newer than
\* every one that has raised an alert for this ticker.
FreshSample ==
  Deciding =>
    /\ job[Poll].anomaly => MinSamples < samples[job[Poll].ticker]
    /\ \A i \in DOMAIN alerts :
         alerts[i].key = SignalKey /\ ~alerts[i].test =>
           alerts[i].tick < samples[job[Poll].ticker]

SampleInv == AlertsAreWarm /\ TickAlertsOnce /\ FreshSample

\* The steps that add no row and no sample to decide on.
Calm ==
  /\ UNCHANGED alerts
  /\ \A tk \in Tickers : samples'[tk] >= samples[tk]
  /\ Deciding' => Deciding /\ UNCHANGED samples /\ job'[Poll] = job[Poll]

\* The steps that add a row: a test's, a mismatch's or the sample's own.
RowStep(t, key, cool, tick, told) ==
  /\ AddRow(t, key, cool, tick, told)
  /\ UNCHANGED samples
  /\ t = Poll => ~Deciding'
  /\ t # Poll => pc'[Poll] = pc[Poll] /\ job'[Poll] = job[Poll]
  /\ t = Poll /\ key[2] = "signal" =>
       /\ Deciding /\ job[Poll].anomaly
       /\ key = SignalKey
       /\ tick = samples[job[Poll].ticker]

SampleSteps ==
  \/ Calm
  \/ Detect
  \/ \E t \in Tasks, key \in Keys, cool \in Cooldowns \union {0},
        tick \in Nat, told \in BOOLEAN : RowStep(t, key, cool, tick, told)

\* After the loop's body is left no decision is pending.
LEMMA LeavingDecidesNothing ==
  ASSUME ControlOK, NEW n \in {0, 1}, LeaveTicker(n)
  PROVE  ~Deciding'
BY SchedulerAssumption DEF LeaveTicker, NextOrReport, Report, FetchNext, Goto, ControlOK, Deciding

\* Answering a request leaves the poll job where it is.
LEMMA AnswerKeepsPoll ==
  ASSUME ControlOK, NEW t \in Tasks, t # Poll, Answer(t)
  PROVE  pc'[Poll] = pc[Poll] /\ job'[Poll] = job[Poll]
BY SchedulerAssumption DEF Answer, Goto, ControlOK

\* An exception drops the poll job's pending decision or leaves the poll job alone.
LEMMA AbortOrKeeps ==
  ASSUME ControlOK, NEW t \in Tasks, Abort(t)
  PROVE  /\ t = Poll => ~Deciding'
         /\ t # Poll => pc'[Poll] = pc[Poll] /\ job'[Poll] = job[Poll]
BY LeavingDecidesNothing, AnswerKeepsPoll DEF Abort

\* A step that leaves the baselines alone takes no sample away.
LEMMA SampleUnchanged ==
  ASSUME DataOK, UNCHANGED samples
  PROVE  \A tk \in Tickers : samples'[tk] >= samples[tk]
BY DEF DataOK

\* One more sample of one ticker.
LEMMA SampleAdded ==
  ASSUME DataOK, NEW tk \in Tickers, samples' = [samples EXCEPT ![tk] = @ + 1]
  PROVE  /\ samples'[tk] = samples[tk] + 1
         /\ samples[tk] \in Nat
         /\ \A u \in Tickers : u # tk => samples'[u] = samples[u]
         /\ \A u \in Tickers : samples'[u] >= samples[u]
BY DEF DataOK

\* An added row is one of the cases of SampleSteps.
LEMMA RowSteps ==
  ASSUME TypeInv, NEW t \in Tasks, NEW key \in Keys, NEW cool \in Cooldowns \union {0},
         NEW tick \in Nat,
         Announce(t, key, cool, tick) \/ StoreFails(t, key, cool, tick),
         t = Poll /\ key[2] = "signal" =>
           /\ Deciding /\ job[Poll].anomaly
           /\ key = SignalKey
           /\ tick = samples[job[Poll].ticker]
  PROVE  SampleSteps
<1>0. ControlOK /\ DataOK
  BY TypeParts DEF TypeInv
<1>1. CASE Announce(t, key, cool, tick)
  <2>1. RowStep(t, key, cool, tick, TRUE)
    BY <1>0, <1>1, SchedulerAssumption
       DEF Announce, Goto, tickVars, RowStep, Deciding, ControlOK
  <2> QED BY <2>1 DEF SampleSteps
<1>2. CASE StoreFails(t, key, cool, tick)
  <2>1. /\ t = Poll => ~Deciding'
        /\ t # Poll => pc'[Poll] = pc[Poll] /\ job'[Poll] = job[Poll]
        /\ UNCHANGED samples
    BY <1>0, <1>2, AbortOrKeeps DEF StoreFails, tickVars
  <2>2. CASE AddRow(t, key, cool, tick, FALSE)
    <3>1. RowStep(t, key, cool, tick, FALSE)
      BY <2>1, <2>2 DEF RowStep
    <3> QED BY <3>1 DEF SampleSteps
  <2>3. CASE UNCHANGED alerts
    <3>1. Calm
      BY <1>0, <2>1, <2>3, SampleUnchanged DEF Calm, Deciding
    <3> QED BY <3>1 DEF SampleSteps
  <2> QED BY <1>2, <2>2, <2>3 DEF StoreFails
<1> QED BY <1>1, <1>2

\* What any step does to samples, pending decisions and alerts is one of the
\* cases of SampleSteps.
LEMMA NextSampleSteps ==
  ASSUME TypeInv, [Next]_vars
  PROVE  SampleSteps
<1> USE SchedulerAssumption
<1>0. ControlOK /\ DataOK
  BY TypeParts DEF TypeInv
<1>1. ASSUME NEW t \in Tasks, TestAlert(t) \/ TestAlertFails(t) PROVE SampleSteps
  <2>1. PICK tk \in Tickers :
          /\ t \in Admins
          /\ \/ Announce(t, <<tk, "signal">>, cooldown, 0)
             \/ StoreFails(t, <<tk, "signal">>, cooldown, 0)
    BY <1>1 DEF TestAlert, TestAlertFails, MayTest
  <2>2. <<tk, "signal">> \in Keys /\ cooldown \in Cooldowns \union {0} /\ t # Poll
    BY <1>0, <2>1 DEF Keys, Kinds, DataOK, Admins
  <2> QED BY <2>1, <2>2, RowSteps
<1>2. ASSUME AlertSignal \/ AlertSignalFails PROVE SampleSteps
  <2>1. SignalKey \in Keys /\ job[Poll].ticker \in Tickers
    BY <1>2, SignalKeyType DEF AlertSignal, AlertSignalFails, Running, TypeInv, HasTicker
  <2>2. job[Poll].cool \in Cooldowns \union {0} /\ samples[job[Poll].ticker] \in Nat
    BY <1>0, <2>1 DEF ControlOK, DataOK, Job
  <2>3. Deciding /\ job[Poll].anomaly
    BY <1>2 DEF AlertSignal, AlertSignalFails, Running, Alarming, Deciding
  <2> QED BY <1>2, <2>1, <2>2, <2>3, RowSteps DEF AlertSignal, AlertSignalFails
<1>3. ASSUME AlertMismatch \/ AlertMismatchFails PROVE SampleSteps
  <2>1. ReconKey \in Keys /\ cooldown \in Cooldowns \union {0} /\ ReconKey[2] # "signal"
    BY <1>0, <1>3, SignalKeyType
       DEF AlertMismatch, AlertMismatchFails, Suspended, DataOK, ReconKey
  <2> QED BY <1>3, <2>1, RowSteps DEF AlertMismatch, AlertMismatchFails
<1>4. CASE FetchFails \/ StoreTickFails \/ ReconQuiet \/ ReconFails
  <2>1. UNCHANGED <<alerts, samples>> /\ ~Deciding'
    BY <1>0, <1>4, LeavingDecidesNothing
       DEF FetchFails, StoreTickFails, ReconQuiet, ReconFails, tickVars, alertVars
  <2>2. Calm
    BY <1>0, <2>1, SampleUnchanged DEF Calm
  <2> QED BY <2>2 DEF SampleSteps
<1>5. CASE StoreTick \/ Suppress \/ ReportReturns
  <2>1. UNCHANGED <<alerts, samples>> /\ ~Deciding'
    BY <1>0, <1>5
       DEF StoreTick, Suppress, ReportReturns, Goto, ControlOK, Deciding, tickVars, alertVars
  <2>2. Calm
    BY <1>0, <2>1, SampleUnchanged DEF Calm
  <2> QED BY <2>2 DEF SampleSteps
<1>6. CASE DetectFails
  <2>1. job[Poll].ticker \in Tickers
    BY <1>6 DEF DetectFails, Running, TypeInv, HasTicker
  <2>2. \A tk \in Tickers : samples'[tk] >= samples[tk]
    BY <1>0, <1>6, <2>1, SampleUnchanged, SampleAdded DEF DetectFails, FoldTick
  <2>3. Calm
    BY <1>0, <1>6, <2>2, LeavingDecidesNothing DEF DetectFails, alertVars, Calm
  <2> QED BY <2>3 DEF SampleSteps
<1>7. ASSUME NEW t \in Tasks, BcastSends(t) PROVE SampleSteps
  <2>1. Calm
    BY <1>0, <1>7, SampleUnchanged DEF BcastSends, svars, tickVars, alertVars, Calm, Deciding
  <2> QED BY <2>1 DEF SampleSteps
<1>8. ASSUME NEW t \in Tasks, BcastReturns(t) PROVE SampleSteps
  <2>1. Calm
    BY <1>0, <1>8, SampleUnchanged
       DEF BcastReturns, Goto, ControlOK, tickVars, alertVars, Calm, Deciding
  <2> QED BY <2>1 DEF SampleSteps
<1>9. ASSUME NEW t \in Tasks, BcastRaises(t) PROVE SampleSteps
  <2>1. /\ t = Poll => ~Deciding'
        /\ t # Poll => pc'[Poll] = pc[Poll] /\ job'[Poll] = job[Poll]
        /\ UNCHANGED <<samples, alerts>>
    BY <1>0, <1>9, AbortOrKeeps DEF BcastRaises, tickVars, alertVars
  <2>2. Calm
    BY <1>0, <2>1, SampleUnchanged DEF Calm, Deciding
  <2> QED BY <2>2 DEF SampleSteps
<1>10. ASSUME NEW t \in Tasks, SlackReturns(t) PROVE SampleSteps
  <2>1. UNCHANGED <<samples, alerts>>
    BY <1>10 DEF SlackReturns, tickVars, alertVars
  <2>2. CASE t = Poll
    <3>1. ~Deciding'
      BY <1>0, <1>10, <2>2, LeavingDecidesNothing DEF SlackReturns, Goto, ControlOK, Deciding
    <3>2. Calm
      BY <1>0, <2>1, <3>1, SampleUnchanged DEF Calm
    <3> QED BY <3>2 DEF SampleSteps
  <2>3. CASE t # Poll
    <3>1. pc'[Poll] = pc[Poll] /\ job'[Poll] = job[Poll]
      BY <1>0, <1>10, <2>3, AnswerKeepsPoll DEF SlackReturns
    <3>2. Calm
      BY <1>0, <2>1, <3>1, SampleUnchanged DEF Calm, Deciding
    <3> QED BY <3>2 DEF SampleSteps
  <2> QED BY <2>2, <2>3
<1>11. CASE PollStart \/ Crash
  <2>1. UNCHANGED <<samples, alerts>> /\ ~Deciding'
    BY <1>0, <1>11
       DEF PollStart, Crash, FetchNext, Goto, ControlOK, Deciding, tickVars, alertVars
  <2>2. Calm
    BY <1>0, <2>1, SampleUnchanged DEF Calm
  <2> QED BY <2>2 DEF SampleSteps
<1>12. CASE (SocketNext /\ UNCHANGED svars) \/ PostConfig \/ Advance \/ UNCHANGED vars
  <2>1. Calm
    BY <1>0, <1>12, SampleUnchanged
       DEF PostConfig, Advance, vars, svars, tickVars, alertVars, Calm, Deciding
  <2> QED BY <2>1 DEF SampleSteps
<1>13. Detect => SampleSteps
  BY DEF SampleSteps
<1> QED BY <1>1, <1>2, <1>3, <1>4, <1>5, <1>6, <1>7, <1>8, <1>9, <1>10, <1>11, <1>12, <1>13
        DEF Next, TaskNext, PollNext

\* The key of a pending decision.
LEMMA KeyOf ==
  ASSUME TypeInv, Deciding
  PROVE  /\ job[Poll].ticker \in Tickers
         /\ SignalKey[1] = job[Poll].ticker /\ SignalKey[2] = "signal"
         /\ SignalKey \in Keys
BY DEF TypeInv, HasTicker, Deciding, SignalKey, Keys, Kinds

\* A calm step: samples may only grow, and nothing new is decided on.
LEMMA CalmKeeps ==
  ASSUME TypeInv, SampleInv, TypeInv', Calm
  PROVE  SampleInv'
<1>0. DataOK /\ DataOK'
  BY TypeParts, TypePartsNext DEF TypeInv
<1>1. ASSUME NEW i \in DOMAIN alerts',
             alerts'[i].key[2] = "signal", ~alerts'[i].test
      PROVE  MinSamples < alerts'[i].tick /\ alerts'[i].tick <= samples'[alerts'[i].key[1]]
  <2>1. MinSamples < alerts[i].tick /\ alerts[i].tick <= samples[alerts[i].key[1]]
    BY <1>1 DEF SampleInv, AlertsAreWarm, Calm
  <2>2. alerts[i].key[1] \in Tickers /\ alerts[i].tick \in Nat
    BY <1>0, <1>1, RowType DEF Calm, Keys
  <2>3. samples'[alerts[i].key[1]] >= samples[alerts[i].key[1]]
        /\ samples[alerts[i].key[1]] \in Nat /\ samples'[alerts[i].key[1]] \in Nat
    BY <1>0, <2>2 DEF Calm, DataOK
  <2>4. alerts[i].tick <= samples'[alerts[i].key[1]]
    BY <2>1, <2>2, <2>3
  <2> QED BY <2>1, <2>4 DEF Calm
<1>2. AlertsAreWarm'
  BY <1>1 DEF AlertsAreWarm
<1>3. TickAlertsOnce'
  BY DEF SampleInv, TickAlertsOnce, Calm
<1>4. FreshSample'
  BY DEF SampleInv, FreshSample, Calm, Deciding, SignalKey
<1> QED BY <1>2, <1>3, <1>4 DEF SampleInv

\* Detect: the new sample is newer than all that raised an alert, because
\* those are not beyond the count it increments.
LEMMA DetectKeeps ==
  ASSUME TypeInv, SampleInv, TypeInv', Detect
  PROVE  SampleInv'
<1> DEFINE tk == job[Poll].ticker
<1>0. DataOK /\ DataOK' /\ ControlOK
  BY TypeParts, TypePartsNext DEF TypeInv
<1>1. tk \in Tickers /\ samples' = [samples EXCEPT ![tk] = @ + 1] /\ alerts' = alerts
  BY DEF Detect, FoldTick, Warm, Running, TypeInv, HasTicker, alertVars
<1>2. /\ samples'[tk] = samples[tk] + 1 /\ samples[tk] \in Nat
      /\ \A u \in Tickers : samples'[u] >= samples[u]
  BY <1>0, <1>1, SampleAdded
<1>3. job'[Poll].ticker = tk /\ (job'[Poll].anomaly => MinSamples < samples'[tk])
  <2>1. PICK anomaly \in BOOLEAN :
          /\ anomaly => samples'[tk] > MinSamples
          /\ job' = [job EXCEPT ![Poll] =
                       [ticker |-> tk, kind |-> "signal", anomaly |-> anomaly,
                        cool |-> cooldown, id |-> 0]]
    BY DEF Detect, Warm
  <2>2. job'[Poll].ticker = tk /\ job'[Poll].anomaly = anomaly
    BY <1>0, <2>1, SchedulerAssumption DEF ControlOK
  <2> QED BY <1>2, <2>1, <2>2, SchedulerAssumption
<1>4. ASSUME NEW i \in DOMAIN alerts, alerts[i].key[2] = "signal", ~alerts[i].test
      PROVE  /\ MinSamples < alerts[i].tick
             /\ alerts[i].tick <= samples'[alerts[i].key[1]]
             /\ alerts[i].key[1] = tk => alerts[i].tick < samples'[tk]
  <2>1. MinSamples < alerts[i].tick /\ alerts[i].tick <= samples[alerts[i].key[1]]
    BY <1>4 DEF SampleInv, AlertsAreWarm
  <2>2. alerts[i].key[1] \in Tickers /\ alerts[i].tick \in Nat
    BY <1>0, RowType DEF Keys
  <2>3. samples'[alerts[i].key[1]] >= samples[alerts[i].key[1]]
        /\ samples[alerts[i].key[1]] \in Nat /\ samples'[alerts[i].key[1]] \in Nat
    BY <1>0, <1>2, <2>2 DEF DataOK
  <2> QED BY <1>2, <2>1, <2>2, <2>3
<1>5. AlertsAreWarm'
  BY <1>1, <1>4 DEF AlertsAreWarm
<1>6. TickAlertsOnce'
  BY <1>1 DEF SampleInv, TickAlertsOnce
<1>7. SignalKey' = <<tk, "signal">>
  BY <1>3 DEF SignalKey
<1>8. FreshSample'
  BY <1>1, <1>3, <1>4, <1>7 DEF FreshSample
<1> QED BY <1>5, <1>6, <1>8 DEF SampleInv

\* A new row: only the poll job's own signal carries a sample, and it is the
\* fresh one.
LEMMA RowKeeps ==
  ASSUME TypeInv, SampleInv, TypeInv',
         NEW t \in Tasks, NEW key \in Keys, NEW cool \in Cooldowns \union {0},
         NEW tick \in Nat, NEW told \in BOOLEAN, RowStep(t, key, cool, tick, told)
  PROVE  SampleInv'
<1> DEFINE n == Len(alerts) + 1
           Own == t = Poll /\ key[2] = "signal"
<1>0. DataOK
  BY TypeParts DEF TypeInv
<1>1. /\ n \in Nat /\ DOMAIN alerts = 1..(n - 1) /\ DOMAIN alerts' = 1..n
      /\ \A i \in DOMAIN alerts : alerts'[i] = alerts[i] /\ i < n
      /\ alerts'[n] = [key |-> key, at |-> now, epoch |-> epoch, test |-> t # Poll,
                       cool |-> cool, tick |-> tick, told |-> told]
  BY <1>0, AddRowEffect DEF RowStep
<1>2. \A i \in DOMAIN alerts' : i \in DOMAIN alerts \/ i = n
  BY <1>1
<1>3. /\ alerts'[n].key = key /\ alerts'[n].test = (t # Poll) /\ alerts'[n].tick = tick
      /\ samples' = samples
  BY <1>1 DEF RowStep
<1>4. ASSUME Own
      PROVE  /\ key = SignalKey /\ key[1] = job[Poll].ticker
             /\ tick = samples[job[Poll].ticker] /\ MinSamples < tick
             /\ \A i \in DOMAIN alerts :
                  alerts[i].key = key /\ ~alerts[i].test => alerts[i].tick < tick
  BY <1>4, KeyOf DEF RowStep, SampleInv, FreshSample
<1>5. AlertsAreWarm'
  <2> SUFFICES ASSUME NEW i \in DOMAIN alerts',
                      alerts'[i].key[2] = "signal", ~alerts'[i].test
               PROVE  MinSamples < alerts'[i].tick
                      /\ alerts'[i].tick <= samples'[alerts'[i].key[1]]
    BY DEF AlertsAreWarm
  <2>1. CASE i \in DOMAIN alerts
    BY <1>1, <1>3, <2>1 DEF SampleInv, AlertsAreWarm
  <2>2. CASE i = n
    <3>1. Own
      BY <1>3, <2>2
    <3> QED BY <1>3, <1>4, <2>2, <3>1
  <2> QED BY <1>2, <2>1, <2>2
<1>6. TickAlertsOnce'
  <2> SUFFICES ASSUME NEW i \in DOMAIN alerts', NEW j \in DOMAIN alerts', i < j,
                      alerts'[i].key = alerts'[j].key, alerts'[i].key[2] = "signal",
                      ~alerts'[i].test, ~alerts'[j].test
               PROVE  alerts'[i].tick < alerts'[j].tick
    BY DEF TickAlertsOnce
  <2>0. i \in DOMAIN alerts
    BY <1>1
  <2>1. CASE j \in DOMAIN alerts
    BY <1>1, <2>0, <2>1 DEF SampleInv, TickAlertsOnce
  <2>2. CASE j = n
    <3>1. Own /\ alerts[i].key = key /\ ~alerts[i].test
      BY <1>1, <1>3, <2>0, <2>2
    <3>2. alerts[i].tick < tick
      BY <1>4, <2>0, <3>1
    <3> QED BY <1>1, <1>3, <2>0, <2>2, <3>2
  <2> QED BY <1>2, <2>1, <2>2
<1>7. FreshSample'
  <2>1. CASE t = Poll
    BY <2>1 DEF RowStep, FreshSample
  <2>2. CASE t # Poll
    <3>1. pc'[Poll] = pc[Poll] /\ job'[Poll] = job[Poll] /\ SignalKey' = SignalKey
      BY <2>2 DEF RowStep, SignalKey
    <3>2. alerts'[n].test
      BY <1>3, <2>2
    <3> QED BY <1>1, <1>2, <1>3, <3>1, <3>2 DEF SampleInv, FreshSample, Deciding
  <2> QED BY <2>1, <2>2
<1> QED BY <1>5, <1>6, <1>7 DEF SampleInv

\* The invariant of samples and alerts always holds, beside the types.
LEMMA SampleInvariant == Spec => [](TypeInv /\ SampleInv)
<1>1. Init => TypeInv
  BY TypeInit, SchedulerAssumption DEF Init, TypeInv, HasTicker
<1>2. Init => SampleInv
  BY SchedulerAssumption
     DEF Init, SampleInv, AlertsAreWarm, TickAlertsOnce, FreshSample, Deciding
<1>3. TypeInv /\ SampleInv /\ [Next]_vars => (TypeInv /\ SampleInv)'
  BY TypeStep, NextSampleSteps, CalmKeeps, DetectKeeps, RowKeeps DEF SampleSteps
<1> QED BY <1>1, <1>2, <1>3, PTL DEF Spec

\* One sample of a ticker raises one signal alert at most, whatever crashes,
\* failed commits and cooldowns of zero come in between.
THEOREM TicksAlertOnce == Spec => []TickAlertsOnce
<1>1. SampleInv => TickAlertsOnce
  BY DEF SampleInv
<1> QED BY SampleInvariant, <1>1, PTL

\* No signal alert stands on a baseline that was too young.
THEOREM WarmAlerts == Spec => []AlertsAreWarm
<1>1. SampleInv => AlertsAreWarm
  BY DEF SampleInv
<1> QED BY SampleInvariant, <1>1, PTL

----------------------------------------------------------------------------
(* One cycle of the poll job.                                              *)

\* Where the poll job has its ticker's price, and where it broadcasts.
Working == {"detect", "tick", "decide", "announce", "slack", "recon"}
Sending == {"tick", "announce"}

\* The poll job's frame of broadcast() is alive only while it awaits it.
FrameInv == bcast[Poll].on => pc[Poll] \in Sending

\* Every success counted belongs to a ticker that was fetched, and the ticker
\* at work, fetched as well, has not been counted.
CountInv ==
  /\ queue \intersect fetched = {}
  /\ pc[Poll] = "fetch" => job[Poll].ticker \notin queue \union fetched
  /\ ok <= Cardinality(fetched)
  /\ pc[Poll] \in Working => ok + 1 <= Cardinality(fetched)
  /\ pc[Poll] # "report" => beat = "none"
  /\ beat = "ok" => fetched # {}

\* Between the two commits of a tick the history is one row ahead.
RowInv ==
  /\ BaselineHasHistory
  /\ pc[Poll] = "detect" => samples[job[Poll].ticker] < history[job[Poll].ticker]

CycleInv == FrameInv /\ CountInv /\ RowInv

----------------------------------------------------------------------------
(* What a step can do to the cycle.                                        *)

\* It is another task's, or does not leave the place the poll job is at.
Keep ==
  /\ pc'[Poll] = pc[Poll] /\ job'[Poll] = job[Poll]
  /\ UNCHANGED <<queue, ok, fetched, beat, tickVars>>
  /\ bcast'[Poll].on => bcast[Poll].on

\* The baseline is left alone, or the second commit of a tick is made.
Fold ==
  /\ UNCHANGED history
  /\ \/ UNCHANGED samples
     \/ pc[Poll] = "detect" /\ FoldTick(job[Poll].ticker)

\* It brings the poll job from one place to another within a ticker's turn.
Move ==
  /\ pc[Poll] \in Working /\ pc'[Poll] \in Working \ {"detect"}
  /\ UNCHANGED <<queue, ok, fetched, beat>>
  /\ Fold
  /\ bcast'[Poll].on => pc'[Poll] \in Sending

\* It ends a ticker's turn.
Turn ==
  /\ pc[Poll] \in Working \union {"fetch"}
  /\ \E n \in {0, 1} : LeaveTicker(n) /\ (n = 1 => pc[Poll] \in Working)
  /\ \/ UNCHANGED fetched
     \/ pc[Poll] = "fetch" /\ fetched' = fetched \union {job[Poll].ticker}
  /\ Fold
  /\ ~bcast'[Poll].on

CycleSteps == Keep \/ Move \/ Turn \/ StoreTick \/ PollStart \/ ReportReturns \/ Crash

\* Neither the sockets nor another task's broadcast() begins or revives the
\* poll job's.
LEMMA FramesKeep ==
  ASSUME BTypeOK,
         \/ SocketNext
         \/ \E t \in Tasks : \/ \E c \in Clients : SendNext(t, c)
                             \/ SendReturns(t)
                             \/ EndBroadcast(t) \/ IterationBreaks(t)
                             \/ t # Poll /\ BeginBroadcast(t)
  PROVE  bcast'[Poll].on => bcast[Poll].on
<1> USE SchedulerAssumption
<1>1. \A gone : Without(gone)[Poll].on = bcast[Poll].on
  BY DEF Without, BTypeOK, Frame
<1>2. CASE SocketNext
  <2>1. ASSUME NEW c \in Clients, Connect(c) PROVE bcast'[Poll].on = bcast[Poll].on
    BY <2>1 DEF Connect, BTypeOK, Frame
  <2>2. ASSUME NEW c \in Clients, LoseClient(c) \/ Disconnect(c)
        PROVE  bcast'[Poll].on = bcast[Poll].on
    BY <1>1, <2>2 DEF LoseClient, Disconnect
  <2> QED BY <1>2, <2>1, <2>2 DEF SocketNext
<1>3. ASSUME NEW t \in Tasks, EndBroadcast(t) PROVE bcast'[Poll].on => bcast[Poll].on
  <2> DEFINE W == Without(bcast[t].dead \intersect connections)
  <2>1. W \in [Tasks -> Frame] /\ W[Poll].on = bcast[Poll].on
    BY <1>1, WithoutType DEF BTypeOK
  <2>2. bcast' = [W EXCEPT ![t] = Quiet]
    BY <1>3 DEF EndBroadcast
  <2> HIDE DEF W
  <2> QED BY <2>1, <2>2 DEF Quiet
<1>4. ASSUME NEW t \in Tasks, NEW c \in Clients, SendNext(t, c)
      PROVE  bcast'[Poll].on => bcast[Poll].on
  BY <1>4 DEF SendNext, BTypeOK, Frame
<1>5. ASSUME NEW t \in Tasks, SendReturns(t) PROVE bcast'[Poll].on => bcast[Poll].on
  BY <1>5 DEF SendReturns, BTypeOK, Frame
<1>6. ASSUME NEW t \in Tasks, IterationBreaks(t) \/ (t # Poll /\ BeginBroadcast(t))
      PROVE  bcast'[Poll].on => bcast[Poll].on
  BY <1>6 DEF IterationBreaks, BeginBroadcast, BTypeOK, Quiet
<1> QED BY <1>2, <1>3, <1>4, <1>5, <1>6

\* A frame that ends is no longer alive.
LEMMA FrameEnds ==
  ASSUME BTypeOK, EndBroadcast(Poll) \/ IterationBreaks(Poll)
  PROVE  bcast[Poll].on /\ ~bcast'[Poll].on
<1> USE SchedulerAssumption
<1>1. CASE EndBroadcast(Poll)
  <2> DEFINE W == Without(bcast[Poll].dead \intersect connections)
  <2>1. W \in [Tasks -> Frame]
    BY WithoutType DEF BTypeOK
  <2>2. bcast' = [W EXCEPT ![Poll] = Quiet] /\ bcast[Poll].on
    BY <1>1 DEF EndBroadcast, AtNext
  <2> HIDE DEF W
  <2> QED BY <2>1, <2>2 DEF Quiet
<1>2. CASE IterationBreaks(Poll)
  BY <1>2 DEF IterationBreaks, AtNext, BTypeOK, Quiet
<1> QED BY <1>1, <1>2

\* An alert that is stored, or whose commit fails, by whichever task.
LEMMA AlertCycleSteps ==
  ASSUME TypeInv, CycleInv, NEW t \in Tasks, NEW key \in Keys,
         NEW cool \in Cooldowns \union {0}, NEW tick \in Nat,
         Announce(t, key, cool, tick) \/ StoreFails(t, key, cool, tick),
         t = Poll => pc[Poll] \in {"decide", "recon"}
  PROVE  CycleSteps
<1> USE SchedulerAssumption
<1>0. BTypeOK /\ ControlOK
  BY TypeParts DEF TypeInv
<1>1. CASE Announce(t, key, cool, tick) /\ t # Poll
  <2>1. bcast'[Poll].on => bcast[Poll].on
    BY <1>0, <1>1, FramesKeep DEF Announce
  <2>2. pc'[Poll] = pc[Poll] /\ job'[Poll] = job[Poll]
    BY <1>0, <1>1 DEF Announce, Goto, ControlOK
  <2> QED BY <1>1, <2>1, <2>2 DEF Announce, pollVars, Keep, CycleSteps
<1>2. CASE Announce(t, key, cool, tick) /\ t = Poll
  <2>1. pc'[Poll] = "announce"
    BY <1>0, <1>2 DEF Announce, Goto, ControlOK
  <2> QED BY <1>2, <2>1 DEF Announce, pollVars, tickVars, Move, Working, Sending, Fold, CycleSteps
<1>3. CASE StoreFails(t, key, cool, tick) /\ t # Poll
  BY <1>0, <1>3, AnswerKeepsPoll DEF StoreFails, Abort, Answer, Keep, CycleSteps
<1>4. CASE StoreFails(t, key, cool, tick) /\ t = Poll
  <2>1. ~bcast[Poll].on
    BY <1>4 DEF CycleInv, FrameInv, Sending
  <2> QED BY <1>4, <2>1 DEF StoreFails, Abort, tickVars, Turn, Working, Fold, CycleSteps
<1> QED BY <1>1, <1>2, <1>3, <1>4

\* Every step is one of these.
LEMMA NextCycleSteps ==
  ASSUME TypeInv, CycleInv, [Next]_vars
  PROVE  CycleSteps
<1> USE SchedulerAssumption
<1>0. BTypeOK /\ ControlOK /\ DataOK
  BY TypeParts DEF TypeInv
<1>f. pc[Poll] \notin Sending => ~bcast[Poll].on
  BY DEF CycleInv, FrameInv
<1>1. ASSUME NEW t \in Tasks, TestAlert(t) \/ TestAlertFails(t) PROVE CycleSteps
  <2>1. PICK tk \in Tickers :
          /\ t \in Admins
          /\ \/ Announce(t, <<tk, "signal">>, cooldown, 0)
             \/ StoreFails(t, <<tk, "signal">>, cooldown, 0)
    BY <1>1 DEF TestAlert, TestAlertFails, MayTest
  <2>2. <<tk, "signal">> \in Keys /\ cooldown \in Cooldowns \union {0} /\ t # Poll
    BY <1>0, <2>1 DEF Keys, Kinds, DataOK, Admins
  <2> QED BY <2>1, <2>2, AlertCycleSteps
<1>2. ASSUME AlertSignal \/ AlertSignalFails PROVE CycleSteps
  <2>1. SignalKey \in Keys /\ job[Poll].ticker \in Tickers /\ pc[Poll] = "decide"
    BY <1>2, SignalKeyType DEF AlertSignal, AlertSignalFails, Running, TypeInv, HasTicker
  <2>2. job[Poll].cool \in Cooldowns \union {0} /\ samples[job[Poll].ticker] \in Nat
    BY <1>0, <2>1 DEF ControlOK, DataOK, Job
  <2> QED BY <1>2, <2>1, <2>2, AlertCycleSteps DEF AlertSignal, AlertSignalFails
<1>13. ASSUME AlertMismatch \/ AlertMismatchFails PROVE CycleSteps
  <2>1. /\ ReconKey \in Keys /\ cooldown \in Cooldowns \union {0}
        /\ pc[Poll] = "recon"
    BY <1>0, <1>13, SignalKeyType DEF AlertMismatch, AlertMismatchFails, Suspended, DataOK
  <2> QED BY <1>13, <2>1, AlertCycleSteps DEF AlertMismatch, AlertMismatchFails
<1>3. CASE FetchFails \/ StoreTickFails \/ ReconQuiet \/ ReconFails
  <2>1. Turn
    BY <1>3, <1>f DEF FetchFails, StoreTickFails, ReconQuiet, ReconFails, Suspended,
                      tickVars, Turn, Working, Sending, Fold
  <2> QED BY <2>1 DEF CycleSteps
<1>4. CASE DetectFails
  <2>1. Turn
    BY <1>4, <1>f DEF DetectFails, Running, Turn, Working, Sending, Fold
  <2> QED BY <2>1 DEF CycleSteps
<1>5. CASE Detect
  <2>1. pc[Poll] = "detect" /\ pc'[Poll] = "tick"
    BY <1>0, <1>5 DEF Detect, Running, Goto, ControlOK
  <2>2. Fold /\ UNCHANGED <<queue, ok, fetched, beat>>
    BY <1>5, <2>1 DEF Detect, Fold, pollVars
  <2> QED BY <2>1, <2>2 DEF Move, Working, Sending, CycleSteps
<1>6. CASE Suppress
  <2>1. pc[Poll] = "decide" /\ pc'[Poll] = "recon" /\ ~bcast'[Poll].on
    BY <1>0, <1>6, <1>f DEF Suppress, Running, Goto, ControlOK, Sending
  <2> QED BY <1>6, <2>1 DEF Suppress, pollVars, tickVars, Move, Fold, Working, CycleSteps
<1>7. ASSUME NEW t \in Tasks, BcastSends(t) PROVE CycleSteps
  <2>1. bcast'[Poll].on => bcast[Poll].on
    BY <1>0, <1>7, FramesKeep DEF BcastSends
  <2> QED BY <1>7, <2>1 DEF BcastSends, svars, pollVars, Keep, CycleSteps
<1>8. ASSUME NEW t \in Tasks, BcastReturns(t) PROVE CycleSteps
  <2>1. CASE t # Poll
    <3>1. bcast'[Poll].on => bcast[Poll].on
      BY <1>0, <1>8, FramesKeep DEF BcastReturns
    <3>2. pc'[Poll] = pc[Poll]
      BY <1>0, <1>8, <2>1 DEF BcastReturns, Goto, ControlOK
    <3> QED BY <1>8, <3>1, <3>2 DEF BcastReturns, pollVars, Keep, CycleSteps
  <2>2. CASE t = Poll
    <3>1. ~bcast'[Poll].on
      BY <1>0, <1>8, <2>2, FrameEnds DEF BcastReturns
    <3>2. pc[Poll] \in Working /\ pc'[Poll] \in Working \ {"detect"}
      BY <1>0, <1>8, <2>2 DEF BcastReturns, Goto, ControlOK, Working
    <3> QED BY <1>8, <3>1, <3>2 DEF BcastReturns, pollVars, tickVars, Move, Fold, CycleSteps
  <2> QED BY <2>1, <2>2
<1>9. ASSUME NEW t \in Tasks, BcastRaises(t) PROVE CycleSteps
  <2>1. CASE t # Poll
    <3>1. bcast'[Poll].on => bcast[Poll].on
      BY <1>0, <1>9, FramesKeep DEF BcastRaises
    <3>2. Answer(t)
      BY <1>9, <2>1 DEF BcastRaises, Abort
    <3>3. pc'[Poll] = pc[Poll] /\ job'[Poll] = job[Poll]
      BY <1>0, <2>1, <3>2, AnswerKeepsPoll
    <3>4. UNCHANGED <<queue, ok, fetched, beat, tickVars>>
      BY <1>9, <3>2 DEF BcastRaises, Answer
    <3> QED BY <3>1, <3>3, <3>4 DEF Keep, CycleSteps
  <2>2. CASE t = Poll
    <3>1. bcast[Poll].on /\ ~bcast'[Poll].on
      BY <1>0, <1>9, <2>2, FrameEnds DEF BcastRaises
    <3>2. pc[Poll] \in Sending
      BY <3>1, <1>f
    <3> QED BY <1>9, <2>2, <3>1, <3>2
            DEF BcastRaises, Abort, tickVars, Turn, Fold, Working, Sending, CycleSteps
  <2> QED BY <2>1, <2>2
<1>10. ASSUME NEW t \in Tasks, SlackReturns(t) PROVE CycleSteps
  <2>1. pc[t] = "slack" /\ UNCHANGED <<bcast, fetched, tickVars>>
    BY <1>10 DEF SlackReturns, Suspended
  <2>2. CASE t # Poll
    <3>1. Answer(t)
      BY <1>10, <2>2 DEF SlackReturns
    <3>2. pc'[Poll] = pc[Poll] /\ job'[Poll] = job[Poll]
      BY <1>0, <2>2, <3>1, AnswerKeepsPoll
    <3> QED BY <2>1, <3>1, <3>2 DEF Answer, Keep, CycleSteps
  <2>3. CASE t = Poll /\ LeaveTicker(1)
    <3>1. Turn
      BY <1>f, <2>1, <2>3 DEF tickVars, Turn, Working, Sending, Fold
    <3> QED BY <3>1 DEF CycleSteps
  <2>4. CASE t = Poll /\ Goto(Poll, "recon") /\ UNCHANGED <<queue, ok, beat>>
    <3>1. pc'[Poll] = "recon"
      BY <1>0, <2>4 DEF Goto, ControlOK
    <3> QED BY <1>f, <2>1, <2>4, <3>1 DEF tickVars, Move, Fold, Working, Sending, CycleSteps
  <2> QED BY <1>10, <2>2, <2>3, <2>4 DEF SlackReturns
<1>11. CASE SocketNext /\ UNCHANGED svars
  <2>1. bcast'[Poll].on => bcast[Poll].on
    BY <1>0, <1>11, FramesKeep
  <2> QED BY <1>11, <2>1 DEF svars, pollVars, Keep, CycleSteps
<1>12. CASE PostConfig \/ Advance \/ UNCHANGED vars
  BY <1>12 DEF PostConfig, Advance, vars, bvars, svars, pollVars, Keep, CycleSteps
<1> QED BY <1>1, <1>2, <1>3, <1>4, <1>5, <1>6, <1>7, <1>8, <1>9, <1>10, <1>11, <1>12,
        <1>13 DEF Next, TaskNext, PollNext, CycleSteps

----------------------------------------------------------------------------
(* None of them disturbs the invariant.                                    *)

\* The fetched tickers are finitely many, and one more is one more.
LEMMA FetchedCardinality ==
  ASSUME TypeInv, NEW tk \in Tickers
  PROVE  /\ Cardinality(fetched) \in Nat
         /\ Cardinality({}) = 0
         /\ Cardinality(fetched \union {tk})
              = IF tk \in fetched THEN Cardinality(fetched) ELSE Cardinality(fetched) + 1
<1>1. IsFiniteSet(fetched)
  BY FS_Subset, SchedulerAssumption DEF TypeInv, TypeOK
<1> QED BY <1>1, FS_CardinalityType, FS_EmptySet, FS_AddElement

\* Folding a tick in uses up the row that was ahead.
LEMMA FoldKeepsRows ==
  ASSUME TypeInv, RowInv, Fold, pc'[Poll] # "detect"
  PROVE  RowInv'
<1>1. CASE UNCHANGED samples
  BY <1>1 DEF Fold, RowInv, BaselineHasHistory
<1>2. CASE pc[Poll] = "detect" /\ FoldTick(job[Poll].ticker)
  <2>1. job[Poll].ticker \in Tickers
    BY <1>2 DEF TypeInv, HasTicker
  <2> QED BY <1>2, <2>1 DEF Fold, FoldTick, RowInv, BaselineHasHistory, TypeInv, TypeOK
<1> QED BY <1>1, <1>2 DEF Fold

\* The end of a turn.
LEMMA TurnKeeps ==
  ASSUME TypeInv, CycleInv, Turn
  PROVE  CycleInv'
<1> USE SchedulerAssumption
<1>0. ControlOK
  BY TypeParts DEF TypeInv
<1>1. job[Poll].ticker \in Tickers /\ pc[Poll] \notin {"idle", "report"}
  BY DEF Turn, Working, TypeInv, HasTicker
<1>2. PICK n \in {0, 1} : LeaveTicker(n) /\ (n = 1 => pc[Poll] \in Working)
  BY DEF Turn
<1>3. /\ Cardinality(fetched) \in Nat /\ Cardinality({}) = 0
      /\ Cardinality(fetched') \in Nat
      /\ Cardinality(fetched') >= Cardinality(fetched)
  <2>1. /\ Cardinality(fetched) \in Nat /\ Cardinality({}) = 0
        /\ Cardinality(fetched \union {job[Poll].ticker})
             \in {Cardinality(fetched), Cardinality(fetched) + 1}
    BY <1>1, FetchedCardinality
  <2>2. fetched' = fetched \/ fetched' = fetched \union {job[Poll].ticker}
    BY DEF Turn
  <2> QED BY <2>1, <2>2
<1>4. ok \in Nat /\ ok' = ok + n /\ ok' <= Cardinality(fetched')
  BY <1>0, <1>2, <1>3 DEF LeaveTicker, ControlOK, CycleInv, CountInv
<1>5. queue \intersect fetched' = {} /\ beat = "none"
  BY <1>1 DEF Turn, CycleInv, CountInv
<1>6. CASE \E tk \in queue : FetchNext(tk, queue) /\ UNCHANGED beat
  <2>1. PICK tk \in queue : FetchNext(tk, queue) /\ UNCHANGED beat
    BY <1>6
  <2>2. pc'[Poll] = "fetch" /\ job'[Poll].ticker = tk /\ queue' = queue \ {tk}
    BY <1>0, <2>1 DEF FetchNext, Goto, ControlOK, NoJob
  <2>3. CountInv'
    BY <1>4, <1>5, <2>1, <2>2 DEF CountInv, Working
  <2>4. FrameInv' /\ RowInv'
    BY <2>2, FoldKeepsRows DEF Turn, FrameInv, CycleInv
  <2> QED BY <2>3, <2>4 DEF CycleInv
<1>7. CASE Report
  <2>1. pc'[Poll] = "report" /\ queue' = {}
    BY <1>0, <1>7 DEF Report, Goto, ControlOK
  <2>2. beat' = "ok" => fetched' # {}
    BY <1>3, <1>4, <1>7 DEF Report
  <2>3. CountInv'
    BY <1>4, <2>1, <2>2 DEF CountInv, Working
  <2>4. FrameInv' /\ RowInv'
    BY <2>1, FoldKeepsRows DEF Turn, FrameInv, CycleInv
  <2> QED BY <2>3, <2>4 DEF CycleInv
<1> QED BY <1>2, <1>6, <1>7 DEF LeaveTicker, NextOrReport

\* The first commit of a tick.
LEMMA StoreKeeps ==
  ASSUME TypeInv, CycleInv, StoreTick
  PROVE  CycleInv'
<1> USE SchedulerAssumption
<1>0. ControlOK
  BY TypeParts DEF TypeInv
<1> DEFINE tk == job[Poll].ticker
<1>1. /\ pc[Poll] = "fetch" /\ pc'[Poll] = "detect" /\ tk \in Tickers
      /\ UNCHANGED <<bcast, job, queue, ok, beat, samples>>
      /\ fetched' = fetched \union {tk}
      /\ history' = [history EXCEPT ![tk] = @ + 1]
  BY <1>0 DEF StoreTick, KeepTick, Suspended, Goto, ControlOK, TypeInv, HasTicker
<1>2. CountInv'
  <2>1. ok <= Cardinality(fetched) /\ ok \in Nat /\ tk \notin queue \union fetched
    BY <1>0, <1>1 DEF CycleInv, CountInv, ControlOK
  <2>2. ok + 1 <= Cardinality(fetched') /\ ok <= Cardinality(fetched')
    BY <1>1, <2>1, FetchedCardinality
  <2> QED BY <1>1, <2>1, <2>2 DEF CycleInv, CountInv
<1>3. RowInv'
  BY <1>1 DEF CycleInv, RowInv, BaselineHasHistory, TypeInv, TypeOK
<1>4. FrameInv'
  BY <1>1 DEF CycleInv, FrameInv, Sending
<1> QED BY <1>2, <1>3, <1>4 DEF CycleInv

\* The begin and the end of a cycle, and a crash.
LEMMA EndsKeep ==
  ASSUME TypeInv, CycleInv, PollStart \/ ReportReturns \/ Crash
  PROVE  CycleInv'
<1> USE SchedulerAssumption
<1>0. BTypeOK /\ ControlOK
  BY TypeParts DEF TypeInv
<1>c. Cardinality({}) = 0
  BY FS_EmptySet
<1>1. CASE PollStart
  <2>1. PICK tracked \in SUBSET Tickers : \E tk \in tracked : FetchNext(tk, tracked)
    BY <1>1 DEF PollStart
  <2>2. PICK tk \in tracked : FetchNext(tk, tracked)
    BY <2>1
  <2>3. /\ pc[Poll] = "idle" /\ pc'[Poll] = "fetch" /\ job'[Poll].ticker = tk
        /\ queue' = tracked \ {tk} /\ fetched' = {} /\ ok' = 0
        /\ UNCHANGED <<beat, bcast, tickVars>>
    BY <1>0, <1>1, <2>2 DEF PollStart, Suspended, FetchNext, Goto, bvars, ControlOK, NoJob
  <2>4. CountInv'
    BY <1>c, <2>3 DEF CycleInv, CountInv, Working
  <2> QED BY <2>3, <2>4 DEF CycleInv, FrameInv, RowInv, BaselineHasHistory, Sending, tickVars
<1>2. CASE ReportReturns
  <2>1. /\ pc[Poll] = "report" /\ pc'[Poll] = "idle" /\ beat' = "none"
        /\ UNCHANGED <<bcast, queue, ok, fetched, tickVars>>
    BY <1>0, <1>2 DEF ReportReturns, Suspended, Goto, bvars, ControlOK
  <2> QED BY <2>1 DEF CycleInv, CountInv, FrameInv, RowInv, BaselineHasHistory,
                      Working, Sending, tickVars
<1>3. CASE Crash
  <2>1. /\ pc'[Poll] = "idle" /\ beat' = "none" /\ ok' = 0 /\ fetched' = {} /\ queue' = {}
        /\ ~bcast'[Poll].on /\ UNCHANGED tickVars
    BY <1>3 DEF Crash, Quiet
  <2> QED BY <1>c, <2>1 DEF CycleInv, CountInv, FrameInv, RowInv, BaselineHasHistory,
                            Working, tickVars
<1> QED BY <1>1, <1>2, <1>3

LEMMA CycleStep ==
  ASSUME TypeInv, CycleInv, CycleSteps
  PROVE  CycleInv'
<1>1. CASE Keep
  BY <1>1 DEF Keep, CycleInv, FrameInv, CountInv, RowInv, BaselineHasHistory, tickVars
<1>2. CASE Move
  <2>1. RowInv'
    BY <1>2, FoldKeepsRows DEF Move, CycleInv
  <2> QED BY <1>2, <2>1 DEF Move, CycleInv, FrameInv, CountInv, Working
<1> QED BY <1>1, <1>2, TurnKeeps, StoreKeeps, EndsKeep DEF CycleSteps

LEMMA CycleInit == Init => CycleInv
<1> SUFFICES ASSUME Init PROVE CycleInv
  OBVIOUS
<1> USE SchedulerAssumption
<1>1. FrameInv
  BY DEF Init, BInit, Quiet, FrameInv
<1>2. CountInv
  BY FS_EmptySet DEF Init, CountInv, Working
<1>3. RowInv
  <2>1. PICK n \in 0..MinSamples : history = [tk \in Tickers |-> n]
    BY DEF Init
  <2> QED BY <2>1 DEF Init, RowInv, BaselineHasHistory
<1> QED BY <1>1, <1>2, <1>3 DEF CycleInv

LEMMA CycleInvariant == Spec => []CycleInv
<1>1. TypeInv /\ CycleInv /\ [Next]_vars => CycleInv'
  BY NextCycleSteps, CycleStep
<1> QED BY TypeInvariant, CycleInit, <1>1, PTL DEF Spec

\* The cycle never counts as good a ticker it could not fetch, and does not
\* say "ok" when it could fetch none: for every number of tickers.
THEOREM HonestHeartbeat == Spec => []HeartbeatHonest
<1>1. CycleInv => HeartbeatHonest
  BY DEF CycleInv, CountInv, HeartbeatHonest
<1> QED BY CycleInvariant, <1>1, PTL

\* Each sample of the baseline has its price_history row, wherever a crash or
\* a failed commit fell.
THEOREM SamplesHaveRows == Spec => []BaselineHasHistory
<1>1. CycleInv => BaselineHasHistory
  BY DEF CycleInv, RowInv
<1> QED BY CycleInvariant, <1>1, PTL

----------------------------------------------------------------------------
(* From the table to Slack.                                                *)

\* What a step of the pipeline does to the broadcasts.
SocketSteps ==
  \/ UNCHANGED <<connections, sock, bcast>>
  \/ SocketNext
  \/ \E t \in Tasks : \/ BeginBroadcast(t) /\ UNCHANGED <<connections, sock>>
                      \/ \E c \in Clients : SendNext(t, c)
                      \/ SendReturns(t)
                      \/ EndBroadcast(t)
                      \/ IterationBreaks(t)
  \/ Crash

LEMMA NextSocketSteps == [Next]_vars => SocketSteps
<1> SUFFICES ASSUME [Next]_vars
             PROVE  SocketSteps
  OBVIOUS
<1> USE SchedulerAssumption
<1>1. ASSUME NEW t \in Tasks, NEW key, NEW cool, NEW tick,
             Announce(t, key, cool, tick) \/ StoreFails(t, key, cool, tick)
      PROVE  SocketSteps
  BY <1>1 DEF Announce, StoreFails, socketVars, SocketSteps
<1>2. ASSUME NEW t \in Tasks, TestAlert(t) \/ TestAlertFails(t)
      PROVE  SocketSteps
  BY <1>1, <1>2 DEF TestAlert, TestAlertFails
<1>3. CASE AlertSignal \/ AlertSignalFails \/ AlertMismatch \/ AlertMismatchFails
  BY <1>1, <1>3 DEF AlertSignal, AlertSignalFails, AlertMismatch, AlertMismatchFails
<1>4. CASE Detect
  BY <1>4 DEF Detect, socketVars, SocketSteps
<1>5. CASE \/ FetchFails \/ StoreTick \/ StoreTickFails \/ DetectFails \/ Suppress
           \/ ReconQuiet \/ ReconFails \/ ReportReturns
  BY <1>5 DEF FetchFails, StoreTick, StoreTickFails, DetectFails, Suppress, ReconQuiet,
              ReconFails, ReportReturns, bvars, socketVars, SocketSteps
<1>6. ASSUME NEW t \in Tasks,
             BcastSends(t) \/ BcastReturns(t) \/ BcastRaises(t) \/ SlackReturns(t)
      PROVE  SocketSteps
  BY <1>6 DEF BcastSends, BcastReturns, BcastRaises, SlackReturns, socketVars, SocketSteps
<1>7. CASE PollStart \/ PostConfig \/ Advance \/ UNCHANGED vars
  BY <1>7 DEF PollStart, PostConfig, Advance, vars, bvars, SocketSteps
<1>8. CASE SocketNext \/ Crash
  BY <1>8 DEF SocketSteps
<1> QED BY <1>2, <1>3, <1>4, <1>5, <1>6, <1>7, <1>8 DEF Next, TaskNext, PollNext

\* The walks of the broadcasts keep their invariant within the pipeline, over
\* crashes too: a walk that only its own sends disturb does not see the set
\* change.
LEMMA PipelineWalks == Spec => [](TypeInv /\ WalkInv)
<1>1. ASSUME TypeInv, WalkInv, [Next]_vars
      PROVE  WalkInv'
  <2>1. BTypeOK
    BY <1>1, TypeParts DEF TypeInv
  <2>2. CASE UNCHANGED <<connections, sock, bcast>>
    BY <1>1, <2>2 DEF WalkInv, OwnFailuresDontBreak, WalkStaysInside, DeadAreGone, Undisturbed
  <2>3. CASE Crash
    BY <2>3 DEF Crash, Quiet, WalkInv, OwnFailuresDontBreak, WalkStaysInside, DeadAreGone
  <2> QED BY <1>1, <2>1, <2>2, <2>3, NextSocketSteps, SocketWalk, BeginWalk, SendNextWalk,
             SendReturnsWalk, EndWalk, BreakWalk DEF SocketSteps
<1>2. TypeInv /\ WalkInv /\ [Next]_vars => (TypeInv /\ WalkInv)'
  BY <1>1, TypeStep
<1>3. Init => TypeInv /\ WalkInv
  BY TypeInit, WalkInit, SchedulerAssumption DEF Init, TypeInv, HasTicker
<1> QED BY <1>2, <1>3, PTL DEF Spec

\* Within the pipeline, over crashes and beside the tables, a walk that no other
\* task disturbs never sees the set change size.
THEOREM PipelineWalksHold == Spec => []OwnFailuresDontBreak
<1>1. WalkInv => OwnFailuresDontBreak
  BY DEF WalkInv
<1> QED BY PipelineWalks, <1>1, PTL

\* Within the pipeline only a crash drops a connection whose two ends are up:
\* no clean-up after a broadcast does, however polls, test alerts, departures
\* and reconnections interleave.
THEOREM PipelineKeepsHealthy ==
  Spec => [][epoch' = epoch => \A c \in connections \ connections' : sock[c] # "open"]_vars
<1>1. ASSUME WalkInv, [Next]_vars, epoch' = epoch, TypeInv, NEW c \in connections \ connections'
      PROVE  sock[c] # "open"
  <2>1. epoch \in Nat /\ c \in Clients
    BY <1>1, TypeParts DEF TypeInv, DataOK, BTypeOK
  <2>2. CASE UNCHANGED <<connections, sock, bcast>>
    BY <1>1, <2>2
  <2>3. CASE SocketNext
    BY <1>1, <2>3 DEF SocketNext, Connect, LoseClient, Disconnect, Dropped
  <2>4. ASSUME NEW t \in Tasks,
               \/ BeginBroadcast(t) /\ UNCHANGED <<connections, sock>>
               \/ \E d \in Clients : SendNext(t, d)
               \/ SendReturns(t)
               \/ IterationBreaks(t)
        PROVE  FALSE
    BY <1>1, <2>4 DEF SendNext, SendReturns, IterationBreaks
  <2>5. ASSUME NEW t \in Tasks, EndBroadcast(t)
        PROVE  sock[c] # "open"
    BY <1>1, <2>5 DEF EndBroadcast, WalkInv, DeadAreGone
  <2>6. ~Crash
    BY <1>1, <2>1 DEF Crash
  <2> QED BY <1>1, <2>2, <2>3, <2>4, <2>5, <2>6, NextSocketSteps DEF SocketSteps
<1>2. TypeInv /\ WalkInv /\ [Next]_vars
        => [epoch' = epoch => \A c \in connections \ connections' : sock[c] # "open"]_vars
  BY <1>1
<1> QED BY PipelineWalks, <1>2, PTL DEF Spec

\* Where the poll job goes when a ticker's turn ends, no other task moves.
LEMMA AbortMovesOne ==
  ASSUME ControlOK, NEW t \in Tasks, Abort(t) \/ (t = Poll /\ \E n \in {0, 1} : LeaveTicker(n)),
         NEW u \in Tasks, u # t
  PROVE  pc'[u] = pc[u]
BY DEF Abort, Answer, LeaveTicker, NextOrReport, FetchNext, Report, Goto, ControlOK

\* A task leaves its announcement for Slack, or because the process died, or
\* because its walk broke.
LEMMA LeavesAnnounce ==
  ASSUME TypeInv, [Next]_vars, NEW t \in Tasks, pc[t] = "announce", pc'[t] # "announce"
  PROVE  pc'[t] = "slack" \/ epoch' # epoch \/ IterationBreaks(t)
<1> USE SchedulerAssumption
<1>0. ControlOK /\ DataOK
  BY TypeParts DEF TypeInv
<1>1. ASSUME NEW u \in Tasks, NEW key, NEW cool, NEW tick,
             Announce(u, key, cool, tick) \/ StoreFails(u, key, cool, tick), pc[u] # "announce"
      PROVE  FALSE
  <2>1. CASE StoreFails(u, key, cool, tick)
    BY <1>0, <1>1, <2>1, AbortMovesOne DEF StoreFails
  <2>2. CASE Announce(u, key, cool, tick)
    BY <1>0, <1>1, <2>2 DEF Announce, Goto, ControlOK
  <2> QED BY <1>1, <2>1, <2>2
<1>2. ASSUME NEW u \in Tasks, TestAlert(u) \/ TestAlertFails(u)
      PROVE  FALSE
  <2>1. pc[u] = "idle"
    BY <1>2 DEF TestAlert, TestAlertFails, MayTest, Suspended
  <2> QED BY <1>1, <1>2, <2>1 DEF TestAlert, TestAlertFails
<1>3. ASSUME AlertSignal \/ AlertSignalFails \/ AlertMismatch \/ AlertMismatchFails
      PROVE  FALSE
  <2>1. pc[Poll] \in {"decide", "recon"}
    BY <1>3 DEF AlertSignal, AlertSignalFails, AlertMismatch, AlertMismatchFails, Running,
                Suspended
  <2> QED BY <1>1, <1>3, <2>1
          DEF AlertSignal, AlertSignalFails, AlertMismatch, AlertMismatchFails
<1>4. ASSUME FetchFails \/ StoreTickFails \/ DetectFails \/ ReconQuiet \/ ReconFails
      PROVE  FALSE
  <2>1. t # Poll /\ \E n \in {0, 1} : LeaveTicker(n)
    BY <1>4 DEF FetchFails, StoreTickFails, DetectFails, ReconQuiet, ReconFails, Running,
                Suspended
  <2> QED BY <1>0, <2>1, AbortMovesOne
<1>5. ASSUME StoreTick \/ Detect \/ Suppress \/ ReportReturns \/ PollStart
      PROVE  FALSE
  BY <1>0, <1>5 DEF StoreTick, Detect, Suppress, ReportReturns, PollStart, FetchNext, Running,
                    Suspended, Goto, ControlOK
<1>6. ASSUME NEW u \in Tasks, BcastReturns(u)
      PROVE  pc'[t] = "slack"
  BY <1>0, <1>6 DEF BcastReturns, Goto, ControlOK
<1>7. ASSUME NEW u \in Tasks, BcastRaises(u)
      PROVE  IterationBreaks(t)
  <2>1. u = t
    BY <1>0, <1>7, AbortMovesOne DEF BcastRaises
  <2> QED BY <1>7, <2>1 DEF BcastRaises
<1>8. ASSUME NEW u \in Tasks, SlackReturns(u)
      PROVE  FALSE
  <2>1. u # t
    BY <1>8 DEF SlackReturns, Suspended
  <2>2. \/ u = Poll /\ \E n \in {0, 1} : LeaveTicker(n)
        \/ Answer(u) \/ Goto(u, "recon")
    BY <1>8 DEF SlackReturns
  <2> QED BY <1>0, <2>1, <2>2, AbortMovesOne DEF Answer, Goto, ControlOK
<1>9. ASSUME NEW u \in Tasks, BcastSends(u)
      PROVE  FALSE
  BY <1>9 DEF BcastSends, svars
<1>10. ASSUME (SocketNext /\ UNCHANGED svars) \/ PostConfig \/ Advance \/ UNCHANGED vars
       PROVE  FALSE
  BY <1>10 DEF svars, PostConfig, Advance, vars
<1>11. CASE Crash
  BY <1>0, <1>11 DEF Crash, DataOK
<1> QED BY <1>2, <1>3, <1>4, <1>5, <1>6, <1>7, <1>8, <1>9, <1>10, <1>11
        DEF Next, TaskNext, PollNext

\* What was stored goes on to Slack, however many of its sends fail and whatever
\* the other tasks do: only a crash, or a browser that joins or leaves during
\* the broadcast, comes between.
THEOREM StoredAlertsReachSlack == Spec => AlertsReachSlack
<1>1. ASSUME TypeInv, WalkInv, [Next]_vars, NEW t \in Tasks,
             pc[t] = "announce", pc'[t] # "announce"
      PROVE  pc'[t] = "slack" \/ epoch' # epoch \/ bcast[t].churn
  <2>1. CASE IterationBreaks(t)
    BY <1>1, <2>1 DEF IterationBreaks, AtNext, WalkInv, OwnFailuresDontBreak
  <2> QED BY <1>1, <2>1, LeavesAnnounce
<1>2. TypeInv /\ WalkInv /\ [Next]_vars
        => [\A t \in Tasks : pc[t] = "announce" /\ pc'[t] # "announce" =>
              pc'[t] = "slack" \/ epoch' # epoch \/ bcast[t].churn]_vars
  BY <1>1
<1> QED BY PipelineWalks, <1>2, PTL DEF Spec, AlertsReachSlack
=============================================================================
