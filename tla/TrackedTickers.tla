--------------------------- MODULE TrackedTickers ---------------------------
(***************************************************************************)
(* The editable set of tracked tickers: get_tracked_tickers,               *)
(* add_tracked_ticker and remove_tracked_ticker (app/tracked_tickers.py)   *)
(* behind the endpoints of app/main.py and the poll job.                   *)
(*                                                                         *)
(* add_ticker and poll_cycle are coroutines: what they do to the table     *)
(* they do without an await, one at a time on the event loop.  The other   *)
(* endpoints are plain functions, each on a thread of its own.  A step is  *)
(* one statement of a session; every statement sees what is committed.     *)
(***************************************************************************)
EXTENDS Naturals, FiniteSets

CONSTANTS
  Requests,   \* requests in flight at the same time
  Symbols,    \* ticker symbols
  Seed,       \* settings.tickers, of any size
  MinTickers, MaxTickers,
  NoSymbol

ASSUME TrackedAssumption ==
  /\ IsFiniteSet(Symbols)
  /\ NoSymbol \notin Symbols
  /\ Seed \subseteq Symbols
  /\ MinTickers \in Nat \ {0}
  /\ MaxTickers \in Nat

VARIABLES
  table,     \* table tracked_ticker
  req,       \* the requests
  reseeded,  \* history: a request has found the table empty and filled it
  overlap    \* history: a removal has started while another was under way

vars == <<table, req, reseeded, overlap>>

Ops == {"none", "poll", "list", "add", "remove"}

\* The operations that run on the event loop.
LoopOps == {"poll", "add"}

Places == {"idle", "list", "seed", "insert", "getrow", "delete"}

\* `wrote': the request's own change is committed, and the list being read
\* is its answer.
Request == [op : Ops, symbol : Symbols \union {NoSymbol}, at : Places, wrote : BOOLEAN]

Idle == [op |-> "none", symbol |-> NoSymbol, at |-> "idle", wrote |-> FALSE]

\* The lifespan has filled the table if it was empty, with a seed of any size:
\* this one or, if it was an earlier process, another.  An operator may have
\* edited it since.
Init ==
  /\ table \in {s \in SUBSET Symbols : Cardinality(s) >= MinTickers}
  /\ req = [r \in Requests |-> Idle]
  /\ reseeded = FALSE
  /\ overlap = FALSE

Goto(r, place) == req' = [req EXCEPT ![r].at = place]

Answer(r) == req' = [req EXCEPT ![r] = Idle]

Removing(r) == req[r].op = "remove"

----------------------------------------------------------------------------
\* Mutant of LoopIsFree: add_ticker runs on a thread like the others.
LoopIsAlwaysFree == TRUE

LoopIsFree == \A r \in Requests : req[r].op \notin LoopOps

\* A request (or the poll job) calls its operation.
Start(r) ==
  /\ req[r].op = "none"
  /\ \E op \in Ops \ {"none"}, s \in Symbols \union {NoSymbol} :
       /\ s # NoSymbol <=> op \in {"add", "remove"}
       /\ op \in LoopOps => LoopIsFree
       /\ req' = [req EXCEPT ![r] = [op |-> op, symbol |-> s, at |-> "list",
                                     wrote |-> FALSE]]
       /\ overlap' = (overlap \/ (op = "remove" /\ \E q \in Requests : Removing(q)))
  /\ UNCHANGED <<table, reseeded>>

\* Mutant of Refused: one off where the bounds are checked.
RefusedTooLate(op, s, current) ==
  \/ op = "add" /\ (s \in current \/ Cardinality(current) > MaxTickers)
  \/ op = "remove" /\ (s \notin current \/ Cardinality(current) < MinTickers)

\* What add_tracked_ticker and remove_tracked_ticker make of the list.
Refused(op, s, current) ==
  \/ op = "add" /\ (s \in current \/ Cardinality(current) >= MaxTickers)
  \/ op = "remove" /\ (s \notin current \/ Cardinality(current) <= MinTickers)

\* get_tracked_tickers reads the list.  With a list in hand the request is
\* answered, refused, or goes on to its change.
List(r) ==
  LET op == req[r].op
      answer == op \in {"poll", "list"} \/ req[r].wrote
  IN  /\ req[r].at = "list"
      /\ \/ table = {} /\ Goto(r, "seed")
         \/ /\ table # {}
            /\ answer \/ Refused(op, req[r].symbol, table)
            /\ Answer(r)
         \/ /\ table # {}
            /\ ~answer /\ ~Refused(op, req[r].symbol, table)
            /\ Goto(r, IF op = "add" THEN "insert" ELSE "getrow")
      /\ UNCHANGED <<table, reseeded, overlap>>

\* Mutants of Seeded: an empty item of the comma-separated seed goes in too;
\* the commit is forgotten.
SeededUnstripped == table \union Seed \union {NoSymbol}
SeededUncommitted == table

Seeded == table \union Seed

\* An empty table is filled with the seed in one transaction.  If one of the
\* symbols is there already the commit raises IntegrityError and is rolled
\* back.  Either way the list is read again.
SeedTable(r) ==
  /\ req[r].at = "seed"
  /\ \/ Seed \intersect table = {} /\ table' = Seeded /\ reseeded' = TRUE
     \/ Seed \intersect table # {} /\ UNCHANGED <<table, reseeded>>
  /\ Goto(r, "list")
  /\ UNCHANGED overlap

\* The insert, which raises IntegrityError if the symbol is there.
Insert(r) ==
  /\ req[r].at = "insert"
  /\ \/ /\ req[r].symbol \notin table
        /\ table' = table \union {req[r].symbol}
        /\ req' = [req EXCEPT ![r].at = "list", ![r].wrote = TRUE]
     \/ req[r].symbol \in table /\ Answer(r) /\ UNCHANGED table
  /\ UNCHANGED <<reseeded, overlap>>

\* db.get: without a row, db.delete raises.
GetRow(r) ==
  /\ req[r].at = "getrow"
  /\ \/ req[r].symbol \in table /\ Goto(r, "delete")
     \/ req[r].symbol \notin table /\ Answer(r)
  /\ UNCHANGED <<table, reseeded, overlap>>

\* The delete; if the row has gone by now it matches none, which is a warning.
Delete(r) ==
  /\ req[r].at = "delete"
  /\ table' = table \ {req[r].symbol}
  /\ req' = [req EXCEPT ![r].at = "list", ![r].wrote = TRUE]
  /\ UNCHANGED <<reseeded, overlap>>

\* A statement or a commit fails and the request with it.
Fail(r) ==
  /\ req[r].op # "none"
  /\ Answer(r)
  /\ UNCHANGED <<table, reseeded, overlap>>

RequestStep(r) == List(r) \/ SeedTable(r) \/ Insert(r) \/ GetRow(r) \/ Delete(r)

Next == \E r \in Requests : Start(r) \/ RequestStep(r) \/ Fail(r)

Spec == Init /\ [][Next]_vars

\* Each thread, and the loop, runs on.
FairSpec == Spec /\ \A r \in Requests : WF_vars(RequestStep(r))

----------------------------------------------------------------------------
(* Properties.                                                             *)

TypeOK ==
  /\ table \in SUBSET Symbols
  /\ req \in [Requests -> Request]
  /\ reseeded \in BOOLEAN
  /\ overlap \in BOOLEAN

Grows == Cardinality(table') > Cardinality(table)

\* Concurrent additions do not take the table beyond MAX_TICKERS, though each
\* checks the size in one statement and inserts in another: they take turns on
\* the event loop.  A table that the seed has made larger stays as it is or
\* shrinks; only a reseeding by a request lets the table grow beyond.
AddsKeepMax == [][Grows /\ ~reseeded' => Cardinality(table') <= MaxTickers]_vars

\* Removals that do not overlap another removal keep MIN_TICKERS, whatever
\* additions and lists run beside them.
RemovesKeepMin == ~overlap => Cardinality(table) >= MinTickers

\* "Bounded to MIN_TICKERS-MAX_TICKERS" (the module's docstring), from below.
NeverBelowMin == Cardinality(table) >= MinTickers

\* Once removals have stopped emptying the table, every request ends, the
\* poll job's among them: get_tracked_tickers calls itself again only when it
\* found the table empty, and seeding leaves it so at most while removals go on.
RequestsEnd ==
  <>[][\A r \in Requests : ~Delete(r)]_vars =>
    \A r \in Requests : req[r].op # "none" ~> req[r].op = "none"
=============================================================================
