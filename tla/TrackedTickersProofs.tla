------------------------ MODULE TrackedTickersProofs ------------------------
(***************************************************************************)
(* Proofs about module TrackedTickers, for every number of requests, every *)
(* set of symbols, every seed and every pair of bounds.                    *)
(***************************************************************************)
EXTENDS TrackedTickers, FiniteSetTheorems, TLAPS

\* Where a request stands tells what it is about.
PlaceOK ==
  \A r \in Requests :
    /\ req[r].op = "none" => req[r].at = "idle"
    /\ req[r].at = "insert" => req[r].op = "add"
    /\ req[r].at \in {"getrow", "delete"} => req[r].op = "remove"
    /\ req[r].op \in {"add", "remove"} => req[r].symbol \in Symbols

TypeInv == TypeOK /\ PlaceOK

\* The operations of the event loop take turns.
Turns ==
  \A r, q \in Requests : req[r].op \in LoopOps /\ req[q].op \in LoopOps => r = q

\* An addition that has been let through still has its place, ...
Room ==
  ~reseeded => \A r \in Requests : req[r].at = "insert" => Cardinality(table) < MaxTickers

\* ... and among what is not of the seed it has one in any case; who is about
\* to seed the table has found it empty.
RoomBesideSeed ==
  \A r \in Requests :
    /\ req[r].at = "insert" => Cardinality(table \ Seed) < MaxTickers
    /\ req[r].at = "seed" => Cardinality(table \ Seed) <= MaxTickers

\* While no removal has overlapped another there is one at a time, ...
Alone == ~overlap => \A r, q \in Requests : Removing(r) /\ Removing(q) => r = q

\* ... and the one that has been let through leaves enough behind.
Spare ==
  ~overlap =>
    /\ Cardinality(table) >= MinTickers
    /\ \A r \in Requests :
         req[r].at \in {"getrow", "delete"} => Cardinality(table) > MinTickers

----------------------------------------------------------------------------
(* Types.                                                                  *)

\* The table is finite, and one symbol more or less changes its size by one
\* at most.
LEMMA TableSize ==
  ASSUME TypeOK, NEW s \in Symbols
  PROVE  /\ Cardinality(table) \in Nat
         /\ Cardinality(table \union {s}) \in {Cardinality(table), Cardinality(table) + 1}
         /\ Cardinality(table \ {s}) \in {Cardinality(table), Cardinality(table) - 1}
<1>1. IsFiniteSet(table)
  BY FS_Subset, TrackedAssumption DEF TypeOK
<1> QED BY <1>1, FS_CardinalityType, FS_AddElement, FS_RemoveElement

\* A table without one symbol is not larger.
LEMMA SmallerTable ==
  ASSUME TypeOK, NEW s
  PROVE  /\ Cardinality(table \ {s}) \in Nat
         /\ Cardinality(table \ {s}) <= Cardinality(table)
<1>1. IsFiniteSet(table) /\ table \ {s} \subseteq table
  BY FS_Subset, TrackedAssumption DEF TypeOK
<1> QED BY <1>1, FS_Subset, FS_CardinalityType

\* A seeded table is not smaller.
LEMMA SeededSize ==
  ASSUME TypeOK
  PROVE  /\ Cardinality(table) \in Nat /\ Cardinality(Seeded) \in Nat
         /\ Cardinality(table) <= Cardinality(Seeded)
<1>1. Seeded \subseteq Symbols /\ table \subseteq Seeded
  BY TrackedAssumption DEF TypeOK, Seeded
<1>2. IsFiniteSet(Seeded)
  BY <1>1, FS_Subset, TrackedAssumption
<1> QED BY <1>1, <1>2, FS_Subset, FS_CardinalityType

\* The initial state is well typed.
LEMMA TypeInit == Init => TypeInv
<1> SUFFICES ASSUME Init PROVE TypeInv
  OBVIOUS
<1>1. Idle \in Request
  BY DEF Idle, Request, Ops, Places
<1>2. TypeOK
  BY <1>1 DEF Init, TypeOK
<1>3. PlaceOK
  BY DEF Init, PlaceOK, Idle
<1> QED BY <1>2, <1>3 DEF TypeInv

\* Where a request goes once it has the list.
LEMMA ListGoes ==
  ASSUME TypeInv, NEW r \in Requests, List(r)
  PROVE  \E place \in {"idle", "seed", "insert", "getrow"} :
           /\ place = "idle" => Answer(r)
           /\ place # "idle" => Goto(r, place)
           /\ place = "insert" => /\ req[r].op = "add"
                                  /\ ~Refused("add", req[r].symbol, table)
           /\ place = "getrow" => /\ req[r].op = "remove"
                                  /\ ~Refused("remove", req[r].symbol, table)
<1>1. CASE Answer(r) \/ Goto(r, "seed")
  BY <1>1
<1>2. CASE /\ req[r].op \notin {"poll", "list"}
           /\ ~Refused(req[r].op, req[r].symbol, table)
           /\ Goto(r, IF req[r].op = "add" THEN "insert" ELSE "getrow")
  <2>1. req[r].op \in {"add", "remove"}
    BY <1>2 DEF List, TypeInv, TypeOK, PlaceOK, Request, Ops
  <2> QED BY <1>2, <2>1
<1> QED BY <1>1, <1>2 DEF List

\* No step breaks the types.
LEMMA TypeStep ==
  ASSUME TypeInv, [Next]_vars
  PROVE  TypeInv'
<1>0. Idle \in Request
  BY DEF Idle, Request, Ops, Places
<1>1. ASSUME NEW r \in Requests, Start(r) PROVE TypeInv'
  <2>1. PICK op \in Ops \ {"none"}, s \in Symbols \union {NoSymbol} :
          /\ s # NoSymbol <=> op \in {"add", "remove"}
          /\ req' = [req EXCEPT ![r] = [op |-> op, symbol |-> s, at |-> "list",
                                        wrote |-> FALSE]]
          /\ overlap' \in BOOLEAN
    BY <1>1 DEF Start
  <2>2. [op |-> op, symbol |-> s, at |-> "list", wrote |-> FALSE] \in Request
    BY DEF Request, Places
  <2>3. TypeOK'
    BY <1>1, <2>1, <2>2 DEF Start, TypeInv, TypeOK
  <2>4. PlaceOK'
    BY <2>1 DEF TypeInv, TypeOK, PlaceOK
  <2> QED BY <2>3, <2>4 DEF TypeInv
<1>2. ASSUME NEW r \in Requests, List(r) PROVE TypeInv'
  <2>1. PICK place \in {"idle", "seed", "insert", "getrow"} :
          /\ place = "idle" => Answer(r)
          /\ place # "idle" => Goto(r, place)
          /\ place = "insert" => req[r].op = "add"
          /\ place = "getrow" => req[r].op = "remove"
    BY <1>2, ListGoes
  <2>2. TypeOK'
    BY <1>0, <1>2, <2>1 DEF List, Answer, Goto, TypeInv, TypeOK, Request, Places
  <2>3. PlaceOK'
    BY <1>2, <2>1 DEF List, Answer, Goto, Idle, TypeInv, TypeOK, Request, PlaceOK
  <2> QED BY <2>2, <2>3 DEF TypeInv
<1>3. ASSUME NEW r \in Requests, SeedTable(r) PROVE TypeInv'
  <2>1. table' \in SUBSET Symbols /\ reseeded' \in BOOLEAN
    BY <1>3, TrackedAssumption DEF SeedTable, Seeded, TypeInv, TypeOK
  <2>2. TypeOK'
    BY <1>3, <2>1 DEF SeedTable, Goto, TypeInv, TypeOK, Request, Places
  <2>3. PlaceOK'
    BY <1>3 DEF SeedTable, Goto, TypeInv, TypeOK, Request, PlaceOK
  <2> QED BY <2>2, <2>3 DEF TypeInv
<1>4. ASSUME NEW r \in Requests, Insert(r) \/ GetRow(r) \/ Delete(r) PROVE TypeInv'
  <2>1. req[r].op \in {"add", "remove"} /\ req[r].symbol \in Symbols
    BY <1>4 DEF Insert, GetRow, Delete, TypeInv, PlaceOK
  <2>2. table' \in SUBSET Symbols
    BY <1>4, <2>1 DEF Insert, GetRow, Delete, TypeInv, TypeOK
  <2>3. TypeOK'
    BY <1>0, <1>4, <2>2 DEF Insert, GetRow, Delete, Goto, Answer, TypeInv, TypeOK, Request, Places
  <2>4. PlaceOK'
    BY <1>4, <2>1 DEF Insert, GetRow, Delete, Goto, Answer, Idle, TypeInv, TypeOK, Request, PlaceOK
  <2> QED BY <2>3, <2>4 DEF TypeInv
<1>5. ASSUME NEW r \in Requests, Fail(r) PROVE TypeInv'
  BY <1>0, <1>5 DEF Fail, Answer, Idle, TypeInv, TypeOK, Request, PlaceOK
<1>6. CASE UNCHANGED vars
  BY <1>6 DEF vars, TypeInv, TypeOK, PlaceOK
<1> QED BY <1>1, <1>2, <1>3, <1>4, <1>5, <1>6 DEF Next, RequestStep

LEMMA TypeInvariant == Spec => []TypeInv
BY TypeInit, TypeStep, PTL DEF Spec

\* Requests, the table and the histories keep their types.
THEOREM TypeCorrect == Spec => []TypeOK
<1>1. TypeInv => TypeOK
  BY DEF TypeInv
<1> QED BY TypeInvariant, <1>1, PTL

----------------------------------------------------------------------------
\* A request goes on without changing what it is about.
Moves(r, place) ==
  \E wrote \in BOOLEAN : req' = [req EXCEPT ![r].at = place, ![r].wrote = wrote]

\* A step of a request ends it or moves it on.
LEMMA StepMoves ==
  ASSUME TypeInv, NEW r \in Requests, RequestStep(r) \/ Fail(r)
  PROVE  Answer(r) \/ \E place \in Places : Moves(r, place)
<1>1. ASSUME NEW place \in Places, Goto(r, place) PROVE Moves(r, place)
  <2>1. req[r].wrote \in BOOLEAN
    BY DEF TypeInv, TypeOK, Request
  <2>2. req' = [req EXCEPT ![r].at = place, ![r].wrote = req[r].wrote]
    BY <1>1 DEF Goto, TypeInv, TypeOK, Request
  <2> QED BY <2>1, <2>2 DEF Moves
<1>2. CASE List(r)
  BY <1>1, <1>2, ListGoes DEF Places
<1>3. CASE SeedTable(r) \/ GetRow(r) \/ Fail(r)
  BY <1>1, <1>3 DEF SeedTable, GetRow, Fail, Places
<1>4. CASE Insert(r) \/ Delete(r)
  <2>1. Answer(r) \/ req' = [req EXCEPT ![r].at = "list", ![r].wrote = TRUE]
    BY <1>4 DEF Insert, Delete
  <2> QED BY <2>1 DEF Moves, Places
<1> QED BY <1>2, <1>3, <1>4 DEF RequestStep

----------------------------------------------------------------------------
(* The maximum.                                                            *)

LEMMA MaxInit == Init => Turns /\ Room /\ RoomBesideSeed
BY DEF Init, Idle, LoopOps, Turns, Room, RoomBesideSeed

\* Only Start gives a request an operation, and it asks for the loop.
LEMMA TurnsStep ==
  ASSUME TypeInv, Turns, [Next]_vars
  PROVE  Turns'
<1>1. ASSUME NEW r \in Requests, Start(r) PROVE Turns'
  <2>1. PICK op \in Ops \ {"none"}, s \in Symbols \union {NoSymbol} :
          /\ op \in LoopOps => LoopIsFree
          /\ req' = [req EXCEPT ![r] = [op |-> op, symbol |-> s, at |-> "list",
                                        wrote |-> FALSE]]
    BY <1>1 DEF Start
  <2> QED BY <2>1 DEF TypeInv, TypeOK, LoopIsFree, Turns
<1>2. ASSUME NEW r \in Requests, RequestStep(r) \/ Fail(r) PROVE Turns'
  <2>1. Answer(r) \/ \E place \in Places : Moves(r, place)
    BY <1>2, StepMoves
  <2>2. CASE Answer(r)
    BY <2>2 DEF Answer, Idle, LoopOps, TypeInv, TypeOK, Turns
  <2>3. CASE \E place \in Places : Moves(r, place)
    <3>1. \A q \in Requests : req'[q].op = req[q].op
      BY <2>3 DEF Moves, TypeInv, TypeOK, Request
    <3> QED BY <3>1 DEF Turns
  <2> QED BY <2>1, <2>2, <2>3
<1>3. CASE UNCHANGED vars
  BY <1>3 DEF vars, Turns
<1> QED BY <1>1, <1>2, <1>3 DEF Next

\* Who inserts has the loop, so that nobody else is about to.
LEMMA InsertsAlone ==
  ASSUME TypeInv, Turns, NEW r \in Requests, Insert(r)
  PROVE  \A q \in Requests :
           /\ req'[q].at # "insert"
           /\ req'[q].at = "seed" => q # r /\ req[q].at = "seed"
<1>1. req[r].op = "add"
  BY DEF Insert, TypeInv, PlaceOK
<1>2. \A q \in Requests : req[q].at = "insert" => q = r
  BY <1>1 DEF Turns, LoopOps, TypeInv, PlaceOK
<1>3. req'[r].at \in {"list", "idle"} /\ \A q \in Requests \ {r} : req'[q] = req[q]
  BY DEF Insert, Answer, Idle, TypeInv, TypeOK, Request
<1> QED BY <1>2, <1>3

\* Apart from a request that inserts or lists, nobody comes to where the
\* table grows.
LEMMA NobodyComes ==
  ASSUME TypeInv, NEW r \in Requests,
         Start(r) \/ SeedTable(r) \/ GetRow(r) \/ Delete(r) \/ Fail(r)
  PROVE  \A q \in Requests :
           req'[q].at \in {"insert", "seed"} => req'[q].at = req[q].at
<1>1. CASE Start(r)
  BY <1>1 DEF Start, TypeInv, TypeOK
<1>2. CASE SeedTable(r) \/ GetRow(r) \/ Delete(r) \/ Fail(r)
  BY <1>2 DEF SeedTable, GetRow, Delete, Fail, Goto, Answer, Idle, TypeInv, TypeOK, Request
<1> QED BY <1>1, <1>2

\* An addition is let through when there is room, and no other can take it.
LEMMA RoomStep ==
  ASSUME TypeInv, Turns, Room, [Next]_vars
  PROVE  Room'
<1>0. MaxTickers \in Nat /\ Cardinality(table) \in Nat
  BY TrackedAssumption, SeededSize DEF TypeInv
<1>1. ASSUME NEW r \in Requests, Start(r) \/ GetRow(r) \/ Fail(r) PROVE Room'
  <2>1. UNCHANGED <<table, reseeded>>
    BY <1>1 DEF Start, GetRow, Fail
  <2> QED BY <1>1, <2>1, NobodyComes DEF Room
<1>2. ASSUME NEW r \in Requests, List(r) PROVE Room'
  <2>1. PICK place \in {"idle", "seed", "insert", "getrow"} :
          /\ place = "idle" => Answer(r)
          /\ place # "idle" => Goto(r, place)
          /\ place = "insert" => ~Refused("add", req[r].symbol, table)
    BY <1>2, ListGoes
  <2>2. place = "insert" => Cardinality(table) < MaxTickers
    BY <1>0, <2>1 DEF Refused
  <2>3. \A q \in Requests : req'[q].at = "insert" =>
          req[q].at = "insert" \/ place = "insert"
    BY <2>1 DEF Answer, Goto, Idle, TypeInv, TypeOK, Request
  <2> QED BY <1>2, <2>2, <2>3 DEF List, Room
<1>3. ASSUME NEW r \in Requests, SeedTable(r) PROVE Room'
  <2>1. reseeded' \/ UNCHANGED <<table, reseeded>>
    BY <1>3 DEF SeedTable
  <2> QED BY <1>3, <2>1, NobodyComes DEF Room
<1>4. ASSUME NEW r \in Requests, Insert(r) PROVE Room'
  BY <1>4, InsertsAlone DEF Room
<1>5. ASSUME NEW r \in Requests, Delete(r) PROVE Room'
  <2>1. Cardinality(table') \in Nat /\ Cardinality(table') <= Cardinality(table)
    BY <1>5, SmallerTable DEF Delete, TypeInv
  <2>2. UNCHANGED reseeded
    BY <1>5 DEF Delete
  <2> QED BY <1>0, <1>5, <2>1, <2>2, NobodyComes DEF Room
<1>6. CASE UNCHANGED vars
  BY <1>6 DEF vars, Room
<1> QED BY <1>1, <1>2, <1>3, <1>4, <1>5, <1>6 DEF Next, RequestStep

\* What is not of the seed has no more members than the table, and a removal
\* takes none to it.
LEMMA BesideSeed ==
  ASSUME TypeOK
  PROVE  /\ Cardinality(table \ Seed) \in Nat
         /\ Cardinality(table \ Seed) <= Cardinality(table)
         /\ \A s : /\ Cardinality((table \ {s}) \ Seed) \in Nat
                   /\ Cardinality((table \ {s}) \ Seed) <= Cardinality(table \ Seed)
         /\ \A s : Cardinality((table \union {s}) \ Seed)
                     \in {Cardinality(table \ Seed), Cardinality(table \ Seed) + 1}
<1>1. IsFiniteSet(table) /\ IsFiniteSet(table \ Seed)
  BY FS_Subset, TrackedAssumption DEF TypeOK
<1>2. ASSUME NEW s
      PROVE  /\ Cardinality((table \ {s}) \ Seed) \in Nat
             /\ Cardinality((table \ {s}) \ Seed) <= Cardinality(table \ Seed)
  <2>1. (table \ {s}) \ Seed \subseteq table \ Seed
    OBVIOUS
  <2> QED BY <1>1, <2>1, FS_Subset, FS_CardinalityType
<1>3. ASSUME NEW s
      PROVE  Cardinality((table \union {s}) \ Seed)
               \in {Cardinality(table \ Seed), Cardinality(table \ Seed) + 1}
  <2>1. CASE s \in Seed
    <3>1. (table \union {s}) \ Seed = table \ Seed
      BY <2>1
    <3> QED BY <3>1
  <2>2. CASE s \notin Seed
    <3>1. (table \union {s}) \ Seed = (table \ Seed) \union {s}
      BY <2>2
    <3>2. Cardinality((table \ Seed) \union {s})
            \in {Cardinality(table \ Seed), Cardinality(table \ Seed) + 1}
      BY <1>1, FS_AddElement
    <3> QED BY <3>1, <3>2
  <2> QED BY <2>1, <2>2
<1>4. Cardinality(table \ Seed) \in Nat /\ Cardinality(table \ Seed) <= Cardinality(table)
  BY <1>1, FS_Subset, FS_CardinalityType
<1> QED BY <1>2, <1>3, <1>4

\* Seeding takes nothing to what is not of the seed, so that reseedings and
\* additions in any order leave it its bound.
LEMMA BesideSeedStep ==
  ASSUME TypeInv, Turns, RoomBesideSeed, [Next]_vars
  PROVE  RoomBesideSeed'
<1>0. /\ MaxTickers \in Nat /\ Cardinality(table) \in Nat
      /\ Cardinality(table \ Seed) \in Nat
      /\ Cardinality(table \ Seed) <= Cardinality(table)
  BY TrackedAssumption, SeededSize, BesideSeed DEF TypeInv
<1>1. ASSUME NEW r \in Requests, Start(r) \/ GetRow(r) \/ Fail(r) PROVE RoomBesideSeed'
  <2>1. UNCHANGED table
    BY <1>1 DEF Start, GetRow, Fail
  <2> QED BY <1>1, <2>1, NobodyComes DEF RoomBesideSeed
<1>2. ASSUME NEW r \in Requests, List(r) PROVE RoomBesideSeed'
  <2>1. PICK place \in {"idle", "seed", "insert", "getrow"} :
          /\ place = "idle" => Answer(r)
          /\ place # "idle" => Goto(r, place)
          /\ place = "insert" => ~Refused("add", req[r].symbol, table)
    BY <1>2, ListGoes
  <2>2. place = "insert" => Cardinality(table) < MaxTickers
    BY <1>0, <2>1 DEF Refused
  <2>3. UNCHANGED table
    BY <1>2 DEF List
  <2>4. req'[r].at = "seed" => Cardinality(table \ Seed) <= MaxTickers
    <3>1. CASE table = {}
      <4>1. table \ Seed = {}
        BY <3>1
      <4> QED BY <1>0, <4>1, FS_EmptySet
    <3>2. CASE table # {}
      <4>1. req'[r].at # "seed"
        BY <1>2, <3>2 DEF List, Answer, Goto, Idle, TypeInv, TypeOK, Request
      <4> QED BY <4>1
    <3> QED BY <3>1, <3>2
  <2>5. req'[r].at = "insert" => place = "insert"
    BY <2>1 DEF Answer, Goto, Idle, TypeInv, TypeOK, Request
  <2>6. \A q \in Requests \ {r} : req'[q] = req[q]
    BY <2>1 DEF Answer, Goto, TypeInv, TypeOK
  <2> QED BY <1>0, <2>2, <2>3, <2>4, <2>5, <2>6 DEF RoomBesideSeed
<1>3. ASSUME NEW r \in Requests, SeedTable(r) PROVE RoomBesideSeed'
  <2>1. table' \ Seed = table \ Seed
    BY <1>3 DEF SeedTable, Seeded
  <2> QED BY <1>3, <2>1, NobodyComes DEF RoomBesideSeed
<1>4. ASSUME NEW r \in Requests, Insert(r) PROVE RoomBesideSeed'
  <2>1. /\ Cardinality(table \ Seed) < MaxTickers
        /\ table' = table \/ table' = table \union {req[r].symbol}
    BY <1>4 DEF Insert, RoomBesideSeed
  <2>2. Cardinality(table' \ Seed)
          \in {Cardinality(table \ Seed), Cardinality(table \ Seed) + 1}
    BY <2>1, BesideSeed DEF TypeInv
  <2>3. Cardinality(table' \ Seed) <= MaxTickers
    BY <1>0, <2>1, <2>2
  <2> QED BY <1>4, <2>3, InsertsAlone DEF RoomBesideSeed
<1>5. ASSUME NEW r \in Requests, Delete(r) PROVE RoomBesideSeed'
  <2>1. /\ Cardinality(table' \ Seed) \in Nat
        /\ Cardinality(table' \ Seed) <= Cardinality(table \ Seed)
    BY <1>5, BesideSeed DEF Delete, TypeInv
  <2> QED BY <1>0, <1>5, <2>1, NobodyComes DEF RoomBesideSeed
<1>6. CASE UNCHANGED vars
  BY <1>6 DEF vars, RoomBesideSeed
<1> QED BY <1>1, <1>2, <1>3, <1>4, <1>5, <1>6 DEF Next, RequestStep

\* The table grows by an insert or by a reseeding.
LEMMA GrowsBy ==
  ASSUME TypeInv, [Next]_vars, Grows
  PROVE  \E r \in Requests :
           \/ Insert(r) /\ table' = table \union {req[r].symbol} /\ req[r].symbol \in Symbols
           \/ SeedTable(r) /\ table' = Seeded /\ reseeded'
<1>1. Cardinality(table) \in Nat
  BY SeededSize DEF TypeInv
<1>2. table' # table
  BY <1>1 DEF Grows
<1>3. ASSUME NEW r \in Requests PROVE ~Delete(r)
  <2>1. Delete(r) => Cardinality(table') \in Nat /\ Cardinality(table') <= Cardinality(table)
    BY SmallerTable DEF Delete, TypeInv
  <2> QED BY <1>1, <2>1 DEF Grows
<1>4. ~UNCHANGED vars
  BY <1>2 DEF vars
<1>5. PICK r \in Requests : Insert(r) \/ SeedTable(r)
  BY <1>2, <1>3, <1>4 DEF Next, RequestStep, Start, List, GetRow, Fail
<1>6. req[r].at = "insert" => req[r].symbol \in Symbols
  BY DEF TypeInv, PlaceOK
<1> QED BY <1>2, <1>5, <1>6 DEF Insert, SeedTable

\* What the additions are proved from.
MaxInv == TypeInv /\ Turns /\ Room /\ RoomBesideSeed

LEMMA MaxInvariant == Spec => []MaxInv
<1>1. Init => Turns /\ Room /\ RoomBesideSeed
  BY MaxInit
<1>2. TypeInv /\ Turns /\ Room /\ RoomBesideSeed /\ [Next]_vars
        => Turns' /\ Room' /\ RoomBesideSeed'
  BY TurnsStep, RoomStep, BesideSeedStep
<1> QED BY TypeInvariant, <1>1, <1>2, PTL DEF Spec, MaxInv

\* Concurrent additions do not take the table beyond the maximum, though each
\* checks the size in one statement and inserts in another, whatever the size
\* of the seed, until a request has found the table empty and filled it.
THEOREM AdditionsKeepMax == Spec => AddsKeepMax
<1>1. ASSUME MaxInv, [Next]_vars, Grows, ~reseeded'
      PROVE  Cardinality(table') <= MaxTickers
  <2>1. PICK r \in Requests : /\ Insert(r) /\ req[r].symbol \in Symbols
                             /\ table' = table \union {req[r].symbol}
    BY <1>1, GrowsBy DEF MaxInv
  <2>2. Cardinality(table) < MaxTickers
    BY <1>1, <2>1 DEF Insert, MaxInv, Room
  <2>3. /\ Cardinality(table) \in Nat
        /\ Cardinality(table') \in {Cardinality(table), Cardinality(table) + 1}
    BY <1>1, <2>1, TableSize DEF MaxInv, TypeInv
  <2> QED BY <2>2, <2>3, TrackedAssumption
<1>2. MaxInv /\ [Next]_vars => [Grows /\ ~reseeded' => Cardinality(table') <= MaxTickers]_vars
  BY <1>1
<1> QED BY MaxInvariant, <1>2, PTL DEF Spec, AddsKeepMax

\* What is not of the seed never grows beyond MAX_TICKERS, whatever the size of
\* the seed.  With a seed beside them, the symbols it takes to violate this are
\* too many for TLC.
AddedKeepMax == [][Grows => Cardinality(table' \ Seed) <= MaxTickers]_vars

\* That holds however often requests reseed the table between another's check
\* and its insert.
THEOREM AddedSymbolsKeepMax == Spec => AddedKeepMax
<1>1. ASSUME MaxInv, [Next]_vars, Grows
      PROVE  Cardinality(table' \ Seed) <= MaxTickers
  <2>1. PICK r \in Requests :
          \/ Insert(r) /\ table' = table \union {req[r].symbol}
          \/ SeedTable(r) /\ table' = Seeded
    BY <1>1, GrowsBy DEF MaxInv
  <2>2. CASE Insert(r) /\ table' = table \union {req[r].symbol}
    <3>1. Cardinality(table \ Seed) < MaxTickers
      BY <1>1, <2>2 DEF Insert, MaxInv, RoomBesideSeed
    <3>2. /\ Cardinality(table \ Seed) \in Nat
          /\ Cardinality(table' \ Seed)
               \in {Cardinality(table \ Seed), Cardinality(table \ Seed) + 1}
      BY <1>1, <2>2, BesideSeed DEF MaxInv, TypeInv
    <3> QED BY <3>1, <3>2, TrackedAssumption
  <2>3. CASE SeedTable(r) /\ table' = Seeded
    <3>1. table' \ Seed = table \ Seed
      BY <2>3 DEF Seeded
    <3> QED BY <1>1, <2>3, <3>1 DEF SeedTable, MaxInv, RoomBesideSeed
  <2> QED BY <2>1, <2>2, <2>3
<1>2. MaxInv /\ [Next]_vars => [Grows => Cardinality(table' \ Seed) <= MaxTickers]_vars
  BY <1>1
<1> QED BY MaxInvariant, <1>2, PTL DEF Spec, AddedKeepMax

----------------------------------------------------------------------------
(* The minimum.                                                            *)

LEMMA MinInit == Init => Alone /\ Spare
<1> SUFFICES ASSUME Init PROVE Alone /\ Spare
  OBVIOUS
<1>1. Cardinality(table) >= MinTickers
  BY DEF Init
<1> QED BY <1>1 DEF Init, Idle, Removing, Alone, Spare

\* A removal that starts beside another is an overlap.
LEMMA AloneStep ==
  ASSUME TypeInv, Alone, [Next]_vars
  PROVE  Alone'
<1>1. ASSUME NEW r \in Requests, Start(r) PROVE Alone'
  <2>1. PICK op \in Ops \ {"none"}, s \in Symbols \union {NoSymbol} :
          /\ req' = [req EXCEPT ![r] = [op |-> op, symbol |-> s, at |-> "list",
                                        wrote |-> FALSE]]
          /\ overlap' = (overlap \/ (op = "remove" /\ \E q \in Requests : Removing(q)))
    BY <1>1 DEF Start
  <2>2. req'[r].op = op /\ \A q \in Requests \ {r} : req'[q] = req[q]
    BY <2>1 DEF TypeInv, TypeOK
  <2> QED BY <2>1, <2>2 DEF Alone, Removing
<1>2. ASSUME NEW r \in Requests, RequestStep(r) \/ Fail(r) PROVE Alone'
  <2>1. Answer(r) \/ \E place \in Places : Moves(r, place)
    BY <1>2, StepMoves
  <2>2. UNCHANGED overlap
    BY <1>2 DEF RequestStep, List, SeedTable, Insert, GetRow, Delete, Fail
  <2>3. \A q \in Requests : req'[q].op \in {"none", req[q].op}
    <3>1. CASE Answer(r)
      BY <3>1 DEF Answer, Idle, TypeInv, TypeOK
    <3>2. CASE \E place \in Places : Moves(r, place)
      BY <3>2 DEF Moves, TypeInv, TypeOK, Request
    <3> QED BY <2>1, <3>1, <3>2
  <2> QED BY <2>2, <2>3 DEF Alone, Removing
<1>3. CASE UNCHANGED vars
  BY <1>3 DEF vars, Alone, Removing
<1> QED BY <1>1, <1>2, <1>3 DEF Next

\* A removal is let through when it leaves enough, and no other takes from it.
LEMMA SpareStep ==
  ASSUME TypeInv, Alone, Spare, [Next]_vars
  PROVE  Spare'
<1> DEFINE Late(q) == req[q].at \in {"getrow", "delete"}
<1>0. MinTickers \in Nat /\ Cardinality(table) \in Nat
  BY TrackedAssumption, SeededSize DEF TypeInv
\* What leaves the table as large as it was needs no more than that it lets
\* no removal through.
<1>a. ASSUME Cardinality(table') \in Nat, Cardinality(table') >= Cardinality(table),
             overlap => overlap',
             \A q \in Requests : Late(q)' => Late(q) \/ Cardinality(table) > MinTickers
      PROVE  Spare'
  BY <1>0, <1>a DEF Spare
<1>1. ASSUME NEW r \in Requests, Start(r) PROVE Spare'
  <2>1. \A q \in Requests : Late(q)' => Late(q)
    BY <1>1 DEF Start, TypeInv, TypeOK
  <2>2. UNCHANGED table /\ (overlap => overlap')
    BY <1>1 DEF Start
  <2> QED BY <1>0, <1>a, <2>1, <2>2
<1>2. ASSUME NEW r \in Requests, List(r) PROVE Spare'
  <2>1. PICK place \in {"idle", "seed", "insert", "getrow"} :
          /\ place = "idle" => Answer(r)
          /\ place # "idle" => Goto(r, place)
          /\ place = "getrow" => ~Refused("remove", req[r].symbol, table)
    BY <1>2, ListGoes
  <2>2. place = "getrow" => Cardinality(table) > MinTickers
    BY <1>0, <2>1 DEF Refused
  <2>3. \A q \in Requests : Late(q)' => Late(q) \/ place = "getrow"
    BY <2>1 DEF Answer, Goto, Idle, TypeInv, TypeOK, Request
  <2>4. UNCHANGED <<table, overlap>>
    BY <1>2 DEF List
  <2> QED BY <1>0, <1>a, <2>2, <2>3, <2>4
<1>3. ASSUME NEW r \in Requests, SeedTable(r) \/ Insert(r) PROVE Spare'
  <2>1. Cardinality(table') \in Nat /\ Cardinality(table') >= Cardinality(table)
    <3>1. CASE table' = Seeded
      BY <3>1, SeededSize DEF TypeInv
    <3>2. CASE table' = table \union {req[r].symbol} /\ Insert(r)
      <4>1. req[r].symbol \in Symbols
        BY <3>2 DEF Insert, TypeInv, PlaceOK
      <4>2. Cardinality(table \union {req[r].symbol})
              \in {Cardinality(table), Cardinality(table) + 1}
        BY <4>1, TableSize DEF TypeInv
      <4>3. Cardinality(table') \in {Cardinality(table), Cardinality(table) + 1}
        BY <3>2, <4>2
      <4> QED BY <1>0, <4>3
    <3>3. CASE UNCHANGED table
      BY <1>0, <3>3
    <3> QED BY <1>3, <3>1, <3>2, <3>3 DEF SeedTable, Insert
  <2>2. \A q \in Requests : Late(q)' => Late(q)
    BY <1>3 DEF SeedTable, Insert, Goto, Answer, Idle, TypeInv, TypeOK, Request
  <2>3. UNCHANGED overlap
    BY <1>3 DEF SeedTable, Insert
  <2> QED BY <1>a, <2>1, <2>2, <2>3
<1>4. ASSUME NEW r \in Requests, GetRow(r) PROVE Spare'
  <2>1. \A q \in Requests : Late(q)' => Late(q)
    BY <1>4 DEF GetRow, Goto, Answer, Idle, TypeInv, TypeOK, Request
  <2>2. UNCHANGED <<table, overlap>>
    BY <1>4 DEF GetRow
  <2> QED BY <1>0, <1>a, <2>1, <2>2
<1>5. ASSUME NEW r \in Requests, Delete(r) PROVE Spare'
  <2>1. Removing(r) /\ req[r].symbol \in Symbols
    BY <1>5 DEF Delete, Removing, TypeInv, PlaceOK
  <2>2. ~overlap => \A q \in Requests : ~Late(q)'
    <3>1. ~overlap => \A q \in Requests : Late(q) => q = r
      BY <2>1 DEF Alone, Removing, TypeInv, PlaceOK
    <3>2. ~Late(r)' /\ \A q \in Requests \ {r} : req'[q] = req[q]
      BY <1>5 DEF Delete, TypeInv, TypeOK, Request
    <3> QED BY <3>1, <3>2
  <2>3. ~overlap => Cardinality(table) > MinTickers
    BY <1>5 DEF Delete, Spare
  <2>4. table' = table \ {req[r].symbol} /\ UNCHANGED overlap
    BY <1>5 DEF Delete
  <2>5. Cardinality(table') \in {Cardinality(table), Cardinality(table) - 1}
    BY <2>1, <2>4, TableSize DEF TypeInv
  <2>6. ~overlap => Cardinality(table') >= MinTickers
    BY <1>0, <2>3, <2>5
  <2> QED BY <2>2, <2>4, <2>6 DEF Spare
<1>6. ASSUME NEW r \in Requests, Fail(r) PROVE Spare'
  <2>1. \A q \in Requests : Late(q)' => Late(q)
    BY <1>6 DEF Fail, Answer, Idle, TypeInv, TypeOK, Request
  <2>2. UNCHANGED <<table, overlap>>
    BY <1>6 DEF Fail
  <2> QED BY <1>0, <1>a, <2>1, <2>2
<1>7. CASE UNCHANGED vars
  BY <1>7 DEF vars, Spare
<1> QED BY <1>1, <1>2, <1>3, <1>4, <1>5, <1>6, <1>7 DEF Next, RequestStep

\* As long as no two removals have overlapped the table keeps its minimum,
\* whatever additions, lists and the poll job do beside them.
THEOREM RemovalsKeepMin == Spec => []RemovesKeepMin
<1>1. Init => Alone /\ Spare
  BY MinInit
<1>2. TypeInv /\ Alone /\ Spare /\ [Next]_vars => Alone' /\ Spare'
  BY AloneStep, SpareStep
<1>3. Spare => RemovesKeepMin
  BY DEF Spare, RemovesKeepMin
<1> QED BY TypeInvariant, <1>1, <1>2, <1>3, PTL DEF Spec
=============================================================================
