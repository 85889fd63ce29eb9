------------------------ MODULE RuntimeConfigProofs ------------------------
(* Proofs about the thresholds' row (module RuntimeConfig): its types, that *)
(* seeding it before the first request leaves no request to find it         *)
(* missing, and what an edit may change and does change.                    *)
EXTENDS RuntimeConfig, TLAPS

(***************************************************************************)
(* Types.                                                                  *)
(***************************************************************************)

\* A request that moves stays a request, and the others are left alone.
LEMMA GotoType ==
  ASSUME TypeOK, NEW r \in Requests, NEW p \in Places, Goto(r, p)
  PROVE  /\ req' \in [Requests -> Request]
         /\ req'[r].at = p
         /\ \A q \in Requests \ {r} : req'[q] = req[q]
BY DEF TypeOK, Request, Goto

\* The request at rest is a request.
LEMMA IdleType == Idle \in Request /\ Idle.at = "idle"
BY DEF Idle, Request, NoEdit, Edit, Places

\* A request that ends is at rest, and the others are left alone.
LEMMA DoneType ==
  ASSUME TypeOK, NEW r \in Requests, Done(r)
  PROVE  /\ req' \in [Requests -> Request]
         /\ req'[r].at = "idle"
         /\ \A q \in Requests \ {r} : req'[q] = req[q]
BY IdleType DEF TypeOK, Done

\* get_runtime_config leaves the request in update_runtime_config or at rest.
LEMMA GotType ==
  ASSUME TypeOK, NEW r \in Requests, Got(r)
  PROVE  /\ req' \in [Requests -> Request]
         /\ req'[r].at \in {"idle", "load"}
         /\ \A q \in Requests \ {r} : req'[q] = req[q]
         /\ up' \in BOOLEAN
<1>1. "load" \in Places
  BY DEF Places
<1>2. up' \in BOOLEAN
  BY DEF Got, TypeOK
<1>3. CASE req[r].edits
  BY <1>1, <1>2, <1>3, GotoType DEF Got
<1>4. CASE ~req[r].edits
  BY <1>2, <1>4, DoneType DEF Got
<1> QED BY <1>3, <1>4

\* The row of an UPDATE is a row.
LEMMA UpdatedType ==
  ASSUME TypeOK, NEW r \in Requests, At(r, "write"), req[r].loaded \in Row, row # NoRow
  PROVE  Updated(r) \in Row
<1>1. req[r].edit \in Edit /\ row \in Row
  BY DEF TypeOK, Request
<1>2. ASSUME NEW c \in Columns
      PROVE  Assigned(r)[c] \in Values
  <2>1. c \in Given(r) => req[r].edit[c] \in Values
    BY <1>1 DEF Given, Edit
  <2>2. req[r].loaded[c] \in Values
    BY DEF Row
  <2> QED BY <2>1, <2>2 DEF Assigned
<1> QED BY <1>1, <1>2 DEF Updated, Row

\* Neither does marking what was overwritten change anything else.
LEMMA OverwriteType ==
  ASSUME TypeOK, NEW r \in Requests, NEW columns \in SUBSET Columns
  PROVE  /\ Overwrite(r, columns) \in [Requests -> Request]
         /\ Overwrite(r, columns)[r] = req[r]
         /\ \A q \in Requests \ {r} :
              /\ Overwrite(r, columns)[q].at = req[q].at
              /\ Overwrite(r, columns)[q].loaded = req[q].loaded
              /\ At(q, "write") => Overwrite(r, columns)[q].overwritten
                                     = req[q].overwritten \union columns
BY DEF TypeOK, Request, Overwrite, At

(***************************************************************************)
(* The inductive invariant.                                                *)
(***************************************************************************)

\* Requests run only while they are accepted, and while nobody has deleted the
\* row they are accepted only after the lifespan has seeded it.
Seeding ==
  /\ \A r \in Requests \ {Lifespan} : ~At(r, "idle") => up
  /\ ~removed => (up => row # NoRow)
  /\ SeedBeforeRequests

\* A session about to write knows the row, but for what was overwritten.
Knowing ==
  \A r \in Requests : At(r, "write") =>
    /\ req[r].loaded \in Row
    /\ row = NoRow => req[r].overwritten = Columns
    /\ row # NoRow => \A c \in Columns \ req[r].overwritten : row[c] = req[r].loaded[c]

Inv == TypeOK /\ Seeding /\ Knowing

LEMMA InitInv == Init => Inv
<1> SUFFICES ASSUME Init PROVE Inv
  OBVIOUS
<1>1. TypeOK
  <2>1. starts \in 0..MaxStarts
    BY ConfigAssumption DEF Init
  <2> QED BY <2>1, IdleType DEF Init, TypeOK
<1>2. \A r \in Requests : At(r, "idle")
  BY IdleType DEF Init, At
<1>3. Seeding
  BY <1>2 DEF Init, Seeding, SeedBeforeRequests, At
<1>4. Knowing
  BY <1>2 DEF Knowing, At
<1> QED BY <1>1, <1>3, <1>4 DEF Inv

\* The steps that leave the row alone and move one request to a place other
\* than "write" and, unless the row is missing, "insert".
LEMMA QuietStep ==
  ASSUME Inv, NEW r \in Requests,
         UNCHANGED <<row, env, removed, starts>>,
         up' \in BOOLEAN, up => up', (~removed /\ up') => row # NoRow,
         req' \in [Requests -> Request],
         \A q \in Requests \ {r} : req'[q] = req[q],
         r # Lifespan /\ req'[r].at # "idle" => up,
         req'[r].at = "insert" => row = NoRow,
         req'[r].at = "write" => /\ row # NoRow
                                 /\ req'[r].loaded = row
  PROVE  Inv'
<1>1. TypeOK'
  BY DEF Inv, TypeOK
<1>2. Seeding'
  <2>1. \A q \in Requests \ {Lifespan} : ~At(q, "idle")' => up'
    BY DEF Inv, Seeding, At
  <2>2. ~removed' => (up' => row' # NoRow)
    OBVIOUS
  <2>3. SeedBeforeRequests'
    BY DEF Inv, Seeding, SeedBeforeRequests, At
  <2> QED BY <2>1, <2>2, <2>3 DEF Seeding
<1>3. Knowing'
  <2> SUFFICES ASSUME NEW q \in Requests, req'[q].at = "write"
               PROVE  /\ req'[q].loaded \in Row
                      /\ row' = NoRow => req'[q].overwritten = Columns
                      /\ row' # NoRow => \A c \in Columns \ req'[q].overwritten :
                                           row'[c] = req'[q].loaded[c]
    BY DEF Knowing, At
  <2>1. CASE q = r
    BY <2>1 DEF Inv, TypeOK
  <2>2. CASE q # r
    BY <2>2 DEF Inv, Knowing, At
  <2> QED BY <2>1, <2>2
<1> QED BY <1>1, <1>2, <1>3 DEF Inv

LEMMA NextInv == Inv /\ [Next]_vars => Inv'
<1> SUFFICES ASSUME Inv, [Next]_vars PROVE Inv'
  OBVIOUS
<1> USE DEF At
<1>t. TypeOK
  BY DEF Inv
<1>p. Places = {"idle", "read", "insert", "reread", "load", "write", "answer"}
  BY DEF Places
<1>s. ASSUME NEW r \in Requests, ~At(r, "idle")
      PROVE  r # Lifespan => up
  BY <1>s DEF Inv, Seeding
<1>n. ~removed => (up => row # NoRow)
  BY DEF Inv, Seeding
<1>1. ASSUME NEW r \in Requests, StartRead(r) PROVE Inv'
  <2>1. req' = [req EXCEPT ![r] = [Idle EXCEPT !.at = "read"]]
    BY <1>1 DEF StartRead
  <2>2. [Idle EXCEPT !.at = "read"] \in Request
    BY IdleType, <1>p DEF Request
  <2>3. /\ req' \in [Requests -> Request]
        /\ \A q \in Requests \ {r} : req'[q] = req[q]
        /\ req'[r].at = "read"
    BY <2>1, <2>2, <1>t DEF TypeOK, Idle
  <2>4. r # Lifespan => up
    BY <1>1 DEF StartRead, Accepts
  <2> QED BY <1>1, <2>3, <2>4, <1>t, <1>n, QuietStep DEF StartRead, TypeOK
<1>2. ASSUME NEW r \in Requests, StartEdit(r) PROVE Inv'
  <2>1. PICK edit \in Edit :
          req' = [req EXCEPT ![r] = [Idle EXCEPT !.at = "read", !.edits = TRUE,
                                                 !.edit = edit]]
    BY <1>2 DEF StartEdit
  <2>2. [Idle EXCEPT !.at = "read", !.edits = TRUE, !.edit = edit] \in Request
    BY IdleType, <1>p DEF Request
  <2>3. /\ req' \in [Requests -> Request]
        /\ \A q \in Requests \ {r} : req'[q] = req[q]
        /\ req'[r].at = "read"
    BY <2>1, <2>2, <1>t DEF TypeOK, Idle
  <2>4. r # Lifespan => up
    BY <1>2 DEF StartEdit, Accepts
  <2> QED BY <1>2, <2>3, <2>4, <1>t, <1>n, QuietStep DEF StartEdit, TypeOK
<1>3. ASSUME NEW r \in Requests, Read(r) \/ Reread(r) PROVE Inv'
  <2>1. ~At(r, "idle") /\ UNCHANGED <<row, env, removed, starts>>
    BY <1>3 DEF Read, Reread
  <2>2. CASE row # NoRow /\ Got(r)
    <3>1. up => up'
      BY <2>2 DEF Got
    <3> QED BY <2>1, <2>2, <3>1, <1>t, <1>s, GotType, QuietStep
  <2>3. CASE row = NoRow /\ Goto(r, "insert") /\ UNCHANGED up
    <3>1. /\ req' \in [Requests -> Request]
          /\ req'[r].at = "insert"
          /\ \A q \in Requests \ {r} : req'[q] = req[q]
      BY <2>3, <1>t, <1>p, GotoType
    <3> QED BY <2>1, <2>3, <3>1, <1>t, <1>s, <1>n, QuietStep DEF TypeOK
  <2>4. CASE Done(r) /\ UNCHANGED up
    BY <2>1, <2>4, <1>t, <1>n, DoneType, QuietStep DEF TypeOK
  <2> QED BY <1>3, <2>2, <2>3, <2>4 DEF Read, Reread
<1>4. ASSUME NEW r \in Requests, Insert(r) PROVE Inv'
  <2>1. row' \in Row /\ row' # NoRow /\ (row # NoRow => row' = row)
    BY <1>4, <1>t, ConfigAssumption DEF Insert, Seeded, TypeOK, Row
  <2>2. /\ req' \in [Requests -> Request]
        /\ req'[r].at = "reread"
        /\ \A q \in Requests \ {r} : req'[q] = req[q]
    BY <1>4, <1>t, <1>p, GotoType DEF Insert
  <2>3. TypeOK'
    BY <1>4, <1>t, <2>1, <2>2 DEF Insert, TypeOK
  <2>4. Seeding'
    <3>1. \A q \in Requests \ {Lifespan} : ~At(q, "idle")' => up'
      BY <1>4, <1>s, <2>2 DEF Insert
    <3>2. SeedBeforeRequests'
      BY <1>4, <2>2 DEF Inv, Seeding, SeedBeforeRequests, Insert
    <3> QED BY <2>1, <3>1, <3>2 DEF Seeding
  <2>5. Knowing'
    BY <2>1, <2>2 DEF Inv, Knowing
  <2> QED BY <2>3, <2>4, <2>5 DEF Inv
<1>5. ASSUME NEW r \in Requests, Load(r) PROVE Inv'
  <2>1. CASE row = NoRow /\ Done(r)
    BY <1>5, <2>1, <1>t, <1>n, DoneType, QuietStep DEF Load, TypeOK
  <2>2. CASE row # NoRow /\ req' = [req EXCEPT ![r].at = "write", ![r].loaded = row]
    <3>1. /\ req' \in [Requests -> Request]
          /\ req'[r].at = "write" /\ req'[r].loaded = row
          /\ \A q \in Requests \ {r} : req'[q] = req[q]
      <4>1. req[r] \in Request /\ row \in Row /\ "write" \in Places
        BY <2>2, <1>t, <1>p DEF TypeOK
      <4>2. [req[r] EXCEPT !.at = "write", !.loaded = row] \in Request
        BY <4>1 DEF Request
      <4>3. req' = [req EXCEPT ![r] = [req[r] EXCEPT !.at = "write", !.loaded = row]]
        BY <2>2, <1>t DEF TypeOK, Request
      <4>4. req'[r] = [req[r] EXCEPT !.at = "write", !.loaded = row]
        BY <1>t, <4>3 DEF TypeOK
      <4>5. req'[r].at = "write" /\ req'[r].loaded = row
        BY <4>1, <4>4 DEF Request
      <4> QED BY <1>t, <4>2, <4>3, <4>5 DEF TypeOK
    <3>2. ~At(r, "idle") /\ UNCHANGED <<row, env, up, removed, starts>>
      BY <1>5 DEF Load, At
    <3>3. up' \in BOOLEAN /\ (up => up')
      BY <3>2, <1>t DEF TypeOK
    <3>4. r # Lifespan => up
      BY <1>s, <3>2
    <3> QED BY <2>2, <3>1, <3>2, <3>3, <3>4, QuietStep
  <2> QED BY <1>5, <2>1, <2>2 DEF Load
<1>6. ASSUME NEW r \in Requests, Write(r) PROVE Inv'
  <2>0. At(r, "write") /\ UNCHANGED <<env, up, removed, starts>> /\ req[r].loaded \in Row
    BY <1>6 DEF Write, Inv, Knowing
  <2>1. CASE Goto(r, "answer") /\ UNCHANGED row
    <3>1. /\ req' \in [Requests -> Request]
          /\ req'[r].at = "answer"
          /\ \A q \in Requests \ {r} : req'[q] = req[q]
      BY <2>1, <1>t, <1>p, GotoType
    <3> QED BY <2>0, <2>1, <3>1, <1>t, <1>s, <1>n, QuietStep DEF TypeOK
  <2>2. CASE Done(r) /\ UNCHANGED row
    BY <2>0, <2>2, <1>t, <1>n, DoneType, QuietStep DEF TypeOK
  <2>3. CASE /\ row # NoRow /\ row' = Updated(r)
             /\ req' = [Overwrite(r, {c \in Columns : row'[c] # row[c]})
                          EXCEPT ![r].at = "answer"]
    <3> DEFINE changed == {c \in Columns : row'[c] # row[c]}
    <3>1. row' \in Row /\ row' # NoRow
      BY <2>0, <2>3, <1>t, UpdatedType, ConfigAssumption DEF Row
    <3>2. /\ Overwrite(r, changed) \in [Requests -> Request]
          /\ \A q \in Requests \ {r} :
               /\ Overwrite(r, changed)[q].at = req[q].at
               /\ Overwrite(r, changed)[q].loaded = req[q].loaded
               /\ At(q, "write") => Overwrite(r, changed)[q].overwritten
                                      = req[q].overwritten \union changed
      BY <1>t, OverwriteType
    <3>3. /\ req' \in [Requests -> Request]
          /\ req'[r].at = "answer"
          /\ \A q \in Requests \ {r} : req'[q] = Overwrite(r, changed)[q]
      <4> HIDE DEF changed
      <4>1. req' = [Overwrite(r, changed) EXCEPT ![r].at = "answer"]
        BY <2>3 DEF changed
      <4> QED BY <3>2, <4>1, <1>p DEF Request
    <3>4. TypeOK'
      BY <2>0, <3>1, <3>3, <1>t DEF TypeOK
    <3>5. Seeding'
      <4>1. \A q \in Requests \ {Lifespan} : ~At(q, "idle")' => up'
        BY <2>0, <3>2, <3>3, <1>s
      <4>2. SeedBeforeRequests'
        BY <2>0, <3>2, <3>3 DEF Inv, Seeding, SeedBeforeRequests
      <4> QED BY <3>1, <4>1, <4>2 DEF Seeding
    <3>6. Knowing'
      <4> SUFFICES ASSUME NEW q \in Requests, req'[q].at = "write"
                   PROVE  /\ req'[q].loaded \in Row
                          /\ \A c \in Columns \ req'[q].overwritten :
                               row'[c] = req'[q].loaded[c]
        BY <3>1 DEF Knowing
      <4>1. q # r /\ At(q, "write")
        BY <3>2, <3>3
      <4>2. req'[q].loaded = req[q].loaded
            /\ req'[q].overwritten = req[q].overwritten \union changed
        BY <3>2, <3>3, <4>1
      <4>3. /\ req[q].loaded \in Row
            /\ \A c \in Columns \ req[q].overwritten : row[c] = req[q].loaded[c]
        BY <2>3, <4>1 DEF Inv, Knowing
      <4> QED BY <4>2, <4>3
    <3> QED BY <3>4, <3>5, <3>6 DEF Inv
  <2> QED BY <1>6, <2>1, <2>2, <2>3 DEF Write
<1>7. ASSUME NEW r \in Requests, Answer(r) \/ Fail(r) PROVE Inv'
  BY <1>7, <1>t, <1>n, DoneType, QuietStep DEF Answer, Fail, TypeOK
<1>8. CASE RemoveRow
  <2>1. /\ row' = NoRow /\ removed' = TRUE /\ UNCHANGED <<env, up, starts>>
        /\ req' = [q \in Requests |->
               IF At(q, "write") THEN [req[q] EXCEPT !.overwritten = Columns] ELSE req[q]]
    BY <1>8 DEF RemoveRow
  <2>2. /\ req' \in [Requests -> Request]
        /\ \A q \in Requests : /\ req'[q].at = req[q].at
                               /\ req'[q].loaded = req[q].loaded
                               /\ At(q, "write") => req'[q].overwritten = Columns
    BY <2>1, <1>t DEF TypeOK, Request
  <2>3. TypeOK'
    BY <2>1, <2>2, <1>t DEF TypeOK
  <2>4. Seeding'
    BY <2>1, <2>2 DEF Inv, Seeding, SeedBeforeRequests
  <2>5. Knowing'
    BY <2>1, <2>2 DEF Inv, Knowing
  <2> QED BY <2>3, <2>4, <2>5 DEF Inv
<1>9. CASE Restart
  <2>1. /\ \A r \in Requests : req'[r].at = "idle"
        /\ req' \in [Requests -> Request]
    BY <1>9, IdleType DEF Restart
  <2>2. TypeOK'
    <3>1. starts' \in 0..MaxStarts
      BY <1>9, <1>t, ConfigAssumption DEF Restart, TypeOK
    <3> QED BY <1>9, <2>1, <3>1, <1>t DEF Restart, TypeOK
  <2>3. Seeding'
    BY <1>9, <2>1 DEF Restart, Seeding, SeedBeforeRequests
  <2>4. Knowing'
    BY <2>1 DEF Knowing
  <2> QED BY <2>2, <2>3, <2>4 DEF Inv
<1>10. CASE UNCHANGED vars
  BY <1>10 DEF vars, Inv, TypeOK, Seeding, SeedBeforeRequests, Knowing
<1> QED
  BY <1>1, <1>2, <1>3, <1>4, <1>5, <1>6, <1>7, <1>8, <1>9, <1>10 DEF Next, RequestNext

LEMMA AlwaysInv == Spec => []Inv
BY InitInv, NextInv, PTL DEF Spec

(***************************************************************************)
(* The theorems.                                                           *)
(***************************************************************************)

\* The types of module RuntimeConfig.
THEOREM TypeCorrect == Spec => []TypeOK
<1>1. Inv => TypeOK
  BY DEF Inv
<1> QED BY <1>1, AlwaysInv, PTL

\* While nobody deletes the row, no request finds it missing: the race of two
\* requests that both insert it is the lifespan's alone.
THEOREM NoRequestSeeds == Spec => []SeedBeforeRequests
<1>1. Inv => SeedBeforeRequests
  BY DEF Inv, Seeding
<1> QED BY <1>1, AlwaysInv, PTL

\* The one step that brings a request from "write" to "answer" is its own.
LEMMA AnswersAreWrites ==
  ASSUME Inv, [Next]_vars, NEW r \in Requests,
         At(r, "write"), req'[r].at = "answer"
  PROVE  Write(r)
<1> USE DEF At
<1>t. TypeOK
  BY DEF Inv
<1>p. {"read", "insert", "reread", "load"} \subseteq Places
  BY DEF Places
<1>1. ASSUME NEW q \in Requests, RequestNext(q), q # r PROVE FALSE
  <2>1. req'[r].at = req[r].at
    <3>1. CASE Write(q)
      <4>1. CASE Goto(q, "answer") \/ Done(q)
        BY <1>1, <4>1, <1>t DEF Goto, Done, TypeOK
      <4>2. CASE req' = [Overwrite(q, {c \in Columns : row'[c] # row[c]})
                           EXCEPT ![q].at = "answer"]
        <5> DEFINE changed == {c \in Columns : row'[c] # row[c]}
        <5>1. changed \subseteq Columns
          OBVIOUS
        <5>2. Overwrite(q, changed)[r].at = req[r].at
          BY <1>1, <1>t, <5>1, OverwriteType
        <5> QED BY <1>1, <4>2, <5>2
      <4> QED BY <3>1, <4>1, <4>2 DEF Write
    <3>2. CASE ~Write(q)
      BY <1>1, <3>2, <1>t DEF RequestNext, StartRead, StartEdit, Read, Insert,
         Reread, Load, Answer, Fail, Got, Goto, Done, TypeOK
    <3> QED BY <3>1, <3>2
  <2> QED BY <2>1
<1>2. ASSUME RequestNext(r), ~Write(r) PROVE FALSE
  BY <1>2, <1>t, IdleType DEF RequestNext, StartRead, StartEdit, Read, Insert,
     Reread, Load, Answer, Fail, Done, TypeOK
<1>3. ASSUME RemoveRow \/ Restart \/ UNCHANGED vars PROVE FALSE
  <2>1. CASE RemoveRow
    BY <2>1, <1>t DEF RemoveRow, TypeOK, Request
  <2>2. CASE Restart
    BY <2>2, IdleType DEF Restart
  <2>3. CASE UNCHANGED vars
    BY <2>3 DEF vars
  <2> QED BY <1>3, <2>1, <2>2, <2>3
<1> QED BY <1>1, <1>2, <1>3 DEF Next

\* What an UPDATE writes into a column the session knows, or changes.
LEMMA WriteGives ==
  ASSUME Inv, NEW r \in Requests, Write(r), req'[r].at = "answer",
         NEW c \in Columns, req[r].edit[c] # Unset, c \notin req[r].overwritten
  PROVE  row'[c] = req[r].edit[c]
<1>1. At(r, "write") /\ row # NoRow /\ row[c] = req[r].loaded[c]
  BY DEF Write, Inv, Knowing
<1>2. Assigned(r)[c] = req[r].edit[c]
  BY DEF Assigned, Given
<1>3. CASE Dirty(r) = {} /\ UNCHANGED row
  BY <1>1, <1>2, <1>3 DEF Dirty
<1>4. CASE row' = Updated(r)
  BY <1>1, <1>2, <1>4 DEF Updated, Dirty
<1>5. CASE Done(r)
  BY <1>5, IdleType DEF Done, Inv, TypeOK
<1> QED BY <1>3, <1>4, <1>5 DEF Write

\* An edit that succeeds is in the table when it commits, all of it, but for
\* columns that another request changed under it.
THEOREM EditsLand == Spec => EditTakesEffect
<1>1. ASSUME Inv, [Next]_vars
      PROVE  \A r \in Requests : At(r, "write") /\ req'[r].at = "answer" =>
               \A c \in Columns : \/ req[r].edit[c] = Unset
                                  \/ c \in req[r].overwritten
                                  \/ row'[c] = req[r].edit[c]
  BY <1>1, AnswersAreWrites, WriteGives
<1> QED BY <1>1, AlwaysInv, PTL DEF Spec, EditTakesEffect

\* A threshold in the table changes only to what an editor gave for it.
LEMMA ChangesAreGiven ==
  ASSUME Inv, [Next]_vars, NEW c \in Columns,
         row # NoRow, row' # NoRow, row'[c] # row[c]
  PROVE  \E r \in Requests : /\ At(r, "write") /\ req'[r].at = "answer"
                             /\ req[r].edit[c] = row'[c]
<1>t. TypeOK
  BY DEF Inv
<1>1. PICK r \in Requests : Write(r) /\ row' = Updated(r) /\ row # NoRow
                            /\ req' = [Overwrite(r, {d \in Columns : row'[d] # row[d]})
                                         EXCEPT ![r].at = "answer"]
  BY DEF Next, RequestNext, StartRead, StartEdit, Read, Insert, Seeded, Reread, Load,
     Write, Answer, Fail, RemoveRow, Restart, vars
<1>2. c \in Dirty(r) /\ row'[c] = Assigned(r)[c]
  BY <1>1 DEF Updated
<1>3. req[r].edit[c] = Assigned(r)[c]
  BY <1>2 DEF Dirty, Assigned
<1>4. req'[r].at = "answer"
  <2> DEFINE changed == {d \in Columns : row'[d] # row[d]}
  <2>1. changed \subseteq Columns
    OBVIOUS
  <2>2. Overwrite(r, changed) \in [Requests -> Request]
    BY <1>t, <2>1, OverwriteType
  <2> QED BY <1>1, <2>2 DEF Request
<1> QED BY <1>1, <1>2, <1>3, <1>4 DEF Write

THEOREM EditsOnly == Spec => OnlyEditsChange
<1>1. ASSUME Inv, [Next]_vars
      PROVE  \A c \in Columns :
               row # NoRow /\ row' # NoRow /\ row'[c] # row[c] =>
                 \E r \in Requests : /\ At(r, "write") /\ req'[r].at = "answer"
                                     /\ req[r].edit[c] = row'[c]
  BY <1>1, ChangesAreGiven
<1> QED BY <1>1, AlwaysInv, PTL DEF Spec, OnlyEditsChange
=============================================================================
