--------------------------- MODULE RuntimeConfig ---------------------------
(***************************************************************************)
(* The alert thresholds: the single row of table runtime_config, seeded    *)
(* from the environment and edited from the dashboard                      *)
(* (app/runtime_config.py, the lifespan and the /config endpoints of       *)
(* app/main.py).                                                           *)
(*                                                                         *)
(* Requests run on threads of their own, each with its session.  A step is *)
(* one statement with its commit; every statement sees what is committed.  *)
(* A commit updates the columns whose value differs from the one the       *)
(* session has loaded, and no others.                                      *)
(***************************************************************************)
EXTENDS Integers

CONSTANTS
  Requests,
  Lifespan,   \* the start of the process, which seeds the row
  Columns,
  Values,     \* what the environment or an editor may give a column
  Unset,      \* an editor gives no value for a column
  NoRow,
  MaxStarts   \* bound: restarts of the process

Thresholds == {"anomaly_zscore_threshold", "stale_threshold",
               "alert_cooldown_minutes", "reconciliation_tolerance"}

ASSUME ConfigAssumption ==
  /\ Lifespan \in Requests
  /\ Columns \subseteq Thresholds
  /\ Values \subseteq Int
  /\ Unset \notin Values
  /\ NoRow \notin [Columns -> Values]
  /\ MaxStarts \in Nat

VARIABLES
  row,      \* the row with id 1, or NoRow
  env,      \* the thresholds of app.config.settings
  up,       \* requests are accepted
  req,      \* the requests
  removed,  \* history: somebody has deleted the row by hand
  starts    \* restarts so far

vars == <<row, env, up, req, removed, starts>>

Row == [Columns -> Values]

Edit == [Columns -> Values \union {Unset}]

Places == {"idle", "read", "insert", "reread", "load", "write", "answer"}

\* `loaded' is the row as the session has it; `overwritten' a history field:
\* the columns that somebody else has changed since.
Request == [at : Places, edits : BOOLEAN, edit : Edit,
            loaded : Row \union {NoRow}, overwritten : SUBSET Columns]

NoEdit == [c \in Columns |-> Unset]

Idle == [at |-> "idle", edits |-> FALSE, edit |-> NoEdit,
         loaded |-> NoRow, overwritten |-> {}]

Init ==
  /\ env \in Row
  /\ row \in Row \union {NoRow}
  /\ up = FALSE
  /\ req = [r \in Requests |-> Idle]
  /\ removed = FALSE
  /\ starts = 0

----------------------------------------------------------------------------
Goto(r, place) == req' = [req EXCEPT ![r].at = place]

At(r, place) == req[r].at = place

\* A request ends by an answer or an exception.
Done(r) == req' = [req EXCEPT ![r] = Idle]

Valid(c, v) ==
  CASE c = "alert_cooldown_minutes" -> v >= 0
    [] c = "reconciliation_tolerance" -> 0 < v /\ v < 100   \* in per cent
    [] OTHER -> v > 0

\* Mutant of Accepts: the server takes requests while it is still seeding.
AcceptsEarly(r) == TRUE

\* Only the lifespan runs before the server accepts requests.
Accepts(r) == up = (r # Lifespan)

\* GET /config, a reader of the pipeline, or the lifespan.
StartRead(r) ==
  /\ At(r, "idle")
  /\ Accepts(r)
  /\ req' = [req EXCEPT ![r] = [Idle EXCEPT !.at = "read"]]
  /\ UNCHANGED <<row, env, up, removed, starts>>

\* POST /config.  (With an invalid value nothing is read or written.)
StartEdit(r) ==
  /\ At(r, "idle")
  /\ r # Lifespan
  /\ Accepts(r)
  /\ \E edit \in Edit :
       /\ \A c \in Columns : edit[c] # Unset => Valid(c, edit[c])
       /\ req' = [req EXCEPT ![r] = [Idle EXCEPT !.at = "read", !.edits = TRUE,
                                                 !.edit = edit]]
  /\ UNCHANGED <<row, env, up, removed, starts>>

\* get_runtime_config has its values.
Got(r) ==
  /\ IF req[r].edits THEN Goto(r, "load") ELSE Done(r)
  /\ up' = (up \/ r = Lifespan)

Read(r) ==
  /\ At(r, "read")
  /\ \/ row # NoRow /\ Got(r)
     \/ row = NoRow /\ Goto(r, "insert") /\ UNCHANGED up
  /\ UNCHANGED <<row, env, removed, starts>>

\* The row after the insert: the seed, unless the id is taken (IntegrityError,
\* rolled back).
Seeded == IF row = NoRow THEN env ELSE row

Insert(r) ==
  /\ At(r, "insert")
  /\ row' = Seeded
  /\ Goto(r, "reread")
  /\ UNCHANGED <<env, up, removed, starts>>

\* The commit has expired the row, and the rollback lost it: it is read again.
\* If it has gone the attributes cannot be read.
Reread(r) ==
  /\ At(r, "reread")
  /\ \/ row # NoRow /\ Got(r)
     \/ row = NoRow /\ Done(r) /\ UNCHANGED up
  /\ UNCHANGED <<row, env, removed, starts>>

\* update_runtime_config reads the row once more.
Load(r) ==
  /\ At(r, "load")
  /\ \/ /\ row # NoRow
        /\ req' = [req EXCEPT ![r].at = "write", ![r].loaded = row]
     \/ row = NoRow /\ Done(r)
  /\ UNCHANGED <<row, env, up, removed, starts>>

\* Mutant of Given: an absent value is assigned like the others.
GivenAll(r) == Columns

\* Mutant of Given: `if value:' instead of `if value is not None:'.
GivenTruthy(r) == {c \in Columns : req[r].edit[c] \notin {Unset, 0}}

Given(r) == {c \in Columns : req[r].edit[c] # Unset}

\* The row object of the session after the assignments.
Assigned(r) ==
  [c \in Columns |-> IF c \in Given(r) THEN req[r].edit[c] ELSE req[r].loaded[c]]

\* Mutant of Dirty: the commit writes every column.
DirtyAll(r) == Columns

\* The columns of the UPDATE.
Dirty(r) == {c \in Columns : Assigned(r)[c] # req[r].loaded[c]}

Updated(r) == [c \in Columns |-> IF c \in Dirty(r) THEN Assigned(r)[c] ELSE row[c]]

\* What the sessions of the other requests do not know of.
Overwrite(r, columns) ==
  [q \in Requests |->
     IF q # r /\ At(q, "write")
     THEN [req[q] EXCEPT !.overwritten = @ \union columns]
     ELSE req[q]]

\* The commit; an UPDATE that matches no row raises StaleDataError.
Write(r) ==
  /\ At(r, "write")
  /\ \/ /\ Dirty(r) = {}
        /\ Goto(r, "answer")
        /\ UNCHANGED row
     \/ /\ Dirty(r) # {} /\ row # NoRow
        /\ row' = Updated(r)
        /\ req' = [Overwrite(r, {c \in Columns : row'[c] # row[c]})
                     EXCEPT ![r].at = "answer"]
     \/ /\ Dirty(r) # {} /\ row = NoRow
        /\ Done(r)
        /\ UNCHANGED row
  /\ UNCHANGED <<env, up, removed, starts>>

\* The row is read for the response, if it is still there.
Answer(r) ==
  /\ At(r, "answer")
  /\ Done(r)
  /\ UNCHANGED <<row, env, up, removed, starts>>

\* A statement fails, and the request with it.
Fail(r) ==
  /\ ~At(r, "idle")
  /\ Done(r)
  /\ UNCHANGED <<row, env, up, removed, starts>>

----------------------------------------------------------------------------
\* "e.g. someone manually deleted the row".
RemoveRow ==
  /\ row # NoRow
  /\ row' = NoRow
  /\ removed' = TRUE
  /\ req' = [q \in Requests |->
               IF At(q, "write") THEN [req[q] EXCEPT !.overwritten = Columns] ELSE req[q]]
  /\ UNCHANGED <<env, up, starts>>

\* The process stops, and starts with another environment on the same table.
Restart ==
  /\ starts < MaxStarts
  /\ starts' = starts + 1
  /\ env' \in Row
  /\ up' = FALSE
  /\ req' = [r \in Requests |-> Idle]
  /\ UNCHANGED <<row, removed>>

RequestNext(r) ==
  \/ StartRead(r) \/ StartEdit(r)
  \/ Read(r) \/ Insert(r) \/ Reread(r) \/ Load(r) \/ Write(r) \/ Answer(r)
  \/ Fail(r)

Next ==
  \/ \E r \in Requests : RequestNext(r)
  \/ RemoveRow \/ Restart

Spec == Init /\ [][Next]_vars

----------------------------------------------------------------------------
(* Properties.                                                             *)

TypeOK ==
  /\ row \in Row \union {NoRow}
  /\ env \in Row
  /\ up \in BOOLEAN
  /\ req \in [Requests -> Request]
  /\ removed \in BOOLEAN
  /\ starts \in 0..MaxStarts

\* "Seeds the RuntimeConfig singleton row once, before any request is accepted
\* - this is what makes the `two concurrent requests both find it missing' race
\* a non-issue": while nobody deletes the row, no request finds it missing.
SeedBeforeRequests ==
  ~removed => \A r \in Requests \ {Lifespan} : ~At(r, "insert")

\* "The permanent source of truth": a threshold that is in the table changes
\* only to what an editor gave for that very column, whatever the environment
\* of a later start says, and whatever seeds and edits of other columns
\* overtake each other.
OnlyEditsChange ==
  [][\A c \in Columns :
       row # NoRow /\ row' # NoRow /\ row'[c] # row[c] =>
         \E r \in Requests : /\ At(r, "write") /\ req'[r].at = "answer"
                             /\ req[r].edit[c] = row'[c]]_vars

\* An edit that succeeds is in the table when it commits, all of it, but for
\* columns that another request changed under it.
EditTakesEffect ==
  [][\A r \in Requests : At(r, "write") /\ req'[r].at = "answer" =>
       \A c \in Columns : \/ req[r].edit[c] = Unset
                          \/ c \in req[r].overwritten
                          \/ row'[c] = req[r].edit[c]]_vars
=============================================================================
