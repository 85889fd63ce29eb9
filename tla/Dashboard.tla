---------------------------- MODULE Dashboard ----------------------------
(* The dashboard page and its three asynchronous beginnings: it asks for   *)
(* the tickers, asks for the stored alerts and opens a WebSocket, in that  *)
(* order, and the three answers come back in any order.  Alerts and prices *)
(* reach the page twice over: from the tables, and as messages sent by the *)
(* tasks that store them.  One page, one ticker.  The other side is the    *)
(* part of the server the page sees: the tables, the tasks that write them *)
(* and then broadcast, and the connection.  Broadcast and Scheduler model  *)
(* the inside of those steps.                                              *)
EXTENDS Integers, Sequences, FiniteSets, SequencesExt

CONSTANTS
  Poll, Admin,      \* the poll cycle, and a test alert's request
  Prices,           \* what a poll may read
  TestPrice,        \* what a test alert carries as its price
  NoPrice,          \* a cell still empty; a ticker with no baseline
  Stored,           \* alerts stored before the page
  PageLimit,        \* how many alerts /alerts returns
  MaxTicks, MaxAlerts, MaxBreaks   \* bounds of the model

ASSUME DashboardAssumption ==
  /\ Poll # Admin
  /\ NoPrice \notin Prices \cup {TestPrice}
  /\ PageLimit \in Nat
  /\ MaxTicks \in Nat /\ MaxAlerts \in Nat /\ MaxBreaks \in Nat
  /\ Stored \in 0 .. MaxAlerts

Tasks == {Poll, Admin}
Cells == Prices \cup {TestPrice, NoPrice}
Alerts == 1 .. MaxAlerts                  \* an alert is its row's number
Asks == 1 .. MaxTicks + MaxAlerts + MaxBreaks + 1   \* the page's baseline requests

PriceMsg(p) == [type |-> "price_update", id |-> 0, price |-> p]
AlertMsg(a, p) == [type |-> "alert", id |-> a, price |-> p]
Messages == {PriceMsg(p) : p \in Prices}
              \cup {AlertMsg(a, p) : a \in Alerts, p \in Prices \cup {TestPrice}}

VARIABLES
  committed,  \* alerts stored: rows 1 .. committed
  last,       \* the baseline row's last_price
  job,        \* per task, the message it has yet to broadcast, or <<>>
  ticks,      \* polls so far
  conn,       \* the page's socket at the server: none, accepted, served, gone
  wire,       \* messages sent to the page and not yet handled
  sock,       \* the socket at the page: connecting, open, waiting
  load,       \* the /alerts request: asked, answered, done, failed
  snapshot,   \* its answer
  list,       \* the alerts on the page, top first
  row,        \* has the table been built?
  shown,      \* the price in the ticker's row
  asked,      \* baseline requests so far
  pending,    \* those the server has not answered
  replies,    \* answers on their way to the page
  breaks,     \* connections lost, restarts and messages sent again so far
  \* What the properties look back at:
  seen,       \* alerts stored when /alerts was answered
  loaded,     \* alerts stored when the page showed the answer
  twice,      \* alerts whose message was sent to the page more than once
  lost,       \* alerts of which a message did not, or will not, come to the page
  behind,     \* a price_update was lost, and nothing was asked since
  applied     \* the newest-numbered request whose answer is the one applied last

server == <<committed, last, job, ticks>>
link == <<conn, wire, sock, breaks>>
alertList == <<load, snapshot, list, seen, loaded, twice>>
table == <<row, shown, asked, pending, replies, applied>>
vars == <<server, link, alertList, table, lost, behind>>

Init ==
  /\ committed = Stored /\ last \in Prices \cup {NoPrice} /\ ticks = 0
  /\ job = [t \in Tasks |-> <<>>]
  /\ conn = "none" /\ wire = <<>> /\ sock = "connecting" /\ breaks = 0
  /\ load = "asked" /\ snapshot = <<>> /\ list = <<>> /\ seen = 0 /\ loaded = 0
  /\ row = FALSE /\ shown = NoPrice
  /\ asked = 0 /\ pending = {} /\ replies = {} /\ applied = 0
  /\ twice = {} /\ lost = {} /\ behind = FALSE

-----------------------------------------------------------------------------
(* The server: what is stored, and what is then broadcast.                 *)

\* A poll commits its tick, then has a price_update to broadcast.
KeepTick(p) ==
  /\ job[Poll] = <<>> /\ ticks < MaxTicks
  /\ last' = p /\ ticks' = ticks + 1
  /\ job' = [job EXCEPT ![Poll] = <<PriceMsg(p)>>]
  /\ UNCHANGED <<committed, link, alertList, table, lost, behind>>

\* A test alert needs a baseline; it is stored, then broadcast, and the
\* baseline is left alone.
KeepTestAlert ==
  /\ job[Admin] = <<>> /\ committed < MaxAlerts /\ last # NoPrice
  /\ committed' = committed + 1
  /\ job' = [job EXCEPT ![Admin] = <<AlertMsg(committed', TestPrice)>>]
  /\ UNCHANGED <<last, ticks, link, alertList, table, lost, behind>>

Missed(m) ==
  /\ lost' = IF m.type = "alert" THEN lost \cup {m.id} ELSE lost
  /\ behind' = (behind \/ m.type = "price_update")

\* An alert is stored and the read of its row's number fails: no message of
\* it is ever broadcast.
StoreFails(t) ==
  /\ job[t] = <<>> /\ committed < MaxAlerts /\ last # NoPrice
  /\ t = Poll => ticks > 0
  /\ committed' = committed + 1
  /\ lost' = lost \cup {committed'}
  /\ UNCHANGED <<last, job, ticks, link, alertList, table, behind>>

\* The broadcast's walk comes to this page, or passes it by: the server does
\* not serve it, or the set changes during a send to another page, which ends
\* the walk with an exception or, when as many join as leave, moves this page
\* to a place the walk has left behind.
Send(t) ==
  /\ job[t] # <<>>
  /\ LET m == Head(job[t]) IN
       \/ conn = "served" /\ wire' = Append(wire, m) /\ UNCHANGED <<lost, behind>>
       \/ Missed(m) /\ UNCHANGED wire
  /\ UNCHANGED <<last, ticks, conn, sock, breaks, alertList, table>>

\* Or such a change moves it to a place the walk has yet to reach.
SendAgain(t) ==
  /\ job[t] # <<>> /\ conn = "served"
  /\ breaks < MaxBreaks /\ breaks' = breaks + 1
  /\ LET m == Head(job[t]) IN
       /\ wire' = Append(wire, m)
       /\ twice' = IF m.type = "alert" THEN twice \cup {m.id} ELSE twice
  /\ UNCHANGED <<server, conn, sock, load, snapshot, list, seen, loaded, table, lost, behind>>

\* A poll that has broadcast may have an anomaly to store and broadcast, and
\* then a mismatch of the two providers.
Broadcast(t) ==
  /\ Send(t)
  /\ \/ /\ job' = [job EXCEPT ![t] = <<>>]
        /\ UNCHANGED committed
     \/ /\ t = Poll /\ committed < MaxAlerts
        /\ committed' = committed + 1
        /\ job' = [job EXCEPT ![t] = <<AlertMsg(committed', Head(job[t]).price)>>]

\* The connection: accepted first, and only then among those broadcast to.
Accept ==
  /\ sock = "connecting" /\ conn = "none"
  /\ conn' = "accepted"
  /\ UNCHANGED <<server, wire, sock, breaks, alertList, table, lost, behind>>

Register ==
  /\ conn = "accepted"
  /\ conn' = "served"
  /\ UNCHANGED <<server, wire, sock, breaks, alertList, table, lost, behind>>

\* GET /alerts: the newest PageLimit rows, newest first.
Newest(n) ==
  LET size == IF n < PageLimit THEN n ELSE PageLimit
  IN [i \in 1 .. size |-> n + 1 - i]

AnswerAlerts ==
  /\ load = "asked"
  /\ load' = "answered" /\ snapshot' = Newest(committed) /\ seen' = committed
  /\ UNCHANGED <<server, link, list, loaded, twice, table, lost, behind>>

\* GET /tickers/{ticker}/baseline: what the row says now.
AnswerBaseline(n) ==
  /\ n \in pending
  /\ pending' = pending \ {n}
  /\ replies' = replies \cup {[ask |-> n, price |-> last]}
  /\ UNCHANGED <<server, link, alertList, row, shown, asked, applied, lost, behind>>

\* The connection is lost, with the messages after the k-th in flight.
Sever(k) ==
  /\ breaks < MaxBreaks /\ breaks' = breaks + 1
  /\ conn' = IF sock = "waiting" THEN conn ELSE "gone"
  /\ wire' = SubSeq(wire, 1, k)

Dropped(ms) ==
  /\ lost' = lost \cup {m.id : m \in {n \in ms : n.type = "alert"}}
  /\ behind' = (behind \/ \E m \in ms : m.type = "price_update")

LoseConnection(k) ==
  /\ sock # "waiting" /\ conn # "gone"
  /\ Sever(k)
  /\ Dropped({wire[i] : i \in k + 1 .. Len(wire)})
  /\ UNCHANGED <<server, sock, alertList, table>>

\* The server restarts: tasks and unanswered requests die with it.
Restart(k) ==
  /\ Sever(k)
  /\ Dropped({wire[i] : i \in k + 1 .. Len(wire)} \cup UNION {ToSet(job[t]) : t \in Tasks})
  /\ job' = [t \in Tasks |-> <<>>]
  /\ pending' = {}
  /\ load' = IF load = "asked" THEN "failed" ELSE load
  /\ UNCHANGED <<committed, last, ticks, sock, snapshot, list, seen, loaded, twice,
                 row, shown, asked, replies, applied>>

-----------------------------------------------------------------------------
(* The page.                                                               *)

\* refreshBaseline: the request; AnswerBaseline and Refreshed are the rest.
Refresh ==
  /\ asked' = asked + 1
  /\ pending' = pending \cup {asked'}
  /\ behind' = FALSE

\* initTable: an empty row, then a request to fill it.
InitTable ==
  /\ ~row
  /\ row' = TRUE
  /\ Refresh
  /\ UNCHANGED <<server, link, alertList, shown, replies, applied, lost>>

\* Mutant of Filling: only an empty cell is filled.
FillingBlank(r) == IF shown = NoPrice THEN r.price ELSE shown

\* A baseline that does not exist fills nothing.
Filling(r) == IF r.price = NoPrice THEN shown ELSE r.price

\* The rest of refreshBaseline.
Refreshed(r) ==
  /\ r \in replies
  /\ replies' = replies \ {r}
  /\ shown' = Filling(r)
  /\ applied' = r.ask
  /\ UNCHANGED <<server, link, alertList, row, asked, pending, lost, behind>>

Prepend(items, a) == <<a>> \o items

\* Rows put on top one after the other: the last of them ends on top.
PrependAll(items, rows) == Reverse(rows) \o items

\* Mutant of Filled: the rows are not reversed.
FilledForward(rows) == PrependAll(<<>>, rows)

\* What the page lists is replaced, oldest row first so that the newest ends
\* on top.
Filled(rows) == PrependAll(<<>>, Reverse(rows))

\* loadAlerts, the answer being there.
LoadAlerts ==
  /\ load = "answered"
  /\ load' = "done" /\ list' = Filled(snapshot) /\ loaded' = committed
  /\ UNCHANGED <<server, link, snapshot, seen, twice, table, lost, behind>>

\* applyPriceUpdate: nothing without a row; the price, then a refresh.
ApplyPriceUpdate(m) ==
  \/ /\ row
     /\ shown' = m.price
     /\ Refresh
     /\ UNCHANGED <<row, replies, applied>>
  \/ /\ ~row
     /\ UNCHANGED <<table, behind>>

\* Mutant of Listed: an alert of a ticker without a row is not listed.
ListedWithRow(m) == IF m.type = "alert" /\ row THEN Prepend(list, m.id) ELSE list

\* Mutant of Listed: the type of the message is not looked at.
ListedAny(m) == Prepend(list, m.id)

\* An alert is listed whether or not its ticker has a row.
Listed(m) == IF m.type = "alert" THEN Prepend(list, m.id) ELSE list

OnMessage ==
  /\ sock = "open" /\ wire # <<>>
  /\ list' = Listed(Head(wire))
  /\ ApplyPriceUpdate(Head(wire))
  /\ wire' = Tail(wire)
  /\ UNCHANGED <<server, conn, sock, breaks, load, snapshot, seen, loaded, twice, lost>>

\* The socket opens once accepted, perhaps before it is registered.
OnOpen ==
  /\ sock = "connecting" /\ conn \in {"accepted", "served"}
  /\ sock' = "open"
  /\ UNCHANGED <<server, conn, wire, breaks, alertList, table, lost, behind>>

\* Mutant of AfterClose: no timer is set.
AfterCloseNothing == "closed"

\* When its socket closes the page waits for three seconds.
AfterClose == "waiting"

\* A socket that failed to open is closed without having handled anything.
OnClose ==
  /\ conn = "gone" /\ (sock = "open" => wire = <<>>)
  /\ sock' = AfterClose /\ conn' = "none" /\ wire' = <<>>
  /\ Dropped(ToSet(wire))
  /\ UNCHANGED <<server, breaks, alertList, table>>

\* setTimeout(connect, 3000): a new socket, and nothing is loaded again.
Connect ==
  /\ sock = "waiting"
  /\ sock' = "connecting"
  /\ UNCHANGED <<server, conn, wire, breaks, alertList, table, lost, behind>>

PageNext ==
  \/ InitTable \/ LoadAlerts \/ OnMessage \/ OnOpen \/ OnClose \/ Connect
  \/ \E r \in replies : Refreshed(r)

ServerNext ==
  \/ \E p \in Prices : KeepTick(p)
  \/ KeepTestAlert
  \/ \E t \in Tasks : StoreFails(t) \/ Broadcast(t) \/ SendAgain(t)
  \/ Accept \/ Register \/ AnswerAlerts
  \/ \E n \in pending : AnswerBaseline(n)

Next ==
  \/ PageNext \/ ServerNext
  \/ \E k \in 0 .. Len(wire) : LoseConnection(k) \/ Restart(k)

Spec == Init /\ [][Next]_vars

\* The browser runs its handlers and timers; the server accepts sockets.
FairSpec ==
  /\ Spec
  /\ WF_vars(OnOpen) /\ WF_vars(OnClose) /\ WF_vars(Connect) /\ WF_vars(OnMessage)
  /\ WF_vars(Accept) /\ WF_vars(Register)

-----------------------------------------------------------------------------
TypeOK ==
  /\ committed \in 0 .. MaxAlerts /\ last \in Prices \cup {NoPrice}
  /\ job \in [Tasks -> {<<>>} \cup {<<m>> : m \in Messages}]
  /\ ticks \in 0 .. MaxTicks /\ breaks \in 0 .. MaxBreaks
  /\ conn \in {"none", "accepted", "served", "gone"}
  /\ sock \in {"connecting", "open", "waiting"}
  /\ load \in {"asked", "answered", "done", "failed"}
  /\ wire \in Seq(Messages)
  /\ list \in Seq(Alerts) /\ snapshot \in Seq(Alerts)
  /\ seen \in 0 .. MaxAlerts /\ loaded \in 0 .. MaxAlerts
  /\ row \in BOOLEAN /\ shown \in Cells /\ asked \in {0} \cup Asks
  /\ pending \subseteq Asks /\ applied \in 0 .. asked
  /\ replies \subseteq [ask : Asks \ pending, price : Prices \cup {NoPrice}]
  /\ twice \subseteq Alerts /\ lost \subseteq Alerts /\ behind \in BOOLEAN

Copies(a) == Cardinality({i \in DOMAIN list : list[i] = a})

\* Nothing is on its way to the page.
Settled == wire = <<>> /\ \A t \in Tasks : job[t] = <<>>

\* When nothing is on its way, an alert stored after the page showed its list
\* is listed - unless its number could not be read back, or a message of it
\* was passed by, or was lost with a connection or a restart - and listed
\* exactly once, unless one walk came to the page twice: the live messages and
\* the loaded list overlap only around the load.
NewAlertsListedOnce ==
  Settled /\ load = "done" =>
    \A a \in loaded + 1 .. committed :
      a \notin lost => Copies(a) >= 1 /\ (a \notin twice => Copies(a) = 1)

\* The alerts the page loaded stay at the bottom of its list, newest first,
\* under everything that arrived later; and an alert sent once stands there
\* twice only if it had been stored when /alerts was answered.
LoadedBelowLive ==
  load = "done" =>
    LET older == Newest(seen)
    IN /\ IsSuffix(older, list)
       /\ \A a \in Alerts \ twice : Copies(a) <= (IF a <= seen THEN 2 ELSE 1)

\* When nothing is on its way, no price message was lost since the page last
\* asked and the answer applied last is that to the newest request, the row
\* shows the price the server stored last - also after a test alert put its
\* own price there.
PriceSettles ==
  Settled /\ row /\ ~behind /\ applied = asked => shown = last

\* A page that is not connected is connected and served again.
PageComesBack == (sock # "open") ~> (sock = "open" /\ conn = "served")
=============================================================================
