-------------------------- MODULE DashboardProofs ---------------------------
(***************************************************************************)
(* Proofs about the dashboard page for any prices, any bounds and any page *)
(* limit.                                                                  *)
(***************************************************************************)
EXTENDS Dashboard, FiniteSetTheorems, TLAPS

\* Alert a is what a task has yet to broadcast, is the i-th message in flight,
\* or is the i-th on the page's list and came as a message.
InJob(t, a) == job[t] # <<>> /\ job[t][1].type = "alert" /\ job[t][1].id = a
InWire(i, a) == i \in 1 .. Len(wire) /\ wire[i].type = "alert" /\ wire[i].id = a

\* How many alerts of the list came with the loaded page, and how many live.
Size(n) == IF n < PageLimit THEN n ELSE PageLimit
Live == IF load = "done" THEN Len(list) - Size(seen) ELSE 0
InLive(i, a) == i \in 1 .. Live /\ list[i] = a

\* Under the live alerts are the loaded ones.
ListInv ==
  /\ seen <= committed /\ loaded <= committed
  /\ load = "answered" => snapshot = Newest(seen)
  /\ load = "done" =>
       /\ seen <= loaded
       /\ Size(seen) <= Len(list)
       /\ \A i \in 1 .. Size(seen) : list[Live + i] = seen + 1 - i

\* An alert is stored before it is anywhere, and is in one place at most unless
\* it was sent again.
OnceInv ==
  /\ \A t \in Tasks, a \in Alerts : InJob(t, a) => a <= committed
  /\ \A i \in Nat, a \in Alerts : InWire(i, a) \/ InLive(i, a) => a <= committed
  /\ \A t, u \in Tasks, a \in Alerts : InJob(t, a) /\ InJob(u, a) => t = u
  /\ \A t \in Tasks, i \in Nat, a \in Alerts \ twice :
       InJob(t, a) => ~InWire(i, a) /\ ~InLive(i, a)
  /\ \A i, j \in Nat, a \in Alerts \ twice : InWire(i, a) => ~InLive(j, a)
  /\ \A i, j \in Nat, a \in Alerts \ twice : InWire(i, a) /\ InWire(j, a) => i = j
  /\ \A i, j \in Nat, a \in Alerts \ twice : InLive(i, a) /\ InLive(j, a) => i = j

\* And since the list was loaded it is in one place at least, or lost.
Somewhere(a) ==
  \/ a \in lost
  \/ \E t \in Tasks : InJob(t, a)
  \/ \E i \in Nat : InWire(i, a) \/ InLive(i, a)

SomewhereInv ==
  load = "done" => \A a \in loaded + 1 .. committed : Somewhere(a)

\* A price_update is on its way.
Coming ==
  \/ job[Poll] # <<>> /\ job[Poll][1].type = "price_update"
  \/ \E i \in 1 .. Len(wire) : wire[i].type = "price_update"

\* Nothing is priced before there is a baseline.
UnpricedInv ==
  last = NoPrice =>
    /\ shown = NoPrice /\ wire = <<>> /\ \A t \in Tasks : job[t] = <<>>
    /\ \A r \in replies : r.price = NoPrice

\* With no price on its way and none lost since the page last asked, the answer
\* to its newest request is the price stored last.
PriceInv ==
  row /\ ~behind /\ ~Coming =>
    /\ \A r \in replies : r.ask = asked => r.price = last
    /\ applied = asked => shown = last

\* Requests are numbered as they are made, one with the row and one for every
\* message that was handled: of a tick, of an alert, or sent again.
Waits(t) == IF job[t] = <<>> THEN 0 ELSE 1
Rows == IF row THEN 1 ELSE 0
Extra == ticks + breaks

AskInv ==
  /\ \A n \in pending : n <= asked
  /\ \A r \in replies : r.ask <= asked
  /\ asked + Len(wire) + Waits(Poll) + Waits(Admin) <= Extra + (committed - Stored) + Rows

PageInv ==
  /\ TypeOK /\ ListInv /\ OnceInv /\ SomewhereInv
  /\ UnpricedInv /\ PriceInv /\ AskInv

----------------------------------------------------------------------------
(* Messages and sequences of them.                                         *)

\* What is in a message.
LEMMA MessageIs ==
  /\ \A p \in Prices : PriceMsg(p) \in Messages /\ PriceMsg(p).type = "price_update"
  /\ \A a \in Alerts, p \in Prices \cup {TestPrice} :
       /\ AlertMsg(a, p) \in Messages
       /\ AlertMsg(a, p).type = "alert" /\ AlertMsg(a, p).id = a
  /\ \A m \in Messages :
       \/ m.type = "price_update" /\ m.price \in Prices
       \/ m.type = "alert" /\ m.id \in Alerts /\ m.price \in Prices \cup {TestPrice}
<1>1. ASSUME NEW p \in Prices
      PROVE  PriceMsg(p) \in Messages /\ PriceMsg(p).type = "price_update"
  BY DEF Messages, PriceMsg
<1>2. ASSUME NEW a \in Alerts, NEW p \in Prices \cup {TestPrice}
      PROVE  /\ AlertMsg(a, p) \in Messages
             /\ AlertMsg(a, p).type = "alert" /\ AlertMsg(a, p).id = a
  <2>1. AlertMsg(a, p) \in Messages
    BY DEF Messages
  <2> QED BY <2>1 DEF AlertMsg
<1>3. ASSUME NEW m \in Messages
      PROVE  \/ m.type = "price_update" /\ m.price \in Prices
             \/ /\ m.type = "alert" /\ m.id \in Alerts
                /\ m.price \in Prices \cup {TestPrice}
  <2>1. CASE \E p \in Prices : m = PriceMsg(p)
    BY <2>1 DEF PriceMsg
  <2>2. CASE \E a \in Alerts, p \in Prices \cup {TestPrice} : m = AlertMsg(a, p)
    BY <2>2 DEF AlertMsg
  <2> QED BY <2>1, <2>2 DEF Messages
<1> QED BY <1>1, <1>2, <1>3

\* A task has one message to broadcast at most.
LEMMA JobIs ==
  ASSUME TypeOK, NEW t \in Tasks
  PROVE  \/ job[t] = <<>> /\ ToSet(job[t]) = {}
         \/ /\ job[t] # <<>>
            /\ job[t][1] \in Messages /\ Head(job[t]) = job[t][1]
            /\ ToSet(job[t]) = {job[t][1]}
<1>1. job[t] \in {<<>>} \cup {<<m>> : m \in Messages}
  BY DEF TypeOK
<1>2. CASE job[t] = <<>>
  BY <1>2 DEF ToSet
<1>3. CASE \E m \in Messages : job[t] = <<m>>
  BY <1>3 DEF ToSet
<1> QED BY <1>1, <1>2, <1>3

\* A job that is set, or is not.
LEMMA JobSet ==
  ASSUME TypeOK, NEW t \in Tasks, NEW m \in Messages
  PROVE  /\ [job EXCEPT ![t] = <<m>>] \in [Tasks -> {<<>>} \cup {<<n>> : n \in Messages}]
         /\ [job EXCEPT ![t] = <<>>] \in [Tasks -> {<<>>} \cup {<<n>> : n \in Messages}]
BY DEF TypeOK

\* What a page that asked for its alerts gets.
LEMMA NewestIs ==
  ASSUME NEW n \in 0 .. MaxAlerts
  PROVE  /\ Size(n) \in 0 .. n
         /\ Newest(n) \in Seq(Alerts) /\ Len(Newest(n)) = Size(n)
         /\ \A i \in 1 .. Size(n) : Newest(n)[i] = n + 1 - i
<1>1. Size(n) \in 0 .. n /\ MaxAlerts \in Nat
  BY DashboardAssumption DEF Size
<1>2. Newest(n) = [i \in 1 .. Size(n) |-> n + 1 - i]
  BY DEF Newest, Size
<1>3. \A i \in 1 .. Size(n) : n + 1 - i \in Alerts
  BY <1>1 DEF Alerts
<1> QED BY <1>1, <1>2, <1>3

\* Prepending the rows from the last to the first leaves them in their order.
LEMMA FilledIs == ASSUME NEW rows \in Seq(Alerts) PROVE Filled(rows) = rows
<1>1. Reverse(rows) \in Seq(Alerts) /\ Len(Reverse(rows)) = Len(rows)
  BY DEF Reverse
<1>2. Reverse(Reverse(rows)) = rows
  BY DEF Reverse
<1>3. Reverse(Reverse(rows)) \o <<>> = rows
  BY <1>2
<1> QED BY <1>3 DEF Filled, PrependAll

\* An alert that is listed goes on top of what is there.
LEMMA PrependIs ==
  ASSUME NEW items \in Seq(Alerts), NEW a \in Alerts
  PROVE  /\ Prepend(items, a) \in Seq(Alerts)
         /\ Len(Prepend(items, a)) = Len(items) + 1
         /\ Prepend(items, a)[1] = a
         /\ \A i \in 1 .. Len(items) : Prepend(items, a)[i + 1] = items[i]
BY DEF Prepend

\* The initial states satisfy the invariant.
LEMMA PageInit == Init => PageInv
<1> SUFFICES ASSUME Init
             PROVE  PageInv
  OBVIOUS
<1>1. TypeOK
  <2>1. job \in [Tasks -> {<<>>} \cup {<<m>> : m \in Messages}]
    BY DEF Init
  <2>2. wire \in Seq(Messages) /\ list \in Seq(Alerts) /\ snapshot \in Seq(Alerts)
    BY DEF Init
  <2>3. /\ applied \in 0 .. asked /\ ticks \in 0 .. MaxTicks /\ breaks \in 0 .. MaxBreaks
        /\ committed \in 0 .. MaxAlerts /\ seen \in 0 .. MaxAlerts
        /\ loaded \in 0 .. MaxAlerts
    BY DashboardAssumption DEF Init
  <2>4. /\ pending \subseteq Asks /\ twice \subseteq Alerts /\ lost \subseteq Alerts
        /\ replies \subseteq [ask : Asks \ pending, price : Prices \cup {NoPrice}]
    BY DEF Init
  <2>5. /\ last \in Prices \cup {NoPrice} /\ shown \in Cells /\ asked \in {0} \cup Asks
        /\ row \in BOOLEAN /\ behind \in BOOLEAN
        /\ conn = "none" /\ sock = "connecting" /\ load = "asked"
    BY DEF Init, Cells
  <2> QED BY <2>1, <2>2, <2>3, <2>4, <2>5 DEF TypeOK
<1>2. ListInv
  BY DashboardAssumption DEF Init, ListInv
<1>3. OnceInv
  BY DEF Init, OnceInv, InJob, InWire, InLive, Live
<1>4. SomewhereInv /\ UnpricedInv /\ PriceInv
  BY DEF Init, SomewhereInv, UnpricedInv, PriceInv
<1>5. AskInv
  <2>1. Waits(Poll) = 0 /\ Waits(Admin) = 0 /\ Rows = 0 /\ Len(wire) = 0
    BY DEF Init, Tasks, Waits, Rows
  <2>2. /\ committed = Stored /\ committed \in Nat
        /\ asked = 0 /\ Extra = 0 /\ ~row /\ pending = {} /\ replies = {}
    BY DashboardAssumption DEF Init, Extra
  <2>3. asked + Len(wire) + Waits(Poll) + Waits(Admin) <= Extra + (committed - Stored) + Rows
    BY <2>1, <2>2
  <2> QED BY <2>2, <2>3 DEF AskInv
<1> QED BY <1>1, <1>2, <1>3, <1>4, <1>5 DEF PageInv

----------------------------------------------------------------------------
(* Types.                                                                  *)

\* There is a number for the next request: no more are made than messages come.
LEMMA NextAsk ==
  ASSUME PageInv, ~row \/ wire # <<>>
  PROVE  asked + 1 \in Asks
<1>0. /\ asked \in Nat /\ ticks \in 0 .. MaxTicks /\ committed \in 0 .. MaxAlerts
      /\ breaks \in 0 .. MaxBreaks
      /\ MaxTicks \in Nat /\ MaxAlerts \in Nat /\ MaxBreaks \in Nat /\ Stored \in Nat
      /\ row \in BOOLEAN /\ wire \in Seq(Messages)
  BY DashboardAssumption DEF PageInv, TypeOK, Asks
<1>1. Waits(Poll) \in Nat /\ Waits(Admin) \in Nat /\ Rows \in {0, 1} /\ (~row => Rows = 0)
  BY <1>0 DEF Waits, Rows
<1>2. asked + Len(wire) + Waits(Poll) + Waits(Admin) <= Extra + (committed - Stored) + Rows
  BY DEF PageInv, AskInv
<1>3. Len(wire) \in Nat /\ (wire # <<>> => Len(wire) >= 1)
  BY <1>0
<1>4. asked + 1 <= MaxTicks + MaxAlerts + MaxBreaks + 1
  BY <1>0, <1>1, <1>2, <1>3 DEF Extra
<1> QED BY <1>0, <1>4 DEF Asks

\* A request is numbered, and has not been answered.
LEMMA RefreshTypes ==
  ASSUME PageInv, Refresh, asked + 1 \in Asks
  PROVE  /\ asked' \in Asks /\ asked' = asked + 1 /\ pending' \subseteq Asks
         /\ replies \subseteq [ask : Asks \ pending', price : Prices \cup {NoPrice}]
         /\ behind' = FALSE
<1>0. /\ asked \in Nat /\ pending \subseteq Asks /\ Asks \subseteq Nat
      /\ replies \subseteq [ask : Asks \ pending, price : Prices \cup {NoPrice}]
      /\ \A r \in replies : r.ask <= asked
  <2>1. Asks \subseteq Nat
    BY DEF Asks
  <2>2. /\ asked \in {0} \cup Asks /\ pending \subseteq Asks
        /\ replies \subseteq [ask : Asks \ pending, price : Prices \cup {NoPrice}]
    BY DEF PageInv, TypeOK
  <2>3. \A r \in replies : r.ask <= asked
    BY DEF PageInv, AskInv
  <2> QED BY <2>1, <2>2, <2>3
<1>1. asked' = asked + 1 /\ pending' = pending \cup {asked + 1} /\ behind' = FALSE
  BY DEF Refresh
<1>2. ASSUME NEW r \in replies
      PROVE  r \in [ask : Asks \ pending', price : Prices \cup {NoPrice}]
  <2>1. r \in [ask : Asks \ pending, price : Prices \cup {NoPrice}] /\ r.ask <= asked
    BY <1>0
  <2>2. r.ask # asked + 1
    BY <1>0, <2>1
  <2> QED BY <1>1, <2>1, <2>2
<1> QED BY <1>0, <1>1, <1>2

\* Messages that are lost are alerts or prices.
LEMMA LossTypes ==
  ASSUME TypeOK
  PROVE  /\ \A m \in Messages : Missed(m) => lost' \subseteq Alerts /\ behind' \in BOOLEAN
         /\ \A ms \in SUBSET Messages : Dropped(ms) => lost' \subseteq Alerts /\ behind' \in BOOLEAN
<1>1. ASSUME NEW m \in Messages, Missed(m)
      PROVE  lost' \subseteq Alerts /\ behind' \in BOOLEAN
  BY <1>1, MessageIs DEF Missed, TypeOK
<1>2. ASSUME NEW ms \in SUBSET Messages, Dropped(ms)
      PROVE  lost' \subseteq Alerts /\ behind' \in BOOLEAN
  BY <1>2, MessageIs DEF Dropped, TypeOK
<1> QED BY <1>1, <1>2

\* What is in flight, cut short, and what is cut off.
LEMMA CutWire ==
  ASSUME TypeOK, NEW k \in 0 .. Len(wire)
  PROVE  /\ SubSeq(wire, 1, k) \in Seq(Messages) /\ Len(SubSeq(wire, 1, k)) = k
         /\ \A i \in 1 .. k : SubSeq(wire, 1, k)[i] = wire[i]
         /\ {wire[i] : i \in k + 1 .. Len(wire)} \subseteq Messages
         /\ ToSet(wire) \subseteq Messages
<1>1. wire \in Seq(Messages) /\ Len(wire) \in Nat
  BY DEF TypeOK
<1>2. \A i \in 1 .. Len(wire) : wire[i] \in Messages
  BY <1>1
<1>3. /\ SubSeq(wire, 1, k) \in Seq(Messages) /\ Len(SubSeq(wire, 1, k)) = k
      /\ \A i \in 1 .. k : SubSeq(wire, 1, k)[i] = wire[i]
  BY <1>1, SMTT(20)
<1>4. {wire[i] : i \in k + 1 .. Len(wire)} \subseteq Messages
  <2>1. ASSUME NEW i \in k + 1 .. Len(wire)
        PROVE  i \in 1 .. Len(wire)
    BY <1>1
  <2> QED BY <1>2, <2>1
<1>5. ToSet(wire) \subseteq Messages
  BY <1>1, <1>2 DEF ToSet
<1> QED BY <1>3, <1>4, <1>5

\* The server's steps preserve the types.
LEMMA ServerTypes ==
  ASSUME PageInv, ServerNext
  PROVE  TypeOK'
<1>0. TypeOK /\ MaxAlerts \in Nat /\ MaxTicks \in Nat
  BY DashboardAssumption DEF PageInv
<1>1. ASSUME NEW p \in Prices, KeepTick(p)
      PROVE  TypeOK'
  <2>1. job' \in [Tasks -> {<<>>} \cup {<<m>> : m \in Messages}]
    BY <1>0, <1>1, JobSet, MessageIs DEF KeepTick, Tasks
  <2>2. last' \in Prices /\ ticks' \in 0 .. MaxTicks
    BY <1>0, <1>1 DEF KeepTick, TypeOK
  <2> QED BY <1>0, <1>1, <2>1, <2>2 DEF KeepTick, TypeOK, link, alertList, table
<1>2. CASE KeepTestAlert
  <2>1. committed' \in 0 .. MaxAlerts /\ committed' \in Alerts
    BY <1>0, <1>2 DEF KeepTestAlert, TypeOK, Alerts
  <2>2. job' \in [Tasks -> {<<>>} \cup {<<m>> : m \in Messages}]
    BY <1>0, <1>2, <2>1, JobSet, MessageIs DEF KeepTestAlert, Tasks
  <2> QED BY <1>0, <1>2, <2>1, <2>2 DEF KeepTestAlert, TypeOK, link, alertList, table
<1>3. ASSUME NEW t \in Tasks, Broadcast(t)
      PROVE  TypeOK'
  <2>1. job[t][1] \in Messages /\ Head(job[t]) = job[t][1]
    BY <1>0, <1>3, JobIs DEF Broadcast, Send
  <2>2. /\ wire' \in Seq(Messages) /\ lost' \subseteq Alerts /\ behind' \in BOOLEAN
        /\ UNCHANGED <<last, ticks, conn, sock, breaks, alertList, table>>
    <3>1. CASE wire' = Append(wire, job[t][1]) /\ UNCHANGED <<lost, behind>>
      BY <1>0, <1>3, <2>1, <3>1 DEF Broadcast, Send, TypeOK
    <3>2. CASE Missed(job[t][1]) /\ UNCHANGED wire
      BY <1>0, <1>3, <2>1, <3>2, LossTypes DEF Broadcast, Send, TypeOK
    <3> QED BY <1>3, <2>1, <3>1, <3>2 DEF Broadcast, Send
  <2>3. /\ job' \in [Tasks -> {<<>>} \cup {<<m>> : m \in Messages}]
        /\ committed' \in 0 .. MaxAlerts
    <3>1. CASE job' = [job EXCEPT ![t] = <<>>] /\ UNCHANGED committed
      BY <1>0, <2>1, <3>1, JobSet DEF TypeOK
    <3>2. CASE /\ committed < MaxAlerts /\ committed' = committed + 1
               /\ job' = [job EXCEPT ![t] = <<AlertMsg(committed', Head(job[t]).price)>>]
      <4>1. committed' \in 0 .. MaxAlerts /\ committed' \in Alerts
        BY <1>0, <3>2 DEF TypeOK, Alerts
      <4>2. job[t][1].price \in Prices \cup {TestPrice}
        BY <2>1, MessageIs
      <4>3. AlertMsg(committed', job[t][1].price) \in Messages
        BY <4>1, <4>2, MessageIs
      <4> QED BY <1>0, <2>1, <3>2, <4>1, <4>3, JobSet
    <3> QED BY <1>3, <3>1, <3>2 DEF Broadcast
  <2> QED BY <1>0, <2>2, <2>3 DEF TypeOK, alertList, table
<1>4. CASE Accept \/ Register
  BY <1>0, <1>4 DEF Accept, Register, TypeOK, server, alertList, table
<1>5. CASE AnswerAlerts
  <2>1. committed \in 0 .. MaxAlerts
    BY <1>0 DEF TypeOK
  <2>2. snapshot' \in Seq(Alerts) /\ seen' \in 0 .. MaxAlerts
    BY <1>5, <2>1, NewestIs DEF AnswerAlerts
  <2> QED BY <1>0, <1>5, <2>2 DEF AnswerAlerts, TypeOK, server, link, table
<1>6. ASSUME NEW n \in pending, AnswerBaseline(n)
      PROVE  TypeOK'
  <2>1. pending' = pending \ {n} /\ n \in Asks /\ pending \subseteq Asks
    BY <1>0, <1>6 DEF AnswerBaseline, TypeOK
  <2>2. last \in Prices \cup {NoPrice}
    BY <1>0 DEF TypeOK
  <2>3. [ask |-> n, price |-> last] \in [ask : Asks \ pending', price : Prices \cup {NoPrice}]
    BY <2>1, <2>2
  <2>4. replies \subseteq [ask : Asks \ pending', price : Prices \cup {NoPrice}]
    BY <1>0, <2>1 DEF TypeOK
  <2>5. /\ pending' \subseteq Asks
        /\ replies' \subseteq [ask : Asks \ pending', price : Prices \cup {NoPrice}]
    BY <1>6, <2>1, <2>3, <2>4 DEF AnswerBaseline
  <2> QED BY <1>0, <1>6, <2>5 DEF AnswerBaseline, TypeOK, server, link, alertList
<1>7. ASSUME NEW t \in Tasks, StoreFails(t)
      PROVE  TypeOK'
  <2>1. committed' \in 0 .. MaxAlerts /\ committed' \in Alerts
    BY <1>0, <1>7 DEF StoreFails, TypeOK, Alerts
  <2> QED BY <1>0, <1>7, <2>1 DEF StoreFails, TypeOK, link, alertList, table
<1>8. ASSUME NEW t \in Tasks, SendAgain(t)
      PROVE  TypeOK'
  <2>1. job[t][1] \in Messages /\ Head(job[t]) = job[t][1]
    BY <1>0, <1>8, JobIs DEF SendAgain
  <2>2. wire' \in Seq(Messages) /\ twice' \subseteq Alerts
    BY <1>0, <1>8, <2>1, MessageIs DEF SendAgain, TypeOK
  <2>3. breaks' \in 0 .. MaxBreaks
    BY <1>0, <1>8, DashboardAssumption DEF SendAgain, TypeOK
  <2>4. UNCHANGED <<committed, last, job, ticks, conn, sock, load, snapshot, list, seen, loaded,
                    row, shown, asked, pending, replies, applied, lost, behind>>
    BY <1>8 DEF SendAgain, server, table
  <2> QED BY <1>0, <2>2, <2>3, <2>4 DEF TypeOK
<1> QED BY <1>1, <1>2, <1>3, <1>4, <1>5, <1>6, <1>7, <1>8 DEF ServerNext

\* A lost connection and a restart preserve the types.
LEMMA BreakTypes ==
  ASSUME PageInv, NEW k \in 0 .. Len(wire), LoseConnection(k) \/ Restart(k)
  PROVE  TypeOK'
<1>0. TypeOK /\ MaxBreaks \in Nat
  BY DashboardAssumption DEF PageInv
<1>1. ToSet(job[Poll]) \subseteq Messages /\ ToSet(job[Admin]) \subseteq Messages
  BY <1>0, JobIs DEF Tasks, ToSet
<1>2. \A t \in Tasks : ToSet(job[t]) \subseteq Messages
  BY <1>1 DEF Tasks
<1>3. /\ wire' \in Seq(Messages) /\ breaks' \in 0 .. MaxBreaks
      /\ conn' \in {"none", "accepted", "served", "gone"}
  <2>1. Sever(k)
    BY DEF LoseConnection, Restart
  <2>2. wire' \in Seq(Messages)
    BY <1>0, <2>1, CutWire DEF Sever
  <2>3. breaks' \in 0 .. MaxBreaks
    BY <1>0, <2>1 DEF Sever, TypeOK
  <2>4. conn' \in {"none", "accepted", "served", "gone"}
    BY <1>0, <2>1 DEF Sever, TypeOK
  <2> QED BY <2>2, <2>3, <2>4
<1>4. \E ms \in SUBSET Messages : Dropped(ms)
  BY <1>0, <1>2, CutWire DEF LoseConnection, Restart
<1>5. lost' \subseteq Alerts /\ behind' \in BOOLEAN
  BY <1>0, <1>4, LossTypes
<1>6. CASE LoseConnection(k)
  BY <1>0, <1>3, <1>5, <1>6 DEF LoseConnection, TypeOK, server, alertList, table
<1>7. CASE Restart(k)
  <2>1. job' \in [Tasks -> {<<>>} \cup {<<m>> : m \in Messages}]
    BY <1>7 DEF Restart
  <2>2. /\ pending' \subseteq Asks
        /\ replies' \subseteq [ask : Asks \ pending', price : Prices \cup {NoPrice}]
    BY <1>0, <1>7 DEF Restart, TypeOK
  <2> QED BY <1>0, <1>3, <1>5, <1>7, <2>1, <2>2 DEF Restart, TypeOK
<1> QED BY <1>6, <1>7

\* The page's steps preserve the types.
LEMMA PageTypes ==
  ASSUME PageInv, PageNext
  PROVE  TypeOK'
<1>0. /\ TypeOK /\ asked \in Nat /\ applied \in 0 .. asked
      /\ \A r \in replies : r.ask <= asked
  BY DashboardAssumption DEF PageInv, TypeOK, AskInv, Asks
<1>1. CASE InitTable
  <2>1. asked + 1 \in Asks /\ Refresh
    BY <1>1, NextAsk DEF InitTable
  <2>2. applied' \in 0 .. asked'
    BY <1>0, <1>1, <2>1, RefreshTypes DEF InitTable
  <2> QED BY <1>0, <1>1, <2>1, <2>2, RefreshTypes
          DEF InitTable, TypeOK, server, link, alertList
<1>2. ASSUME NEW r \in replies, Refreshed(r)
      PROVE  TypeOK'
  <2>1. r \in [ask : Asks \ pending, price : Prices \cup {NoPrice}] /\ r.ask <= asked
    BY <1>0 DEF TypeOK
  <2>2. applied' \in 0 .. asked
    BY <1>0, <1>2, <2>1 DEF Refreshed, Asks
  <2>3. shown' \in Cells
    BY <1>0, <1>2, <2>1 DEF Refreshed, Filling, TypeOK, Cells
  <2>4. replies' \subseteq [ask : Asks \ pending, price : Prices \cup {NoPrice}]
    BY <1>0, <1>2 DEF Refreshed, TypeOK
  <2> QED BY <1>0, <1>2, <2>2, <2>3, <2>4 DEF Refreshed, TypeOK, server, link, alertList
<1>3. CASE LoadAlerts
  <2>1. list' \in Seq(Alerts) /\ loaded' \in 0 .. MaxAlerts
    BY <1>0, <1>3, FilledIs DEF LoadAlerts, TypeOK
  <2> QED BY <1>0, <1>3, <2>1 DEF LoadAlerts, TypeOK, server, link, table
<1>4. CASE OnMessage
  <2>1. wire \in Seq(Messages) /\ wire # <<>> /\ Head(wire) \in Messages
    BY <1>0, <1>4 DEF OnMessage, TypeOK
  <2>2. list' \in Seq(Alerts) /\ wire' \in Seq(Messages)
    BY <1>0, <1>4, <2>1, MessageIs, PrependIs DEF OnMessage, Listed, TypeOK
  <2>3. CASE row /\ shown' = Head(wire).price /\ Refresh /\ UNCHANGED <<row, replies, applied>>
    <3>1. asked + 1 \in Asks
      BY <2>1, NextAsk
    <3>2. shown' \in Cells
      BY <2>1, <2>3, MessageIs DEF Cells
    <3>3. applied' \in 0 .. asked'
      BY <1>0, <2>3, <3>1, RefreshTypes
    <3> QED BY <1>0, <1>4, <2>2, <2>3, <3>1, <3>2, <3>3, RefreshTypes
            DEF OnMessage, TypeOK, server
  <2>4. CASE UNCHANGED <<table, behind>>
    BY <1>0, <1>4, <2>2, <2>4 DEF OnMessage, TypeOK, server, table
  <2> QED BY <1>4, <2>3, <2>4 DEF OnMessage, ApplyPriceUpdate
<1>5. CASE OnOpen \/ Connect
  BY <1>0, <1>5 DEF OnOpen, Connect, TypeOK, server, alertList, table
<1>6. CASE OnClose
  <2>1. lost' \subseteq Alerts /\ behind' \in BOOLEAN
    BY <1>0, <1>6, LossTypes, CutWire DEF OnClose, TypeOK, ToSet
  <2> QED BY <1>0, <1>6, <2>1 DEF OnClose, AfterClose, TypeOK, server, alertList, table
<1> QED BY <1>1, <1>2, <1>3, <1>4, <1>5, <1>6 DEF PageNext

\* Every step preserves the types.
LEMMA TypesStep ==
  ASSUME PageInv, [Next]_vars
  PROVE  TypeOK'
<1>1. CASE UNCHANGED vars
  BY <1>1 DEF PageInv, TypeOK, vars, server, link, alertList, table
<1> QED BY <1>1, ServerTypes, BreakTypes, PageTypes DEF Next

----------------------------------------------------------------------------
(* Where the alerts are.                                                   *)

\* The steps at which messages at most disappear.
Quiet ==
  \/ \E p \in Prices : KeepTick(p)
  \/ Accept \/ Register \/ AnswerAlerts
  \/ \E n \in pending : AnswerBaseline(n)
  \/ InitTable \/ LoadAlerts \/ OnOpen \/ OnClose \/ Connect
  \/ \E r \in replies : Refreshed(r)
  \/ \E k \in 0 .. Len(wire) : LoseConnection(k) \/ Restart(k)
  \/ UNCHANGED vars

\* Those at which they appear or move on.
LEMMA QuietOrNot ==
  [Next]_vars => \/ Quiet \/ KeepTestAlert \/ OnMessage
                 \/ \E t \in Tasks : StoreFails(t) \/ Broadcast(t) \/ SendAgain(t)
BY DEF Next, PageNext, ServerNext, Quiet

\* What is in flight stays or is cut short, or is gone.
LEMMA QuietWire ==
  ASSUME PageInv, Quiet
  PROVE  /\ Len(wire') \in 0 .. Len(wire)
         /\ \A i \in 1 .. Len(wire') : wire'[i] = wire[i]
<1>0. TypeOK /\ wire \in Seq(Messages)
  BY DEF PageInv, TypeOK
<1>1. CASE UNCHANGED wire
  BY <1>0, <1>1
<1>2. CASE wire' = <<>>
  BY <1>0, <1>2
<1>3. ASSUME NEW k \in 0 .. Len(wire), wire' = SubSeq(wire, 1, k)
      PROVE  /\ Len(wire') \in 0 .. Len(wire)
             /\ \A i \in 1 .. Len(wire') : wire'[i] = wire[i]
  <2>1. Len(wire') = k /\ \A i \in 1 .. k : wire'[i] = wire[i]
    BY <1>0, <1>3, CutWire
  <2> QED BY <2>1
<1>4. \/ UNCHANGED wire \/ wire' = <<>>
      \/ \E k \in 0 .. Len(wire) : wire' = SubSeq(wire, 1, k)
  BY DEF Quiet, KeepTick, Accept, Register, AnswerAlerts, AnswerBaseline, InitTable,
         LoadAlerts, OnOpen, OnClose, Connect, Refreshed, LoseConnection, Restart, Sever,
         vars, link, table
<1> QED BY <1>1, <1>2, <1>3, <1>4

\* A job stays, or is a poll's price, or dies.
LEMMA QuietJob ==
  ASSUME PageInv, Quiet
  PROVE  /\ UNCHANGED <<committed, twice>>
         /\ \A t \in Tasks : \/ job'[t] = job[t]
                             \/ job'[t] = <<>>
                             \/ job'[t] # <<>> /\ job'[t][1].type = "price_update"
<1>0. job \in [Tasks -> {<<>>} \cup {<<m>> : m \in Messages}]
  BY DEF PageInv, TypeOK
<1>1. ASSUME NEW p \in Prices, KeepTick(p), NEW t \in Tasks
      PROVE  \/ job'[t] = job[t]
             \/ job'[t] # <<>> /\ job'[t][1].type = "price_update"
  <2>1. job' = [job EXCEPT ![Poll] = <<PriceMsg(p)>>]
    BY <1>1 DEF KeepTick
  <2>2. job'[t] = job[t] \/ job'[t] = <<PriceMsg(p)>>
    BY <1>0, <2>1
  <2>3. CASE job'[t] = <<PriceMsg(p)>>
    <3>1. job'[t] # <<>> /\ job'[t][1] = PriceMsg(p)
      BY <2>3
    <3>2. PriceMsg(p).type = "price_update"
      BY MessageIs
    <3> QED BY <3>1, <3>2, Zenon
  <2> QED BY <2>2, <2>3
<1>2. ASSUME NEW k \in 0 .. Len(wire), Restart(k), NEW t \in Tasks
      PROVE  job'[t] = <<>>
  BY <1>2 DEF Restart
<1>3. UNCHANGED job \/ (\E p \in Prices : KeepTick(p)) \/ \E k \in 0 .. Len(wire) : Restart(k)
  BY DEF Quiet, Accept, Register, AnswerAlerts, AnswerBaseline, InitTable,
         LoadAlerts, OnOpen, OnClose, Connect, Refreshed, LoseConnection,
         vars, server
<1>4. UNCHANGED <<committed, twice>>
  BY DEF Quiet, KeepTick, Accept, Register, AnswerAlerts, AnswerBaseline, InitTable,
         LoadAlerts, OnOpen, OnClose, Connect, Refreshed, LoseConnection, Restart,
         vars, server, alertList
<1> QED BY <1>1, <1>2, <1>3, <1>4

\* The list stays, or is loaded: nothing on it is live then.
LEMMA QuietList ==
  ASSUME PageInv, Quiet
  PROVE  /\ ListInv'
         /\ \A i \in Nat, a \in Alerts : InLive(i, a)' => InLive(i, a)
<1>0. /\ TypeOK /\ ListInv /\ UNCHANGED committed
      /\ committed \in 0 .. MaxAlerts /\ seen \in 0 .. MaxAlerts /\ loaded \in 0 .. MaxAlerts
      /\ list \in Seq(Alerts)
  BY QuietJob DEF PageInv, TypeOK
<1>1. CASE /\ UNCHANGED <<list, seen, loaded>>
           /\ \/ UNCHANGED <<load, snapshot>>
              \/ load # "done" /\ load' = "failed"
  BY <1>0, <1>1 DEF ListInv, Live, InLive, Size, Newest
<1>2. CASE AnswerAlerts
  <2>1. snapshot' = Newest(seen') /\ seen' = committed /\ loaded' = loaded
        /\ load' = "answered" /\ load = "asked"
    BY <1>2 DEF AnswerAlerts
  <2>2. Live' = 0
    BY <2>1 DEF Live
  <2> QED BY <1>0, <2>1, <2>2 DEF ListInv, InLive, Newest
<1>3. CASE LoadAlerts
  <2>1. snapshot = Newest(seen) /\ seen <= committed
    BY <1>0, <1>3 DEF LoadAlerts, ListInv
  <2>2. /\ list' = Newest(seen) /\ loaded' = committed
        /\ load' = "done" /\ UNCHANGED <<seen, snapshot>>
    BY <1>0, <1>3, <2>1, NewestIs, FilledIs DEF LoadAlerts
  <2>3. Len(list') = Size(seen') /\ Size(seen') \in Nat
    BY <1>0, <2>2, NewestIs DEF Size
  <2>4. Live' = 0
    BY <2>2, <2>3 DEF Live
  <2>5. \A i \in 1 .. Size(seen') : list'[Live' + i] = seen' + 1 - i
    BY <1>0, <2>2, <2>4, NewestIs DEF Size
  <2>6. ListInv'
    BY <1>0, <2>1, <2>2, <2>3, <2>5 DEF ListInv
  <2> QED BY <2>4, <2>6 DEF InLive
<1>4. \/ AnswerAlerts \/ LoadAlerts
      \/ /\ UNCHANGED <<list, seen, loaded>>
         /\ \/ UNCHANGED <<load, snapshot>>
            \/ load # "done" /\ load' = "failed"
  BY DEF Quiet, KeepTick, Accept, Register, AnswerBaseline, InitTable, OnOpen, OnClose,
         Connect, Refreshed, LoseConnection, Restart, vars, alertList
<1> QED BY <1>1, <1>2, <1>3, <1>4

\* When messages at most disappear, no alert is in two places.
LEMMA QuietOnce ==
  ASSUME PageInv, Quiet
  PROVE  OnceInv'
<1>1. OnceInv /\ UNCHANGED <<committed, twice>> /\ wire \in Seq(Messages) /\ Len(wire) \in Nat
  BY QuietJob DEF PageInv, TypeOK
<1>2. \A t \in Tasks, a \in Alerts : InJob(t, a)' => InJob(t, a)
  BY QuietJob DEF InJob
<1>3. \A i \in Nat, a \in Alerts : InWire(i, a)' => InWire(i, a)
  BY <1>1, QuietWire DEF InWire
<1>4. \A i \in Nat, a \in Alerts : InLive(i, a)' => InLive(i, a)
  BY QuietList
<1> QED BY <1>1, <1>2, <1>3, <1>4 DEF OnceInv

\* A test alert is new: it is in the request's job and nowhere else.
LEMMA TestAlertOnce ==
  ASSUME PageInv, KeepTestAlert
  PROVE  OnceInv' /\ ListInv'
<1>0. /\ TypeOK /\ OnceInv /\ ListInv /\ committed \in 0 .. MaxAlerts /\ committed' = committed + 1
      /\ UNCHANGED <<wire, load, snapshot, list, seen, loaded, twice>>
      /\ seen \in Nat /\ loaded \in Nat /\ committed' \in Alerts
  BY DashboardAssumption DEF PageInv, TypeOK, KeepTestAlert, link, alertList, Alerts
<1>1. ListInv'
  BY <1>0 DEF ListInv, Live, Size, Newest
<1>2. /\ \A i \in Nat, a \in Alerts : InWire(i, a)' <=> InWire(i, a)
      /\ \A i \in Nat, a \in Alerts : InLive(i, a)' <=> InLive(i, a)
  BY <1>0 DEF InWire, InLive, Live, Size
<1>3. ASSUME NEW t \in Tasks, NEW a \in Alerts, InJob(t, a)'
      PROVE  InJob(t, a) \/ (t = Admin /\ a = committed')
  <2>1. job'[t] = job[t] \/ (t = Admin /\ job'[t] = <<AlertMsg(committed', TestPrice)>>)
    BY <1>0 DEF KeepTestAlert, TypeOK
  <2>2. CASE job'[t] = job[t]
    BY <1>3, <2>2 DEF InJob
  <2>3. CASE t = Admin /\ job'[t] = <<AlertMsg(committed', TestPrice)>>
    <3>1. job'[t][1] = AlertMsg(committed', TestPrice)
      BY <2>3
    <3>2. a = AlertMsg(committed', TestPrice).id
      BY <1>3, <3>1 DEF InJob
    <3> QED BY <1>0, <2>3, <3>2, MessageIs
  <2> QED BY <2>1, <2>2, <2>3
<1>4. \A a \in Alerts : a <= committed => a # committed' /\ a <= committed'
  BY <1>0 DEF Alerts
<1>5. OnceInv'
  BY <1>0, <1>2, <1>3, <1>4 DEF OnceInv
<1> QED BY <1>1, <1>5

\* A broadcast takes a message from a job to the end of what is in flight; a
\* poll may then have a new alert.
LEMMA BroadcastMoves ==
  ASSUME PageInv, NEW t \in Tasks, Broadcast(t)
  PROVE  /\ committed' \in {committed, committed + 1}
         /\ \A u \in Tasks, a \in Alerts : InJob(u, a)' =>
              \/ u # t /\ InJob(u, a)
              \/ u = t /\ a = committed + 1 /\ a = committed'
         /\ \A i \in Nat, a \in Alerts : InWire(i, a)' =>
              \/ InWire(i, a)
              \/ InJob(t, a) /\ i = Len(wire) + 1
         /\ UNCHANGED alertList
<1>0. /\ TypeOK /\ committed \in Nat /\ wire \in Seq(Messages)
      /\ job[t] # <<>> /\ Head(job[t]) = job[t][1] /\ job[t][1] \in Messages
      /\ UNCHANGED alertList
  BY JobIs DEF PageInv, TypeOK, Broadcast, Send
<1>1. \/ job' = [job EXCEPT ![t] = <<>>] /\ UNCHANGED committed
      \/ /\ committed < MaxAlerts /\ committed' = committed + 1
         /\ job' = [job EXCEPT ![t] = <<AlertMsg(committed', Head(job[t]).price)>>]
  BY DEF Broadcast
<1>2. ASSUME NEW u \in Tasks, NEW a \in Alerts, InJob(u, a)'
      PROVE  \/ u # t /\ InJob(u, a)
             \/ u = t /\ a = committed + 1 /\ a = committed'
  <2>1. CASE u # t
    <3>1. job'[u] = job[u]
      BY <1>0, <1>1, <2>1 DEF TypeOK
    <3> QED BY <1>2, <2>1, <3>1 DEF InJob
  <2>2. CASE u = t
    <3>1. /\ committed' = committed + 1 /\ committed' \in Alerts
          /\ job'[t] = <<AlertMsg(committed', job[t][1].price)>>
      <4>1. job'[t] # <<>> /\ job \in [Tasks -> {<<>>} \cup {<<m>> : m \in Messages}]
        BY <1>0, <1>2, <2>2 DEF TypeOK, InJob
      <4>2. /\ committed < MaxAlerts /\ committed' = committed + 1
            /\ job'[t] = <<AlertMsg(committed', job[t][1].price)>>
        BY <1>0, <1>1, <4>1
      <4> QED BY <1>0, <4>2, DashboardAssumption DEF Alerts
    <3>2. job'[t][1] = AlertMsg(committed', job[t][1].price)
      BY <3>1
    <3>3. a = AlertMsg(committed', job[t][1].price).id
      BY <1>2, <2>2, <3>2 DEF InJob
    <3>4. job[t][1].price \in Prices \cup {TestPrice}
      BY <1>0, MessageIs
    <3> QED BY <2>2, <3>1, <3>3, <3>4, MessageIs
  <2> QED BY <2>1, <2>2
<1>3. ASSUME NEW i \in Nat, NEW a \in Alerts, InWire(i, a)'
      PROVE  \/ InWire(i, a)
             \/ InJob(t, a) /\ i = Len(wire) + 1
  <2>1. UNCHANGED wire \/ wire' = Append(wire, job[t][1])
    BY <1>0 DEF Broadcast, Send
  <2>2. CASE UNCHANGED wire
    BY <1>3, <2>2 DEF InWire
  <2>3. CASE wire' = Append(wire, job[t][1])
    <3>1. \/ i \in 1 .. Len(wire) /\ wire'[i] = wire[i]
          \/ i = Len(wire) + 1 /\ wire'[i] = job[t][1]
      BY <1>0, <1>3, <2>3 DEF InWire
    <3> QED BY <1>0, <1>3, <3>1 DEF InWire, InJob
  <2> QED BY <2>1, <2>2, <2>3
<1> QED BY <1>0, <1>1, <1>2, <1>3

\* A broadcast does not double an alert.
LEMMA BroadcastOnce ==
  ASSUME PageInv, NEW t \in Tasks, Broadcast(t)
  PROVE  OnceInv' /\ ListInv'
<1>0. /\ OnceInv /\ ListInv /\ committed \in Nat /\ UNCHANGED <<load, snapshot, list, seen, loaded, twice>>
      /\ seen \in Nat /\ loaded \in Nat /\ committed' \in {committed, committed + 1}
  BY BroadcastMoves DEF PageInv, TypeOK, alertList
<1>1. ListInv'
  BY <1>0 DEF ListInv, Live, Size, Newest
<1>2. \A i \in Nat, a \in Alerts : InLive(i, a)' <=> InLive(i, a)
  BY <1>0 DEF InLive, Live, Size
<1>3. \A a \in Alerts : (a <= committed => a # committed + 1) /\ a \in Nat
  BY <1>0 DEF Alerts
<1>4. OnceInv'
  BY <1>0, <1>2, <1>3, BroadcastMoves DEF OnceInv
<1> QED BY <1>1, <1>4

\* Nor does an alert that is stored and never broadcast.
LEMMA UnsentOnce ==
  ASSUME PageInv, NEW t \in Tasks, StoreFails(t)
  PROVE  OnceInv' /\ ListInv'
<1>0. /\ OnceInv /\ ListInv /\ committed \in Nat /\ committed' = committed + 1
      /\ UNCHANGED <<job, wire, load, snapshot, list, seen, loaded, twice>>
      /\ seen \in Nat /\ loaded \in Nat
  BY DEF PageInv, TypeOK, StoreFails, link, alertList
<1>1. ListInv'
  BY <1>0 DEF ListInv, Live, Size, Newest
<1>2. /\ \A u \in Tasks, a \in Alerts : InJob(u, a)' <=> InJob(u, a)
      /\ \A i \in Nat, a \in Alerts : InWire(i, a)' <=> InWire(i, a)
      /\ \A i \in Nat, a \in Alerts : InLive(i, a)' <=> InLive(i, a)
  BY <1>0 DEF InJob, InWire, InLive, Live, Size
<1>3. \A a \in Alerts : a <= committed => a <= committed'
  BY <1>0 DEF Alerts
<1>4. OnceInv'
  BY <1>0, <1>2, <1>3 DEF OnceInv
<1> QED BY <1>1, <1>4

\* A message that is sent again is added to what is in flight.
LEMMA AgainMoves ==
  ASSUME PageInv, NEW t \in Tasks, SendAgain(t)
  PROVE  /\ UNCHANGED <<server, load, snapshot, list, seen, loaded, lost, behind, table>>
         /\ wire' = Append(wire, job[t][1]) /\ job[t] # <<>>
         /\ \A i \in Nat, a \in Alerts : InWire(i, a) => InWire(i, a)'
         /\ \A i \in Nat, a \in Alerts : InWire(i, a)' =>
              \/ InWire(i, a)
              \/ InJob(t, a) /\ a \in twice'
         /\ twice \subseteq twice'
<1>0. /\ TypeOK /\ wire \in Seq(Messages)
      /\ job[t] # <<>> /\ Head(job[t]) = job[t][1]
  BY JobIs DEF PageInv, TypeOK, SendAgain
<1>1. wire' = Append(wire, job[t][1])
  BY <1>0 DEF SendAgain
<1>2. ASSUME NEW i \in Nat, NEW a \in Alerts, InWire(i, a)'
      PROVE  InWire(i, a) \/ (InJob(t, a) /\ a \in twice')
  <2>1. \/ i \in 1 .. Len(wire) /\ wire'[i] = wire[i]
        \/ i = Len(wire) + 1 /\ wire'[i] = job[t][1]
    BY <1>0, <1>1, <1>2 DEF InWire
  <2> QED BY <1>0, <1>2, <2>1 DEF InWire, InJob, SendAgain
<1>3. ASSUME NEW i \in Nat, NEW a \in Alerts, InWire(i, a)
      PROVE  InWire(i, a)'
  <2>1. Len(wire') = Len(wire) + 1 /\ \A j \in 1 .. Len(wire) : wire'[j] = wire[j]
    BY <1>0, <1>1
  <2> QED BY <1>0, <1>3, <2>1 DEF InWire
<1>4. UNCHANGED <<server, load, snapshot, list, seen, loaded, lost, behind, table>>
  BY DEF SendAgain
<1>5. twice \subseteq twice'
  BY DEF SendAgain
<1> QED BY <1>0, <1>1, <1>2, <1>3, <1>4, <1>5

\* Only the alert sent again is in two places now.
LEMMA AgainOnce ==
  ASSUME PageInv, NEW t \in Tasks, SendAgain(t)
  PROVE  OnceInv' /\ ListInv'
<1>0. /\ OnceInv /\ ListInv
      /\ UNCHANGED <<committed, job, load, snapshot, list, seen, loaded>>
  BY AgainMoves DEF PageInv, server
<1>1. ListInv'
  BY <1>0 DEF ListInv, Live, Size, Newest
<1>2. /\ \A u \in Tasks, a \in Alerts : InJob(u, a)' <=> InJob(u, a)
      /\ \A i \in Nat, a \in Alerts : InLive(i, a)' <=> InLive(i, a)
  BY <1>0 DEF InJob, InLive, Live, Size
<1>3. /\ \A i \in Nat, a \in Alerts : InWire(i, a)' => a <= committed
      /\ \A a \in Alerts \ twice' : a \in Alerts \ twice
      /\ \A i \in Nat, a \in Alerts \ twice' : InWire(i, a)' => InWire(i, a)
  BY <1>0, AgainMoves DEF OnceInv
<1>4. OnceInv'
  BY <1>0, <1>2, <1>3 DEF OnceInv
<1> QED BY <1>1, <1>4

\* A message that is handled goes from the head of what is in flight to the
\* top of the list.
LEMMA HandledMoves ==
  ASSUME PageInv, OnMessage
  PROVE  /\ UNCHANGED <<committed, job, load, snapshot, seen, loaded, twice, lost>>
         /\ \A i \in Nat, a \in Alerts : InWire(i, a)' <=> i >= 1 /\ InWire(i + 1, a)
         /\ \/ \A i \in Nat, a \in Alerts :
                 InLive(i, a)' <=> /\ load = "done"
                                   /\ \/ i = 1 /\ InWire(1, a)
                                      \/ i >= 2 /\ InLive(i - 1, a)
            \/ /\ \A b \in Alerts : ~InWire(1, b)
               /\ \A i \in Nat, a \in Alerts : InLive(i, a)' <=> InLive(i, a)
         /\ ListInv'
<1>0. /\ TypeOK /\ ListInv /\ list \in Seq(Alerts) /\ wire \in Seq(Messages)
      /\ seen \in 0 .. MaxAlerts /\ Len(list) \in Nat
      /\ Len(wire) \in Nat /\ Len(wire) >= 1
      /\ Head(wire) = wire[1] /\ wire[1] \in Messages /\ wire' = Tail(wire)
      /\ list' = Listed(wire[1])
  BY DEF PageInv, TypeOK, OnMessage
<1>1. UNCHANGED <<committed, job, load, snapshot, seen, loaded, twice, lost>>
  BY DEF OnMessage, server
<1>2. ASSUME NEW i \in Nat, NEW a \in Alerts
      PROVE  InWire(i, a)' <=> i >= 1 /\ InWire(i + 1, a)
  <2>1. Len(wire') = Len(wire) - 1 /\ \A j \in 1 .. Len(wire) - 1 : wire'[j] = wire[j + 1]
    BY <1>0
  <2> QED BY <1>0, <2>1 DEF InWire
<1>3. Size(seen) \in Nat /\ (load = "done" => Live \in Nat /\ Live = Len(list) - Size(seen))
  BY <1>0, NewestIs DEF ListInv, Live
<1>4. CASE wire[1].type = "alert"
  <2>1. wire[1].id \in Alerts /\ list' = Prepend(list, wire[1].id)
    BY <1>0, <1>4, MessageIs DEF Listed
  <2>2. /\ Len(list') = Len(list) + 1 /\ list'[1] = wire[1].id
        /\ \A i \in 1 .. Len(list) : list'[i + 1] = list[i]
    <3>1. LET items == Prepend(list, wire[1].id)
          IN  /\ Len(items) = Len(list) + 1 /\ items[1] = wire[1].id
              /\ \A i \in 1 .. Len(list) : items[i + 1] = list[i]
      BY <1>0, <2>1, PrependIs
    <3> QED BY <2>1, <3>1, Zenon
  <2>3. load = "done" => Live' = Live + 1
    <3>1. Size(seen)' = Size(seen)
      BY <1>1 DEF Size
    <3>2. load = "done" => Live' = Len(list') - Size(seen)
      BY <1>1, <3>1 DEF Live
    <3>3. load = "done" => Live' = (Len(list) + 1) - Size(seen)
      BY <2>2, <3>2
    <3> QED BY <1>0, <1>3, <3>3
  <2>4. load # "done" => Live' = 0
    BY <1>1 DEF Live
  <2>5. \A a \in Alerts : InWire(1, a) <=> a = wire[1].id
    BY <1>0, <1>4 DEF InWire
  <2>6. ASSUME NEW i \in Nat, NEW a \in Alerts, load = "done"
        PROVE  InLive(i, a)' <=> \/ i = 1 /\ InWire(1, a)
                                 \/ i >= 2 /\ InLive(i - 1, a)
    <3>1. CASE i = 0
      BY <3>1 DEF InLive
    <3>2. CASE i = 1
      BY <1>3, <2>2, <2>3, <2>5, <2>6, <3>2 DEF InLive
    <3>3. CASE i >= 2
      <4>1. InLive(i, a)' <=> i - 1 \in 1 .. Live /\ list'[(i - 1) + 1] = a
        BY <1>3, <2>3, <2>6, <3>3 DEF InLive
      <4>2. i - 1 \in 1 .. Live => list'[(i - 1) + 1] = list[i - 1]
        BY <1>0, <1>3, <2>2, <2>6
      <4> QED BY <3>3, <4>1, <4>2 DEF InLive
    <3> QED BY <3>1, <3>2, <3>3
  <2>7. \A i \in Nat, a \in Alerts : load # "done" => ~InLive(i, a)'
    BY <2>4 DEF InLive
  <2>8. ListInv'
    <3>1. ASSUME load = "done", NEW i \in 1 .. Size(seen)
          PROVE  list'[Live' + i] = seen + 1 - i
      <4>1. list[Live + i] = seen + 1 - i
        BY <1>0, <3>1 DEF ListInv
      <4>2. Live + i \in 1 .. Len(list) /\ Live' + i = (Live + i) + 1
        <5>1. Live \in Nat /\ Size(seen) \in Nat /\ Len(list) = Live + Size(seen)
          BY <1>0, <1>3, <3>1
        <5>2. i \in Nat /\ i >= 1 /\ i <= Size(seen)
          BY <5>1, <3>1
        <5> QED BY <2>3, <3>1, <5>1, <5>2
      <4> QED BY <2>2, <4>1, <4>2
    <3>2. Size(seen)' = Size(seen) /\ Newest(seen)' = Newest(seen)
      BY <1>1 DEF Size, Newest
    <3> QED BY <1>0, <1>1, <1>3, <2>2, <3>1, <3>2 DEF ListInv
  <2> QED BY <1>1, <1>2, <2>6, <2>7, <2>8
<1>5. CASE wire[1].type # "alert"
  <2>1. UNCHANGED list
    BY <1>0, <1>5 DEF Listed
  <2>2. \A b \in Alerts : ~InWire(1, b)
    BY <1>5 DEF InWire
  <2>3. \A i \in Nat, a \in Alerts : InLive(i, a)' <=> InLive(i, a)
    BY <1>1, <2>1 DEF InLive, Live, Size
  <2>4. ListInv'
    BY <1>0, <1>1, <2>1 DEF ListInv, Live, Size, Newest
  <2> QED BY <1>1, <1>2, <2>2, <2>3, <2>4
<1> QED BY <1>4, <1>5

\* An alert that is listed is no longer in flight.
LEMMA HandledOnce ==
  ASSUME PageInv, OnMessage
  PROVE  OnceInv'
<1>0. OnceInv /\ UNCHANGED <<committed, job, twice>>
  BY HandledMoves DEF PageInv
<1>1. \A t \in Tasks, a \in Alerts : InJob(t, a)' <=> InJob(t, a)
  BY <1>0 DEF InJob
<1>2. \A i \in Nat, a \in Alerts : InWire(i, a)' => i + 1 \in Nat /\ InWire(i + 1, a) /\ i + 1 # 1
  BY HandledMoves
<1>3. CASE \A i \in Nat, a \in Alerts :
             InLive(i, a)' <=> /\ load = "done"
                               /\ \/ i = 1 /\ InWire(1, a)
                                  \/ i >= 2 /\ InLive(i - 1, a)
  <2>1. \A i \in Nat, a \in Alerts :
          InLive(i, a)' => \/ i = 1 /\ InWire(1, a)
                           \/ i - 1 \in Nat /\ InLive(i - 1, a)
    BY <1>3
  <2>2. ASSUME NEW i \in Nat, NEW j \in Nat, NEW a \in Alerts
        PROVE  /\ InLive(i, a)' => a <= committed'
               /\ InWire(i, a)' => a <= committed'
               /\ a \notin twice =>
                    /\ InLive(i, a)' /\ InLive(j, a)' => i = j
                    /\ InWire(i, a)' => ~InLive(j, a)'
                    /\ InWire(i, a)' /\ InWire(j, a)' => i = j
    BY <1>0, <1>2, <2>1 DEF OnceInv
  <2>3. ASSUME NEW t \in Tasks, NEW i \in Nat, NEW a \in Alerts \ twice, InJob(t, a)
        PROVE  ~InWire(i, a)' /\ ~InLive(i, a)'
    BY <1>0, <1>2, <2>1, <2>3 DEF OnceInv
  <2> QED BY <1>0, <1>1, <2>2, <2>3 DEF OnceInv
<1>4. CASE \A i \in Nat, a \in Alerts : InLive(i, a)' <=> InLive(i, a)
  <2>1. \A i, j \in Nat, a \in Alerts \ twice : InWire(i, a)' /\ InWire(j, a)' => i = j
    BY <1>0, <1>2 DEF OnceInv
  <2> QED BY <1>0, <1>1, <1>2, <1>4, <2>1 DEF OnceInv
<1> QED BY <1>3, <1>4, HandledMoves

\* What is dropped is lost.
LEMMA DroppedIsLost ==
  ASSUME NEW ms, Dropped(ms)
  PROVE  lost \subseteq lost' /\ \A m \in ms : m.type = "alert" => m.id \in lost'
BY DEF Dropped

\* An alert in flight or in a job stays there or is lost when a connection is
\* lost or closed, or the server restarts.
LEMMA BreaksLose ==
  ASSUME PageInv, NEW a \in Alerts,
         OnClose \/ \E k \in 0 .. Len(wire) : LoseConnection(k) \/ Restart(k)
  PROVE  /\ lost \subseteq lost'
         /\ \A i \in Nat : InWire(i, a) => InWire(i, a)' \/ a \in lost'
         /\ \A t \in Tasks : InJob(t, a) => InJob(t, a)' \/ a \in lost'
<1>0. TypeOK /\ wire \in Seq(Messages) /\ Len(wire) \in Nat
  BY DEF PageInv, TypeOK
<1>1. CASE OnClose
  <2>1. Dropped(ToSet(wire)) /\ UNCHANGED job
    BY <1>1 DEF OnClose, server
  <2>2. \A i \in Nat : InWire(i, a) => wire[i] \in ToSet(wire)
    BY <1>0 DEF InWire, ToSet
  <2> QED BY <2>1, <2>2, DroppedIsLost DEF InWire, InJob
<1>2. ASSUME NEW k \in 0 .. Len(wire), LoseConnection(k) \/ Restart(k),
             NEW i \in Nat, InWire(i, a), i <= k
      PROVE  InWire(i, a)'
  <2>1. wire' = SubSeq(wire, 1, k)
    BY <1>2 DEF LoseConnection, Restart, Sever
  <2>2. Len(wire') = k /\ \A j \in 1 .. k : wire'[j] = wire[j]
    BY <1>0, <2>1, CutWire
  <2> QED BY <1>2, <2>2 DEF InWire
<1>3. ASSUME NEW k \in 0 .. Len(wire), NEW i \in Nat, InWire(i, a), ~(i <= k)
      PROVE  wire[i] \in {wire[j] : j \in k + 1 .. Len(wire)} /\ wire[i].type = "alert"
             /\ wire[i].id = a
  BY <1>0, <1>3 DEF InWire
<1>4. ASSUME NEW k \in 0 .. Len(wire), LoseConnection(k)
      PROVE  /\ lost \subseteq lost' /\ UNCHANGED job
             /\ \A i \in Nat : InWire(i, a) /\ ~(i <= k) => a \in lost'
  <2>1. Dropped({wire[j] : j \in k + 1 .. Len(wire)}) /\ UNCHANGED job
    BY <1>4 DEF LoseConnection, server
  <2> QED BY <1>3, <2>1, DroppedIsLost
<1>5. ASSUME NEW k \in 0 .. Len(wire), Restart(k)
      PROVE  /\ lost \subseteq lost'
             /\ \A i \in Nat : InWire(i, a) /\ ~(i <= k) => a \in lost'
             /\ \A t \in Tasks : InJob(t, a) => a \in lost'
  <2> DEFINE cut == {wire[j] : j \in k + 1 .. Len(wire)}
             jobs == UNION {ToSet(job[t]) : t \in Tasks}
  <2>1. Dropped(cut \cup jobs)
    BY <1>5 DEF Restart
  <2>2. \A t \in Tasks : InJob(t, a) =>
          job[t][1] \in jobs /\ job[t][1].type = "alert" /\ job[t][1].id = a
    BY <1>0, JobIs DEF InJob
  <2> HIDE DEF cut, jobs
  <2>3. lost \subseteq lost' /\ \A m \in cut \cup jobs : m.type = "alert" => m.id \in lost'
    BY <2>1, DroppedIsLost
  <2>4. \A i \in Nat : InWire(i, a) /\ ~(i <= k) => a \in lost'
    BY <1>3, <2>3 DEF cut
  <2>5. \A t \in Tasks : InJob(t, a) => a \in lost'
    BY <2>2, <2>3
  <2> QED BY <2>3, <2>4, <2>5
<1> QED BY <1>1, <1>2, <1>4, <1>5 DEF InJob

\* When messages at most disappear, an alert stays where it is or is lost.
LEMMA QuietSomewhere ==
  ASSUME PageInv, Quiet
  PROVE  SomewhereInv'
<1>0. /\ TypeOK /\ SomewhereInv /\ ListInv /\ UNCHANGED committed
      /\ committed \in 0 .. MaxAlerts /\ loaded \in 0 .. MaxAlerts
  BY QuietJob DEF PageInv, TypeOK
<1>1. CASE LoadAlerts
  <2>1. loaded' = committed'
    BY <1>0, <1>1 DEF LoadAlerts
  <2> QED BY <1>0, <2>1 DEF SomewhereInv
<1>2. ASSUME ~LoadAlerts, load' = "done"
      PROVE  load = "done" /\ UNCHANGED <<list, seen, loaded>>
  BY <1>2 DEF Quiet, KeepTick, Accept, Register, AnswerAlerts, AnswerBaseline, InitTable,
              OnOpen, OnClose, Connect, Refreshed, LoseConnection, Restart, vars, alertList
<1>3. ASSUME ~LoadAlerts, load' = "done", NEW a \in Alerts, Somewhere(a)
      PROVE  Somewhere(a)'
  <2>1. \A i \in Nat : InLive(i, a) => InLive(i, a)'
    BY <1>2, <1>3 DEF InLive, Live, Size
  <2>2. CASE OnClose \/ \E k \in 0 .. Len(wire) : LoseConnection(k) \/ Restart(k)
    <3>1. /\ lost \subseteq lost'
          /\ \A i \in Nat : InWire(i, a) => InWire(i, a)' \/ a \in lost'
          /\ \A t \in Tasks : InJob(t, a) => InJob(t, a)' \/ a \in lost'
      BY <2>2, BreaksLose
    <3> QED BY <1>3, <2>1, <3>1 DEF Somewhere
  <2>3. CASE \E p \in Prices : KeepTick(p)
    <3>1. UNCHANGED <<wire, lost>> /\ \A t \in Tasks : job[t] # <<>> => job'[t] = job[t]
      BY <1>0, <2>3 DEF KeepTick, TypeOK, link
    <3>2. /\ \A t \in Tasks : InJob(t, a) => InJob(t, a)'
          /\ \A i \in Nat : InWire(i, a) => InWire(i, a)'
      BY <3>1 DEF InJob, InWire
    <3> QED BY <1>3, <2>1, <3>1, <3>2 DEF Somewhere
  <2>4. CASE UNCHANGED <<wire, lost, job>>
    <3>1. /\ \A t \in Tasks : InJob(t, a) => InJob(t, a)'
          /\ \A i \in Nat : InWire(i, a) => InWire(i, a)'
      BY <2>4 DEF InJob, InWire
    <3> QED BY <1>3, <2>1, <2>4, <3>1 DEF Somewhere
  <2>5. \/ OnClose \/ (\E k \in 0 .. Len(wire) : LoseConnection(k) \/ Restart(k))
        \/ (\E p \in Prices : KeepTick(p)) \/ UNCHANGED <<wire, lost, job>>
    BY <1>3 DEF Quiet, Accept, Register, AnswerAlerts, AnswerBaseline, InitTable,
                OnOpen, Connect, Refreshed, vars, server, link
  <2> QED BY <2>2, <2>3, <2>4, <2>5
<1>4. CASE ~LoadAlerts
  <2>1. MaxAlerts \in Nat
    BY DashboardAssumption
  <2>2. \A a \in loaded + 1 .. committed : a \in Alerts
    BY <1>0, <2>1 DEF Alerts
  <2> QED BY <1>0, <1>2, <1>3, <1>4, <2>2 DEF SomewhereInv
<1> QED BY <1>1, <1>4

\* A test alert is in its request's job.
LEMMA TestAlertSomewhere ==
  ASSUME PageInv, KeepTestAlert
  PROVE  SomewhereInv'
<1>0. /\ TypeOK /\ SomewhereInv /\ committed \in 0 .. MaxAlerts /\ committed' = committed + 1
      /\ UNCHANGED <<wire, lost, load, list, seen, loaded>> /\ loaded \in Nat
      /\ committed' \in Alerts
  BY DashboardAssumption DEF PageInv, TypeOK, KeepTestAlert, link, alertList, Alerts
<1>1. /\ \A t \in Tasks : job[t] # <<>> => job'[t] = job[t]
      /\ job'[Admin] = <<AlertMsg(committed', TestPrice)>>
  BY <1>0 DEF KeepTestAlert, TypeOK, Tasks
<1>2. ASSUME NEW a \in Alerts, a = committed + 1
      PROVE  InJob(Admin, a)'
  <2>1. job'[Admin] # <<>> /\ job'[Admin][1] = AlertMsg(committed', TestPrice)
    BY <1>1
  <2>2. /\ AlertMsg(committed', TestPrice).type = "alert"
        /\ AlertMsg(committed', TestPrice).id = committed'
    BY <1>0, MessageIs
  <2> QED BY <1>0, <1>2, <2>1, <2>2 DEF InJob
<1>3. ASSUME NEW a \in Alerts, Somewhere(a)
      PROVE  Somewhere(a)'
  <2>1. /\ \A t \in Tasks : InJob(t, a) => InJob(t, a)'
        /\ \A i \in Nat : InWire(i, a) => InWire(i, a)'
        /\ \A i \in Nat : InLive(i, a) => InLive(i, a)'
    BY <1>0, <1>1 DEF InJob, InWire, InLive, Live, Size
  <2> QED BY <1>0, <1>3, <2>1 DEF Somewhere
<1>4. \A a \in Alerts : a = committed + 1 => Somewhere(a)'
  BY <1>2 DEF Somewhere, Tasks
<1>5. \A a \in loaded' + 1 .. committed' :
        a \in Alerts /\ (a = committed + 1 \/ a \in loaded + 1 .. committed)
  BY <1>0, DashboardAssumption DEF Alerts
<1> QED BY <1>0, <1>3, <1>4, <1>5 DEF SomewhereInv

\* A message that is broadcast is in flight, or lost to this page.
LEMMA BroadcastSomewhere ==
  ASSUME PageInv, NEW t \in Tasks, Broadcast(t)
  PROVE  SomewhereInv'
<1>0. /\ TypeOK /\ SomewhereInv /\ committed \in 0 .. MaxAlerts /\ loaded \in Nat
      /\ UNCHANGED <<load, list, seen, loaded>> /\ wire \in Seq(Messages)
      /\ job[t] # <<>> /\ Head(job[t]) = job[t][1] /\ job[t][1] \in Messages
  BY JobIs DEF PageInv, TypeOK, Broadcast, Send, alertList
<1>1. \/ job' = [job EXCEPT ![t] = <<>>] /\ UNCHANGED committed
      \/ /\ committed < MaxAlerts /\ committed' = committed + 1
         /\ job' = [job EXCEPT ![t] = <<AlertMsg(committed', Head(job[t]).price)>>]
  BY DEF Broadcast
<1>2. \/ wire' = Append(wire, job[t][1]) /\ UNCHANGED lost
      \/ Missed(job[t][1]) /\ UNCHANGED wire
  BY <1>0 DEF Broadcast, Send
<1>3. ASSUME NEW a \in Alerts, Somewhere(a)
      PROVE  Somewhere(a)'
  <2>1. \A i \in Nat : InLive(i, a) => InLive(i, a)'
    BY <1>0 DEF InLive, Live, Size
  <2>2. lost \subseteq lost' /\ \A i \in Nat : InWire(i, a) => InWire(i, a)'
    BY <1>0, <1>2 DEF Missed, InWire
  <2>3. \A u \in Tasks \ {t} : InJob(u, a) => InJob(u, a)'
    BY <1>0, <1>1 DEF InJob, TypeOK
  <2>4. ASSUME InJob(t, a)
        PROVE  a \in lost' \/ \E i \in Nat : InWire(i, a)'
    <3>1. job[t][1].type = "alert" /\ job[t][1].id = a
      BY <2>4 DEF InJob
    <3>2. CASE wire' = Append(wire, job[t][1])
      <4>1. /\ Len(wire') = Len(wire) + 1 /\ wire'[Len(wire) + 1] = job[t][1]
            /\ Len(wire) + 1 \in Nat /\ Len(wire) + 1 \in 1 .. Len(wire')
        BY <1>0, <3>2
      <4>2. ASSUME NEW i \in Nat, i = Len(wire) + 1
            PROVE  InWire(i, a)'
        BY <3>1, <4>1, <4>2 DEF InWire
      <4> QED BY <4>1, <4>2
    <3>3. CASE Missed(job[t][1])
      BY <3>1, <3>3 DEF Missed
    <3> QED BY <1>2, <3>2, <3>3
  <2> QED BY <1>3, <2>1, <2>2, <2>3, <2>4 DEF Somewhere
<1>4. ASSUME NEW a \in Alerts, committed' = committed + 1, a = committed'
      PROVE  Somewhere(a)'
  <2>1. /\ job'[t] = <<AlertMsg(committed', job[t][1].price)>>
        /\ committed' \in Alerts
    BY <1>0, <1>1, <1>4, DashboardAssumption DEF TypeOK, Alerts
  <2>2. job'[t] # <<>> /\ job'[t][1] = AlertMsg(committed', job[t][1].price)
    BY <2>1
  <2>3. job[t][1].price \in Prices \cup {TestPrice}
    BY <1>0, MessageIs
  <2>4. /\ AlertMsg(committed', job[t][1].price).type = "alert"
        /\ AlertMsg(committed', job[t][1].price).id = committed'
    BY <2>1, <2>3, MessageIs
  <2>5. InJob(t, a)'
    BY <1>4, <2>2, <2>4 DEF InJob
  <2> QED BY <2>5 DEF Somewhere
<1>5. \A a \in loaded' + 1 .. committed' :
        /\ a \in Alerts
        /\ \/ committed' = committed + 1 /\ a = committed'
           \/ a \in loaded + 1 .. committed
  BY <1>0, <1>1, DashboardAssumption DEF Alerts
<1> QED BY <1>0, <1>3, <1>4, <1>5 DEF SomewhereInv

\* An alert whose number cannot be read back is lost to every page.
LEMMA UnsentSomewhere ==
  ASSUME PageInv, NEW t \in Tasks, StoreFails(t)
  PROVE  SomewhereInv'
<1>0. /\ SomewhereInv /\ committed \in 0 .. MaxAlerts /\ committed' = committed + 1
      /\ lost' = lost \cup {committed'} /\ loaded \in Nat
      /\ UNCHANGED <<job, wire, load, list, seen, loaded>>
  BY DEF PageInv, TypeOK, StoreFails, link, alertList
<1>1. \A a \in Alerts : Somewhere(a) => Somewhere(a)'
  BY <1>0 DEF Somewhere, InJob, InWire, InLive, Live, Size
<1>2. \A a \in loaded + 1 .. committed' : a = committed' \/ a \in loaded + 1 .. committed
  BY <1>0
<1>3. \A a \in loaded + 1 .. committed : a \in Alerts
  BY <1>0, DashboardAssumption DEF Alerts
<1>4. \A a \in Alerts : a = committed + 1 => Somewhere(a)'
  BY <1>0 DEF Somewhere
<1>5. committed + 1 \in Alerts
  BY <1>0, DashboardAssumption DEF PageInv, TypeOK, StoreFails, Alerts
<1> QED BY <1>0, <1>1, <1>2, <1>3, <1>4, <1>5 DEF SomewhereInv

\* One that is sent again stays where it is.
LEMMA AgainSomewhere ==
  ASSUME PageInv, NEW t \in Tasks, SendAgain(t)
  PROVE  SomewhereInv'
<1>0. /\ SomewhereInv /\ committed \in 0 .. MaxAlerts /\ loaded \in Nat
      /\ UNCHANGED <<committed, job, load, list, seen, loaded, lost>>
      /\ \A i \in Nat, a \in Alerts : InWire(i, a) => InWire(i, a)'
  BY AgainMoves DEF PageInv, TypeOK, server
<1>1. \A a \in Alerts : Somewhere(a) => Somewhere(a)'
  BY <1>0 DEF Somewhere, InJob, InLive, Live, Size
<1>2. \A a \in loaded + 1 .. committed : a \in Alerts
  BY <1>0, DashboardAssumption DEF Alerts
<1> QED BY <1>0, <1>1, <1>2 DEF SomewhereInv

\* A message that is handled leaves the wire for the list, where it stays.
LEMMA HandledSomewhere ==
  ASSUME PageInv, OnMessage
  PROVE  SomewhereInv'
<1>0. /\ SomewhereInv /\ UNCHANGED <<committed, job, load, seen, loaded, lost>>
      /\ committed \in 0 .. MaxAlerts /\ loaded \in Nat
  BY HandledMoves DEF PageInv, TypeOK
<1>1. ASSUME load = "done", NEW a \in Alerts, Somewhere(a)
      PROVE  Somewhere(a)'
  <2>1. CASE a \in lost \/ \E t \in Tasks : InJob(t, a)
    BY <1>0, <2>1 DEF Somewhere, InJob
  <2>2. ASSUME NEW i \in Nat, InLive(i, a)
        PROVE  \E j \in Nat : InLive(j, a)'
    <3>1. i + 1 \in Nat /\ i + 1 >= 2 /\ (i + 1) - 1 = i
      BY <2>2 DEF InLive
    <3>2. InLive(i, a)' \/ InLive(i + 1, a)'
      BY <1>1, <2>2, <3>1, HandledMoves
    <3> QED BY <3>1, <3>2
  <2>3. ASSUME NEW i \in Nat, InWire(i, a)
        PROVE  \E j \in Nat : InWire(j, a)' \/ InLive(j, a)'
    <3>1. i >= 1
      BY <2>3 DEF InWire
    <3>2. CASE i = 1
      BY <1>1, <2>3, <3>2, HandledMoves
    <3>3. CASE i # 1
      <4>1. i - 1 \in Nat /\ i - 1 >= 1 /\ (i - 1) + 1 = i
        BY <3>1, <3>3
      <4>2. InWire(i - 1, a)'
        BY <2>3, <4>1, HandledMoves
      <4> QED BY <4>1, <4>2
    <3> QED BY <3>2, <3>3
  <2> QED BY <1>1, <2>1, <2>2, <2>3 DEF Somewhere
<1>2. \A a \in loaded + 1 .. committed : a \in Alerts
  BY <1>0, DashboardAssumption DEF Alerts
<1> QED BY <1>0, <1>1, <1>2 DEF SomewhereInv

\* Every step keeps every alert in one place.
LEMMA PlacesStep ==
  ASSUME PageInv, [Next]_vars
  PROVE  ListInv' /\ OnceInv' /\ SomewhereInv'
BY QuietOrNot, QuietList, QuietOnce, QuietSomewhere, TestAlertOnce, TestAlertSomewhere,
   BroadcastOnce, BroadcastSomewhere, HandledMoves, HandledOnce, HandledSomewhere,
   UnsentOnce, UnsentSomewhere, AgainOnce, AgainSomewhere

----------------------------------------------------------------------------
(* Prices.                                                                 *)

\* Without a baseline nothing is sent, and no answer has a price.
LEMMA UnpricedStep ==
  ASSUME PageInv, [Next]_vars
  PROVE  UnpricedInv'
<1> SUFFICES ASSUME last' = NoPrice
             PROVE  /\ shown' = NoPrice /\ wire' = <<>> /\ \A t \in Tasks : job'[t] = <<>>
                    /\ \A r \in replies' : r.price = NoPrice
  BY DEF UnpricedInv
<1>0. ~(\E p \in Prices : KeepTick(p))
  BY DashboardAssumption DEF KeepTick
<1>1. last = NoPrice
  BY <1>0 DEF Next, PageNext, ServerNext, KeepTestAlert, StoreFails, Broadcast, Send, SendAgain,
              Accept, Register, AnswerAlerts, AnswerBaseline, InitTable, LoadAlerts, OnMessage, OnOpen, OnClose,
              Connect, Refreshed, LoseConnection, Restart, vars, server
<1>2. /\ shown = NoPrice /\ wire = <<>> /\ \A t \in Tasks : job[t] = <<>>
      /\ \A r \in replies : r.price = NoPrice
  BY <1>1 DEF PageInv, UnpricedInv
<1>3. /\ ~KeepTestAlert /\ ~OnMessage
      /\ \A t \in Tasks : ~StoreFails(t) /\ ~Broadcast(t) /\ ~SendAgain(t)
  BY <1>1, <1>2 DEF KeepTestAlert, OnMessage, StoreFails, Broadcast, Send, SendAgain
<1>4. Quiet
  BY <1>3, QuietOrNot
<1>5. wire' = <<>>
  <2>1. Len(wire') = 0
    BY <1>2, <1>4, QuietWire
  <2> QED BY <2>1, TypesStep DEF TypeOK
<1>6. \A t \in Tasks : job'[t] = <<>>
  <2>1. UNCHANGED job \/ \E k \in 0 .. Len(wire) : Restart(k)
    BY <1>0, <1>4
       DEF Quiet, Accept, Register, AnswerAlerts, AnswerBaseline, InitTable, LoadAlerts,
           OnOpen, OnClose, Connect, Refreshed, LoseConnection, vars, server
  <2> QED BY <1>2, <2>1 DEF Restart
<1>7. shown' = NoPrice /\ \A r \in replies' : r.price = NoPrice
  <2>1. CASE UNCHANGED <<shown, replies>>
    BY <1>2, <2>1
  <2>2. ASSUME NEW n \in pending, AnswerBaseline(n)
        PROVE  shown' = NoPrice /\ \A r \in replies' : r.price = NoPrice
    <3>1. replies' = replies \cup {[ask |-> n, price |-> last]} /\ UNCHANGED shown
      BY <2>2 DEF AnswerBaseline
    <3> QED BY <1>1, <1>2, <3>1
  <2>3. ASSUME NEW r \in replies, Refreshed(r)
        PROVE  shown' = NoPrice /\ \A q \in replies' : q.price = NoPrice
    BY <1>2, <2>3 DEF Refreshed, Filling
  <2>4. \/ UNCHANGED <<shown, replies>> \/ (\E n \in pending : AnswerBaseline(n))
        \/ \E r \in replies : Refreshed(r)
    BY <1>0, <1>4
       DEF Quiet, Accept, Register, AnswerAlerts, InitTable, LoadAlerts, OnOpen, OnClose,
           Connect, LoseConnection, Restart, vars, table
  <2> QED BY <2>1, <2>2, <2>3, <2>4
<1> QED BY <1>5, <1>6, <1>7

\* A request that was made, and not yet answered: its number is the newest.
LEMMA AskedAnew ==
  ASSUME PageInv, Refresh, UNCHANGED <<replies, applied>>
  PROVE  applied' # asked' /\ \A r \in replies' : r.ask # asked'
<1>1. /\ asked \in Nat /\ applied \in 0 .. asked /\ Asks \subseteq Nat
      /\ replies \subseteq [ask : Asks \ pending, price : Prices \cup {NoPrice}]
      /\ \A r \in replies : r.ask <= asked
  <2>1. Asks \subseteq Nat
    BY DEF Asks
  <2>2. asked \in Nat /\ applied \in 0 .. asked
    <3>1. asked \in {0} \cup Asks
      BY DEF PageInv, TypeOK
    <3>2. applied \in 0 .. asked
      BY DEF PageInv, TypeOK
    <3>3. asked \in Nat
      BY <2>1, <3>1
    <3> QED BY <3>2, <3>3
  <2>3. replies \subseteq [ask : Asks \ pending, price : Prices \cup {NoPrice}]
    BY DEF PageInv, TypeOK
  <2>4. \A r \in replies : r.ask <= asked
    BY DEF PageInv, AskInv
  <2> QED BY <2>1, <2>2, <2>3, <2>4
<1>2. asked' = asked + 1
  BY DEF Refresh
<1>3. \A r \in replies : r.ask \in Nat
  BY <1>1
<1> QED BY <1>1, <1>2, <1>3

\* A price in flight or in a job stays there or is lost when a connection is
\* lost or closed, or the server restarts.
LEMMA BreaksMissPrices ==
  ASSUME PageInv, ~behind', ~Coming',
         OnClose \/ \E k \in 0 .. Len(wire) : LoseConnection(k) \/ Restart(k)
  PROVE  ~behind /\ ~Coming
<1>0. TypeOK /\ wire \in Seq(Messages) /\ Len(wire) \in Nat /\ Poll \in Tasks
  BY DEF PageInv, TypeOK, Tasks
<1>1. CASE OnClose
  <2>1. Dropped(ToSet(wire)) /\ UNCHANGED job
    BY <1>1 DEF OnClose, server
  <2>2. \A i \in 1 .. Len(wire) : wire[i] \in ToSet(wire)
    BY <1>0 DEF ToSet
  <2> QED BY <2>1, <2>2 DEF Coming, Dropped
<1>2. ASSUME NEW k \in 0 .. Len(wire), LoseConnection(k) \/ Restart(k), NEW i \in 1 .. k
      PROVE  i \in 1 .. Len(wire') /\ wire'[i] = wire[i]
  <2>1. wire' = SubSeq(wire, 1, k)
    BY <1>2 DEF LoseConnection, Restart, Sever
  <2> QED BY <1>0, <2>1, CutWire
<1>3. ASSUME NEW k \in 0 .. Len(wire), LoseConnection(k) \/ Restart(k), NEW ms,
             Dropped(ms), {wire[j] : j \in k + 1 .. Len(wire)} \subseteq ms
      PROVE  ~behind /\ \A i \in 1 .. Len(wire) : wire[i].type # "price_update"
  <2>1. ~behind /\ \A m \in ms : m.type # "price_update"
    BY <1>3 DEF Dropped
  <2>2. \A i \in 1 .. k : wire[i].type # "price_update"
    BY <1>2, <1>3 DEF Coming
  <2>3. \A i \in k + 1 .. Len(wire) : wire[i] \in ms
    BY <1>3
  <2>4. \A i \in 1 .. Len(wire) : i \in 1 .. k \/ i \in k + 1 .. Len(wire)
    BY <1>0
  <2> QED BY <2>1, <2>2, <2>3, <2>4
<1>4. ASSUME NEW k \in 0 .. Len(wire), LoseConnection(k)
      PROVE  ~behind /\ ~Coming
  <2>1. Dropped({wire[j] : j \in k + 1 .. Len(wire)}) /\ UNCHANGED job
    BY <1>4 DEF LoseConnection, server
  <2> QED BY <1>3, <1>4, <2>1 DEF Coming
<1>5. ASSUME NEW k \in 0 .. Len(wire), Restart(k)
      PROVE  ~behind /\ ~Coming
  <2> DEFINE cut == {wire[j] : j \in k + 1 .. Len(wire)}
             jobs == UNION {ToSet(job[t]) : t \in Tasks}
  <2>1. Dropped(cut \cup jobs)
    BY <1>5 DEF Restart
  <2>2. job[Poll] # <<>> => job[Poll][1] \in jobs
    BY <1>0, JobIs
  <2> HIDE DEF jobs
  <2>3. ~behind /\ \A i \in 1 .. Len(wire) : wire[i].type # "price_update"
    BY <1>3, <1>5, <2>1
  <2>4. job[Poll] # <<>> => job[Poll][1].type # "price_update"
    BY <2>1, <2>2 DEF Dropped
  <2> QED BY <2>3, <2>4 DEF Coming
<1> QED BY <1>1, <1>4, <1>5

\* So it is when it is broadcast, and a test alert leaves it alone.
LEMMA SendsMissPrices ==
  ASSUME PageInv, ~behind', ~Coming', KeepTestAlert \/ \E t \in Tasks : Broadcast(t)
  PROVE  ~behind /\ ~Coming
<1>0. TypeOK /\ wire \in Seq(Messages) /\ Len(wire) \in Nat /\ Poll # Admin
  BY DashboardAssumption DEF PageInv, TypeOK
<1>1. CASE KeepTestAlert
  <2>1. UNCHANGED <<wire, behind>> /\ job'[Poll] = job[Poll]
    BY <1>0, <1>1 DEF KeepTestAlert, link, TypeOK
  <2> QED BY <2>1 DEF Coming
<1>2. ASSUME NEW t \in Tasks, Broadcast(t)
      PROVE  ~behind /\ ~Coming
  <2>1. job[t] # <<>> /\ Head(job[t]) = job[t][1]
    BY <1>0, <1>2, JobIs DEF Broadcast, Send
  <2>2. \/ wire' = Append(wire, job[t][1]) /\ UNCHANGED behind
        \/ Missed(job[t][1]) /\ UNCHANGED wire
    BY <1>2, <2>1 DEF Broadcast, Send
  <2>3. ~behind /\ \A i \in 1 .. Len(wire) : wire[i].type # "price_update"
    <3>1. \A i \in 1 .. Len(wire) : i \in 1 .. Len(wire') /\ wire'[i] = wire[i]
      BY <1>0, <2>2
    <3>2. \A i \in 1 .. Len(wire') : wire'[i].type # "price_update"
      BY DEF Coming
    <3>3. ~behind
      BY <2>2 DEF Missed
    <3> QED BY <3>1, <3>2, <3>3, Zenon
  <2>4. job[t][1].type # "price_update"
    <3>1. CASE wire' = Append(wire, job[t][1])
      <4>1. Len(wire) + 1 \in 1 .. Len(wire') /\ wire'[Len(wire) + 1] = job[t][1]
        BY <1>0, <3>1
      <4> QED BY <4>1 DEF Coming
    <3>2. CASE Missed(job[t][1])
      BY <3>2 DEF Missed
    <3> QED BY <2>2, <3>1, <3>2
  <2>5. CASE t = Poll
    BY <2>3, <2>4, <2>5 DEF Coming
  <2>6. CASE t # Poll
    <3>1. \E v : job' = [job EXCEPT ![t] = v]
      BY <1>2 DEF Broadcast
    <3>2. job'[Poll] = job[Poll]
      BY <1>0, <2>6, <3>1 DEF TypeOK, Tasks
    <3> QED BY <2>3, <3>2 DEF Coming
  <2> QED BY <2>5, <2>6
<1> QED BY <1>1, <1>2

\* The answer to the newest request is the price stored last, or another price
\* is on its way or lost.
LEMMA PriceStep ==
  ASSUME PageInv, [Next]_vars
  PROVE  PriceInv'
<1> SUFFICES ASSUME row', ~behind', ~Coming'
             PROVE  /\ \A r \in replies' : r.ask = asked' => r.price = last'
                    /\ applied' = asked' => shown' = last'
  BY DEF PriceInv
<1>0. TypeOK /\ PriceInv /\ UnpricedInv
  BY DEF PageInv
<1>1. ASSUME NEW p \in Prices, KeepTick(p)
      PROVE  FALSE
  <2>1. job'[Poll] = <<PriceMsg(p)>>
    BY <1>0, <1>1 DEF KeepTick, TypeOK, Tasks
  <2>2. job'[Poll] # <<>> /\ job'[Poll][1] = PriceMsg(p)
    BY <2>1
  <2> QED BY <2>2, MessageIs DEF Coming
<1>2. CASE InitTable \/ OnMessage
  <2>1. CASE Refresh /\ UNCHANGED <<replies, applied>>
    BY <2>1, AskedAnew
  <2>2. CASE ~row /\ UNCHANGED table
    BY <2>2 DEF table
  <2> QED BY <1>2, <2>1, <2>2 DEF InitTable, OnMessage, ApplyPriceUpdate
<1>3. CASE /\ UNCHANGED <<row, shown, asked, replies, applied, last>>
           /\ ~behind /\ ~Coming
  BY <1>0, <1>3 DEF PriceInv
<1>4. ASSUME NEW n \in pending, AnswerBaseline(n)
      PROVE  /\ \A r \in replies' : r.ask = asked' => r.price = last'
             /\ applied' = asked' => shown' = last'
  <2>1. /\ replies' = replies \cup {[ask |-> n, price |-> last]}
        /\ UNCHANGED <<row, shown, asked, applied, last, behind, wire, job>>
    BY <1>4 DEF AnswerBaseline, server, link
  <2>2. ~Coming
    BY <2>1 DEF Coming
  <2> QED BY <1>0, <2>1, <2>2 DEF PriceInv
<1>5. ASSUME NEW r \in replies, Refreshed(r)
      PROVE  /\ \A q \in replies' : q.ask = asked' => q.price = last'
             /\ applied' = asked' => shown' = last'
  <2>1. /\ replies' \subseteq replies /\ applied' = r.ask /\ shown' = Filling(r)
        /\ UNCHANGED <<row, asked, last, behind, wire, job>>
    BY <1>5 DEF Refreshed, server, link
  <2>2. ~Coming
    BY <2>1 DEF Coming
  <2>3. \A q \in replies : q.ask = asked => q.price = last
    BY <1>0, <2>1, <2>2 DEF PriceInv
  <2>4. r.ask = asked => Filling(r) = last
    BY <1>0, <2>3 DEF UnpricedInv, Filling
  <2> QED BY <2>1, <2>3, <2>4
<1>6. CASE Accept \/ Register \/ AnswerAlerts \/ LoadAlerts \/ OnOpen \/ Connect \/ UNCHANGED vars
  <2>1. UNCHANGED <<row, shown, asked, replies, applied, last, behind, wire, job>>
    BY <1>6 DEF Accept, Register, AnswerAlerts, LoadAlerts, OnOpen, Connect, vars, server, link,
                table
  <2>2. ~Coming
    BY <2>1 DEF Coming
  <2> QED BY <1>3, <2>1, <2>2
<1>7. CASE KeepTestAlert \/ \E t \in Tasks : Broadcast(t)
  <2>1. UNCHANGED <<row, shown, asked, replies, applied, last>>
    BY <1>7 DEF KeepTestAlert, Broadcast, Send, table
  <2> QED BY <1>3, <1>7, <2>1, SendsMissPrices
<1>8. CASE OnClose \/ \E k \in 0 .. Len(wire) : LoseConnection(k) \/ Restart(k)
  <2>1. UNCHANGED <<row, shown, asked, replies, applied, last>>
    BY <1>8 DEF OnClose, LoseConnection, Restart, server, table
  <2> QED BY <1>3, <1>8, <2>1, BreaksMissPrices
<1>9. ASSUME NEW t \in Tasks, StoreFails(t)
      PROVE  /\ \A r \in replies' : r.ask = asked' => r.price = last'
             /\ applied' = asked' => shown' = last'
  <2>1. UNCHANGED <<row, shown, asked, replies, applied, last, behind, wire, job>>
    BY <1>9 DEF StoreFails, link, table
  <2>2. ~Coming
    BY <2>1 DEF Coming
  <2> QED BY <1>3, <2>1, <2>2
<1>10. ASSUME NEW t \in Tasks, SendAgain(t)
       PROVE  /\ \A r \in replies' : r.ask = asked' => r.price = last'
              /\ applied' = asked' => shown' = last'
  <2>1. /\ UNCHANGED <<row, shown, asked, replies, applied, last, behind, job>>
        /\ wire' = Append(wire, job[t][1])
    BY <1>10, AgainMoves DEF server, table
  <2>2. \A i \in 1 .. Len(wire) : i \in 1 .. Len(wire') /\ wire'[i] = wire[i]
    BY <1>0, <2>1 DEF TypeOK
  <2>3. ~Coming
    BY <2>1, <2>2 DEF Coming
  <2> QED BY <1>3, <2>1, <2>3
<1> QED BY <1>1, <1>2, <1>4, <1>5, <1>6, <1>7, <1>8, <1>9, <1>10 DEF Next, PageNext, ServerNext

\* A sum that is bounded stays so when it shrinks and its bound grows.
LEMMA LessIsLess ==
  ASSUME NEW a \in Nat, NEW u \in Nat, NEW v \in Nat, NEW x \in Nat, NEW y \in Nat,
         NEW c \in Int, NEW r \in Nat, v <= u, y >= x, a + u <= x + c + r
  PROVE  a + v <= y + c + r
OBVIOUS

\* Every request comes with the row or with a message: the sum of requests and
\* messages grows with what is stored.
LEMMA AskStep ==
  ASSUME PageInv, [Next]_vars
  PROVE  AskInv'
<1>0. /\ TypeOK /\ TypeOK' /\ asked \in Nat /\ committed \in Nat /\ Stored \in Nat
      /\ ticks \in Nat /\ breaks \in Nat /\ Extra \in Nat
      /\ wire \in Seq(Messages) /\ Len(wire) \in Nat /\ Poll \in Tasks /\ Admin \in Tasks
      /\ Poll # Admin /\ row \in BOOLEAN
  <2>1. TypeOK /\ TypeOK'
    BY TypesStep DEF PageInv
  <2>2. /\ asked \in Nat /\ committed \in Nat /\ Stored \in Nat
        /\ ticks \in Nat /\ breaks \in Nat /\ Extra \in Nat
    <3>1. asked \in Nat
      <4>1. asked \in {0} \cup Asks
        BY <2>1 DEF TypeOK
      <4>2. Asks \subseteq Nat
        BY DEF Asks
      <4> QED BY <4>1, <4>2
    <3>2. ticks \in Nat /\ breaks \in Nat /\ Extra \in Nat /\ committed \in Nat
      BY <2>1 DEF TypeOK, Extra
    <3>3. Stored \in Nat
      BY DashboardAssumption
    <3> QED BY <3>1, <3>2, <3>3
  <2>3. wire \in Seq(Messages) /\ row \in BOOLEAN
    BY <2>1 DEF TypeOK
  <2>4. Len(wire) \in Nat
    BY <2>3
  <2> QED BY <2>1, <2>2, <2>3, <2>4, DashboardAssumption DEF Tasks
<1>1. /\ \A n \in pending : n <= asked
      /\ \A r \in replies : r.ask <= asked
      /\ asked + Len(wire) + Waits(Poll) + Waits(Admin) <= Extra + (committed - Stored) + Rows
  BY DEF PageInv, AskInv
<1>2. /\ \A t \in Tasks : Waits(t) \in {0, 1} /\ (job[t] = <<>> <=> Waits(t) = 0)
      /\ \A t \in Tasks : Waits(t)' \in {0, 1} /\ (job'[t] = <<>> <=> Waits(t)' = 0)
      /\ \A t \in Tasks : job'[t] = job[t] => Waits(t)' = Waits(t)
      /\ Rows \in {0, 1} /\ (row <=> Rows = 1)
      /\ Rows' \in {0, 1} /\ (row' <=> Rows' = 1)
  BY DEF Waits, Rows
<1>3. Len(wire') \in Nat /\ asked' \in Nat
  <2>1. wire' \in Seq(Messages) /\ asked' \in {0} \cup Asks
    BY <1>0 DEF TypeOK
  <2>2. Asks \subseteq Nat
    BY DEF Asks
  <2> QED BY <2>1, <2>2
<1>4. /\ \A n \in pending' : n <= asked'
      /\ \A r \in replies' : r.ask <= asked'
  <2>1. CASE pending' \subseteq pending /\ replies' \subseteq replies /\ UNCHANGED asked
    BY <1>1, <2>1
  <2>2. CASE Refresh /\ UNCHANGED replies
    <3>1. asked' = asked + 1 /\ pending' = pending \cup {asked + 1}
      BY <2>2 DEF Refresh
    <3>2. pending \subseteq Nat /\ \A r \in replies : r.ask \in Nat
      <4>1. Asks \subseteq Nat /\ pending \subseteq Asks
        <5>1. Asks \subseteq Nat
          BY DEF Asks
        <5> QED BY <1>0, <5>1 DEF TypeOK
      <4>2. replies \subseteq [ask : Asks \ pending, price : Prices \cup {NoPrice}]
        BY <1>0 DEF TypeOK
      <4> QED BY <4>1, <4>2
    <3> QED BY <1>0, <1>1, <2>2, <3>1, <3>2
  <2>3. ASSUME NEW n \in pending, AnswerBaseline(n)
        PROVE  /\ \A m \in pending' : m <= asked'
               /\ \A r \in replies' : r.ask <= asked'
    <3>1. /\ pending' = pending \ {n} /\ replies' = replies \cup {[ask |-> n, price |-> last]}
          /\ UNCHANGED asked
      BY <2>3 DEF AnswerBaseline
    <3> QED BY <1>1, <3>1
  <2>4. \/ pending' \subseteq pending /\ replies' \subseteq replies /\ UNCHANGED asked
        \/ Refresh /\ UNCHANGED replies
        \/ \E n \in pending : AnswerBaseline(n)
    BY DEF Next, PageNext, ServerNext, KeepTick, KeepTestAlert, StoreFails, Broadcast, Send,
           SendAgain, Accept, Register, AnswerAlerts, InitTable, LoadAlerts, OnMessage, ApplyPriceUpdate, OnOpen, OnClose,
           Connect, Refreshed, LoseConnection, Restart, vars, table
  <2> QED BY <2>1, <2>2, <2>3, <2>4
<1>5. asked' + Len(wire') + Waits(Poll)' + Waits(Admin)' <= Extra' + (committed' - Stored) + Rows'
  <2>1. CASE \E p \in Prices : KeepTick(p)
    <3>1. /\ Extra' = Extra + 1 /\ UNCHANGED <<asked, wire, committed, row>>
          /\ job[Poll] = <<>> /\ job'[Admin] = job[Admin]
      BY <1>0, <2>1 DEF KeepTick, TypeOK, link, table, Extra
    <3> QED BY <1>0, <1>1, <1>2, <3>1
  <2>2. CASE KeepTestAlert
    <3>1. /\ committed' = committed + 1 /\ UNCHANGED <<asked, wire, Extra, row>>
          /\ job[Admin] = <<>> /\ job'[Poll] = job[Poll]
      BY <1>0, <2>2 DEF KeepTestAlert, TypeOK, link, table, Extra
    <3> QED BY <1>0, <1>1, <1>2, <3>1
  <2>3. ASSUME NEW t \in Tasks, Broadcast(t)
        PROVE  asked' + Len(wire') + Waits(Poll)' + Waits(Admin)'
                 <= Extra' + (committed' - Stored) + Rows'
    <3>1. Len(wire') <= Len(wire) + 1 /\ UNCHANGED <<asked, Extra, row>> /\ job[t] # <<>>
      BY <1>0, <2>3 DEF Broadcast, Send, table, Extra
    <3>2. \/ job' = [job EXCEPT ![t] = <<>>] /\ UNCHANGED committed
          \/ /\ committed' = committed + 1
             /\ \E m : job' = [job EXCEPT ![t] = m]
      BY <2>3 DEF Broadcast
    <3>3. \A u \in Tasks : u # t => job'[u] = job[u]
      BY <1>0, <3>2 DEF TypeOK
    <3>4. \/ committed' = committed + 1 \/ (job'[t] = <<>> /\ UNCHANGED committed)
      BY <1>0, <3>2 DEF TypeOK
    <3>5. \/ t = Poll /\ Waits(Admin)' = Waits(Admin)
          \/ t = Admin /\ Waits(Poll)' = Waits(Poll)
      BY <1>0, <1>2, <3>3 DEF Tasks
    <3>6. /\ Waits(t) >= 1 /\ Waits(t)' + committed <= committed'
          /\ Waits(t) \in Nat /\ Waits(t)' \in Nat /\ committed' \in Nat
      BY <1>0, <1>2, <3>1, <3>4
    <3>7. Waits(Poll) \in {0, 1} /\ Waits(Admin) \in {0, 1} /\ Rows' = Rows /\ Rows \in {0, 1}
      BY <1>0, <1>2, <3>1
    <3>8. PICK p \in Nat, q \in Nat, v \in Nat, d \in Nat :
            p = Waits(t) /\ q = Waits(t)' /\ v = Len(wire') /\ d = committed'
      BY <1>3, <3>6
    <3>9. p >= 1 /\ q + committed <= d /\ v <= Len(wire) + 1
      BY <3>1, <3>6, <3>8, Zenon
    <3>10. ASSUME NEW x \in Nat,
                  asked + Len(wire) + p + x <= Extra + (committed - Stored) + Rows
           PROVE  asked + v + q + x <= Extra + (d - Stored) + Rows
      BY <1>0, <3>7, <3>9, <3>10
    <3>11. CASE t = Poll /\ Waits(Admin)' = Waits(Admin)
      <4>1. asked + Len(wire) + p + Waits(Admin) <= Extra + (committed - Stored) + Rows
        BY <1>1, <3>8, <3>11, Zenon
      <4>2. asked + v + q + Waits(Admin) <= Extra + (d - Stored) + Rows
        BY <3>7, <3>10, <4>1
      <4> QED BY <3>1, <3>7, <3>8, <3>11, <4>2, Zenon
    <3>12. CASE t = Admin /\ Waits(Poll)' = Waits(Poll)
      <4>1. asked + Len(wire) + p + Waits(Poll) <= Extra + (committed - Stored) + Rows
        BY <1>0, <1>1, <3>7, <3>8, <3>12
      <4>2. asked + v + q + Waits(Poll) <= Extra + (d - Stored) + Rows
        BY <3>7, <3>10, <4>1
      <4>3. asked + v + Waits(Poll) + q <= Extra + (d - Stored) + Rows
        BY <1>0, <3>7, <4>2
      <4> QED BY <3>1, <3>7, <3>8, <3>12, <4>3, Zenon
    <3> QED BY <3>5, <3>11, <3>12
  <2>4. CASE OnMessage
    <3>1. /\ Len(wire') = Len(wire) - 1 /\ UNCHANGED <<Extra, committed, row, job>>
          /\ asked' \in {asked, asked + 1}
      <4>1. wire # <<>> /\ wire' = Tail(wire) /\ UNCHANGED <<Extra, committed, job>>
        BY <2>4 DEF OnMessage, server, Extra
      <4>2. UNCHANGED row /\ (asked' = asked + 1 \/ asked' = asked)
        BY <2>4 DEF OnMessage, ApplyPriceUpdate, Refresh, table
      <4>3. Len(Tail(wire)) = Len(wire) - 1
        BY <1>0, <4>1
      <4> QED BY <4>1, <4>2, <4>3
    <3>2. Waits(Poll)' = Waits(Poll) /\ Waits(Admin)' = Waits(Admin) /\ Rows' = Rows
      BY <3>1 DEF Waits, Rows
    <3>3. Waits(Poll) \in Nat /\ Waits(Admin) \in Nat /\ Rows \in Nat
      BY <1>0, <1>2
    <3>4. asked' + Len(wire') <= asked + Len(wire)
      BY <1>0, <3>1
    <3> QED BY <1>0, <1>1, <1>3, <3>1, <3>2, <3>3, <3>4
  <2>5. CASE InitTable
    <3>1. /\ ~row /\ row' /\ asked' = asked + 1 /\ UNCHANGED <<wire, Extra, committed, job>>
      BY <2>5 DEF InitTable, Refresh, server, link, Extra
    <3> QED BY <1>0, <1>1, <1>2, <3>1
  <2>6. CASE /\ Quiet /\ ~InitTable /\ ~\E p \in Prices : KeepTick(p)
    <3>0. Len(wire') <= Len(wire)
      BY <1>0, <2>6, QuietWire
    <3>1. UNCHANGED <<asked, ticks, committed, row>> /\ breaks' \in {breaks, breaks + 1}
      BY <2>6
         DEF Quiet, Accept, Register, AnswerAlerts, AnswerBaseline, LoadAlerts, OnOpen, OnClose,
             Connect, Refreshed, LoseConnection, Restart, Sever, vars, server, link, table
    <3>2. UNCHANGED job \/ \E k \in 0 .. Len(wire) : Restart(k)
      BY <2>6 DEF Quiet, Accept, Register, AnswerAlerts, AnswerBaseline, LoadAlerts, OnOpen,
                  OnClose, Connect, Refreshed, LoseConnection, vars, server
    <3>3. \A t \in Tasks : job'[t] = job[t] \/ job'[t] = <<>>
      BY <3>2 DEF Restart
    <3>4. \A t \in Tasks : Waits(t)' <= Waits(t)
      BY <1>2, <3>3
    <3>5. Extra' \in Nat /\ Extra' >= Extra
      <4>1. ticks' = ticks /\ (breaks' = breaks \/ breaks' = breaks + 1)
        BY <3>1
      <4> QED BY <1>0, <4>1 DEF Extra
    <3>6. UNCHANGED <<asked, committed>> /\ Rows' = Rows /\ Rows \in Nat
      BY <1>2, <3>1
    <3>7. /\ Waits(Poll) \in Nat /\ Waits(Poll)' \in Nat /\ Waits(Poll)' <= Waits(Poll)
          /\ Waits(Admin) \in Nat /\ Waits(Admin)' \in Nat /\ Waits(Admin)' <= Waits(Admin)
      BY <1>0, <1>2, <3>4
    <3>8. Len(wire') + Waits(Poll)' + Waits(Admin)' <= Len(wire) + Waits(Poll) + Waits(Admin)
      BY <1>0, <1>3, <3>0, <3>7
    <3>9. asked + (Len(wire) + Waits(Poll) + Waits(Admin)) <= Extra + (committed - Stored) + Rows
      BY <1>0, <1>1, <3>6, <3>7
    <3> DEFINE u == Len(wire) + Waits(Poll) + Waits(Admin)
               v == Len(wire') + Waits(Poll)' + Waits(Admin)'
    <3>10. u \in Nat /\ v \in Nat /\ v <= u
      BY <1>0, <1>3, <3>7, <3>8
    <3>11. asked + u <= Extra + (committed - Stored) + Rows
      BY <3>9
    <3>12. asked' + v = asked' + Len(wire') + Waits(Poll)' + Waits(Admin)'
      BY <1>3, <3>7
    <3> HIDE DEF u, v
    <3>13. asked + v <= Extra' + (committed - Stored) + Rows
      <4>1. committed - Stored \in Int
        BY <1>0
      <4>2. Rows \in Nat /\ asked \in Nat /\ Extra \in Nat
        BY <1>0, <3>6
      <4> QED BY <3>5, <3>10, <3>11, <4>1, <4>2, LessIsLess
    <3>14. asked' + v <= Extra' + (committed' - Stored) + Rows'
      BY <3>6, <3>13, Zenon
    <3> QED BY <3>12, <3>14, Zenon
  <2>7. ASSUME NEW t \in Tasks, StoreFails(t)
        PROVE  asked' + Len(wire') + Waits(Poll)' + Waits(Admin)'
                 <= Extra' + (committed' - Stored) + Rows'
    <3>1. committed' = committed + 1 /\ UNCHANGED <<asked, wire, Extra, row, job>>
      BY <2>7 DEF StoreFails, link, table, Extra
    <3>2. Waits(Poll)' = Waits(Poll) /\ Waits(Admin)' = Waits(Admin) /\ Rows' = Rows
      BY <3>1 DEF Waits, Rows
    <3> QED BY <1>0, <1>1, <1>2, <3>1, <3>2
  <2>8. ASSUME NEW t \in Tasks, SendAgain(t)
        PROVE  asked' + Len(wire') + Waits(Poll)' + Waits(Admin)'
                 <= Extra' + (committed' - Stored) + Rows'
    <3>1. UNCHANGED <<asked, committed, row, job>> /\ wire' = Append(wire, job[t][1])
      BY <2>8, AgainMoves DEF server, table
    <3>2. Len(wire') = Len(wire) + 1
      BY <1>0, <3>1
    <3>3. Extra' = Extra + 1
      BY <1>0, <2>8 DEF SendAgain, server, Extra
    <3>4. Waits(Poll)' = Waits(Poll) /\ Waits(Admin)' = Waits(Admin) /\ Rows' = Rows
      BY <3>1 DEF Waits, Rows
    <3> QED BY <1>0, <1>1, <1>2, <3>1, <3>2, <3>3, <3>4
  <2> QED BY <2>1, <2>2, <2>3, <2>4, <2>5, <2>6, <2>7, <2>8, QuietOrNot
<1> QED BY <1>4, <1>5 DEF AskInv

----------------------------------------------------------------------------
(* The properties.                                                         *)

\* PageInv holds in every reachable state.
LEMMA PageInvariant == Spec => []PageInv
<1>1. PageInv /\ [Next]_vars => PageInv'
  BY TypesStep, PlacesStep, UnpricedStep, PriceStep, AskStep DEF PageInv
<1> QED BY PageInit, <1>1, PTL DEF Spec

\* The page's variables keep their types: in particular what is in flight are
\* messages of tasks, the list holds stored alerts, a request is not at once
\* unanswered and answered, and none is answered that was not made.
THEOREM DashboardTypeCorrect == Spec => []TypeOK
<1>1. PageInv => TypeOK
  BY DEF PageInv
<1> QED BY PageInvariant, <1>1, PTL

\* A set with no two elements has one at most, two of them have two.
LEMMA AtMostOne ==
  ASSUME NEW S, \A x, y \in S : x = y
  PROVE  /\ IsFiniteSet(S) /\ Cardinality(S) \in {0, 1}
         /\ S # {} => Cardinality(S) = 1
<1>1. CASE S = {}
  BY <1>1, FS_EmptySet
<1>2. ASSUME NEW x \in S
      PROVE  IsFiniteSet(S) /\ Cardinality(S) = 1
  <2>1. S = {x}
    OBVIOUS
  <2> QED BY <2>1, FS_Singleton
<1> QED BY <1>1, <1>2

LEMMA AtMostTwo ==
  ASSUME NEW S, NEW T, \A x, y \in S : x = y, \A x, y \in T : x = y
  PROVE  Cardinality(S \cup T) <= 2
<1>1. IsFiniteSet(S) /\ Cardinality(S) \in {0, 1} /\ Cardinality(T) \in {0, 1}
  BY AtMostOne
<1>2. CASE T = {}
  <2>1. S \cup T = S
    BY <1>2
  <2> QED BY <1>1, <2>1
<1>3. ASSUME NEW x \in T
      PROVE  Cardinality(S \cup T) <= 2
  <2>1. S \cup T = S \cup {x}
    OBVIOUS
  <2>2. Cardinality(S \cup {x}) = IF x \in S THEN Cardinality(S) ELSE Cardinality(S) + 1
    BY <1>1, FS_AddElement
  <2> QED BY <1>1, <2>1, <2>2
<1> QED BY <1>2, <1>3

\* The live alerts of the list, and under them the loaded ones.
LEMMA ListParts ==
  ASSUME PageInv, load = "done"
  PROVE  /\ Live \in Nat /\ Size(seen) \in 0 .. seen /\ Len(list) = Live + Size(seen)
         /\ list \in Seq(Alerts) /\ seen \in 0 .. MaxAlerts /\ seen <= loaded /\ loaded \in Nat
         /\ Newest(seen) \in Seq(Alerts) /\ Len(Newest(seen)) = Size(seen)
         /\ \A i \in 1 .. Size(seen) : Newest(seen)[i] = seen + 1 - i
         /\ \A i \in 1 .. Size(seen) : list[Live + i] = seen + 1 - i
<1>1. /\ list \in Seq(Alerts) /\ Len(list) \in Nat /\ seen \in 0 .. MaxAlerts /\ loaded \in Nat
      /\ seen <= loaded /\ Size(seen) <= Len(list)
      /\ \A i \in 1 .. Size(seen) : list[Live + i] = seen + 1 - i
  BY DEF PageInv, TypeOK, ListInv
<1>2. /\ Size(seen) \in 0 .. seen
      /\ Newest(seen) \in Seq(Alerts) /\ Len(Newest(seen)) = Size(seen)
      /\ \A i \in 1 .. Size(seen) : Newest(seen)[i] = seen + 1 - i
  BY <1>1, NewestIs
<1>3. Live = Len(list) - Size(seen)
  BY DEF Live
<1> QED BY <1>1, <1>2, <1>3

\* Where a copy of an alert can be.
LEMMA CopyIs ==
  ASSUME PageInv, load = "done", NEW a \in Alerts
  PROVE  /\ {i \in DOMAIN list : list[i] = a}
              = {i \in Nat : InLive(i, a)} \cup {i \in DOMAIN list : i > Live /\ list[i] = a}
         /\ a \notin twice => \A i, j \in {i \in Nat : InLive(i, a)} : i = j
         /\ \A i, j \in {i \in DOMAIN list : i > Live /\ list[i] = a} : i = j
         /\ \A i \in {i \in DOMAIN list : i > Live /\ list[i] = a} : a <= seen
<1>1. /\ Live \in Nat /\ Size(seen) \in Nat /\ seen \in Nat /\ Len(list) = Live + Size(seen)
      /\ list \in Seq(Alerts) /\ DOMAIN list = 1 .. Len(list)
      /\ \A i \in 1 .. Size(seen) : list[Live + i] = seen + 1 - i
  BY ListParts
<1>2. {i \in DOMAIN list : list[i] = a}
        = {i \in Nat : InLive(i, a)} \cup {i \in DOMAIN list : i > Live /\ list[i] = a}
  BY <1>1 DEF InLive
<1>3. a \notin twice => \A i, j \in {i \in Nat : InLive(i, a)} : i = j
  BY DEF PageInv, OnceInv
<1>4. ASSUME NEW i \in DOMAIN list, i > Live, list[i] = a
      PROVE  i = Live + seen + 1 - a /\ a <= seen
  <2>1. i - Live \in 1 .. Size(seen) /\ Live + (i - Live) = i
    BY <1>1, <1>4
  <2>2. a = seen + 1 - (i - Live)
    BY <1>1, <1>4, <2>1
  <2>3. Live \in Nat /\ seen \in Nat /\ i \in Nat
    BY <1>1
  <2>4. i - Live >= 1
    BY <1>1, <2>1
  <2> QED BY <2>2, <2>3, <2>4
<1> QED BY <1>2, <1>3, <1>4

\* When nothing is on its way, an alert stored after the page showed its list
\* and of which no message was missed or lost is on the list, exactly once
\* unless its message was sent again: neither overtaken by the load nor listed
\* by it and by its message.
THEOREM LiveAlertsListedOnce == Spec => []NewAlertsListedOnce
<1>1. ASSUME PageInv, Settled, load = "done", NEW a \in loaded + 1 .. committed, a \notin lost
      PROVE  Copies(a) >= 1 /\ (a \notin twice => Copies(a) = 1)
  <2>1. a \in Alerts /\ a \in Nat /\ a > loaded
    BY <1>1, DashboardAssumption DEF PageInv, TypeOK, Alerts
  <2>2. Somewhere(a)
    BY <1>1 DEF PageInv, SomewhereInv
  <2>3. \A i \in Nat : ~InWire(i, a)
    BY <1>1 DEF Settled, InWire
  <2>4. PICK i \in Nat : InLive(i, a)
    BY <1>1, <2>2, <2>3 DEF Somewhere, Settled, InJob
  <2> DEFINE live == {j \in Nat : InLive(j, a)}
             older == {j \in DOMAIN list : j > Live /\ list[j] = a}
  <2>5. older = {}
    <3>1. \A j \in older : a <= seen
      BY <1>1, <2>1, CopyIs
    <3>2. ~(a <= seen)
      BY <1>1, <2>1, ListParts
    <3> QED BY <3>1, <3>2
  <2>6. {j \in DOMAIN list : list[j] = a} = live
    BY <1>1, <2>1, <2>5, CopyIs
  <2>7. (a \notin twice => \A j, k \in live : j = k) /\ i \in live
    BY <1>1, <2>1, <2>4, CopyIs
  <2>8. IsFiniteSet(live) /\ Cardinality(live) \in Nat
    <3>1. list \in Seq(Alerts) /\ DOMAIN list = 1 .. Len(list) /\ Len(list) \in Nat
      BY <1>1 DEF PageInv, TypeOK
    <3>2. IsFiniteSet(DOMAIN list)
      BY <3>1, FS_Interval
    <3>3. live \subseteq DOMAIN list
      BY <2>6
    <3> QED BY <3>2, <3>3, FS_Subset, FS_CardinalityType
  <2> HIDE DEF live
  <2>9. Cardinality(live) # 0
    BY <2>7, <2>8, FS_EmptySet
  <2>10. a \notin twice => Cardinality(live) = 1
    BY <2>7, AtMostOne
  <2> QED BY <2>6, <2>8, <2>9, <2>10 DEF Copies
<1>2. PageInv => NewAlertsListedOnce
  BY <1>1 DEF NewAlertsListedOnce
<1> QED BY PageInvariant, <1>2, PTL

\* A list of alerts read from its end.
LEMMA ReverseIs ==
  ASSUME NEW items \in Seq(Alerts)
  PROVE  /\ Reverse(items) \in Seq(Alerts) /\ Len(Reverse(items)) = Len(items)
         /\ \A i \in 1 .. Len(items) : Reverse(items)[i] = items[Len(items) - i + 1]
BY DEF Reverse

\* The alerts the page loaded stay at the bottom of its list, newest first; an
\* alert sent once stands there twice only if it had been stored when /alerts was
\* answered.
THEOREM LoadedStayBelow == Spec => []LoadedBelowLive
<1>1. ASSUME PageInv, load = "done"
      PROVE  IsSuffix(Newest(seen), list)
  <2>1. /\ Live \in Nat /\ Size(seen) \in Nat /\ Len(list) = Live + Size(seen)
        /\ list \in Seq(Alerts) /\ Newest(seen) \in Seq(Alerts) /\ Len(Newest(seen)) = Size(seen)
        /\ \A i \in 1 .. Size(seen) : list[Live + i] = Newest(seen)[i]
    BY <1>1, ListParts
  <2> DEFINE s == Reverse(Newest(seen))
             t == Reverse(list)
             n == Size(seen)
  <2>2. /\ s \in Seq(Alerts) /\ t \in Seq(Alerts) /\ Len(s) = n /\ Len(t) = Len(list)
        /\ \A i \in 1 .. n : s[i] = Newest(seen)[n - i + 1]
        /\ \A i \in 1 .. Len(list) : t[i] = list[Len(list) - i + 1]
    <3>1. /\ s \in Seq(Alerts) /\ Len(s) = Len(Newest(seen))
          /\ \A i \in 1 .. Len(Newest(seen)) : s[i] = Newest(seen)[Len(Newest(seen)) - i + 1]
      BY <2>1, ReverseIs
    <3>2. /\ t \in Seq(Alerts) /\ Len(t) = Len(list)
          /\ \A i \in 1 .. Len(list) : t[i] = list[Len(list) - i + 1]
      BY <2>1, ReverseIs
    <3>3. Len(Newest(seen)) = n
      BY <2>1
    <3> QED BY <3>1, <3>2, <3>3, Zenon
  <2> HIDE DEF s, t
  <2>3. ASSUME NEW i \in 1 .. n
        PROVE  s[i] = t[i]
    <3>1. /\ n - i + 1 \in 1 .. n /\ i \in 1 .. Len(list)
          /\ Len(list) - i + 1 = Live + (n - i + 1)
      <4>1. PICK k \in Nat, l \in Nat : k = n /\ l = Live /\ Len(list) = l + k
        BY <2>1
      <4>2. i \in Nat /\ 1 <= i /\ i <= k
        BY <4>1
      <4>3. k - i + 1 \in 1 .. k /\ i \in 1 .. l + k /\ (l + k) - i + 1 = l + (k - i + 1)
        BY <4>2
      <4> QED BY <4>1, <4>3, Zenon
    <3>2. s[i] = Newest(seen)[n - i + 1] /\ t[i] = list[Live + (n - i + 1)]
      BY <2>2, <3>1, Zenon
    <3> QED BY <2>1, <3>1, <3>2, Zenon
  <2> HIDE DEF n
  <2>4. n \in Nat /\ n <= Len(list)
    BY <2>1 DEF n
  <2>5. SubSeq(s, 1, n) = SubSeq(t, 1, n)
    BY <2>2, <2>3, <2>4
  <2>6. IsPrefix(s, t)
    BY <2>2, <2>4, <2>5 DEF IsPrefix
  <2> QED BY <2>6 DEF IsSuffix, s, t
<1>2. ASSUME PageInv, load = "done", NEW a \in Alerts \ twice
      PROVE  Copies(a) <= (IF a <= seen THEN 2 ELSE 1)
  <2> DEFINE live == {j \in Nat : InLive(j, a)}
             older == {j \in DOMAIN list : j > Live /\ list[j] = a}
  <2>1. /\ Copies(a) = Cardinality(live \cup older)
        /\ \A i, j \in live : i = j
        /\ \A i, j \in older : i = j
        /\ \A i \in older : a <= seen
    BY <1>2, CopyIs DEF Copies
  <2> HIDE DEF live, older
  <2>2. CASE a <= seen
    BY <2>1, <2>2, AtMostTwo
  <2>3. CASE ~(a <= seen)
    <3>1. older = {} /\ live \cup older = live
      BY <2>1, <2>3
    <3> QED BY <2>1, <2>3, <3>1, AtMostOne
  <2> QED BY <2>2, <2>3
<1>3. PageInv => LoadedBelowLive
  BY <1>1, <1>2 DEF LoadedBelowLive
<1> QED BY PageInvariant, <1>3, PTL

\* When nothing is on its way, no price was lost since the page last asked, and
\* the answer applied last is that to its newest request, the row shows the
\* price stored last, in whatever order answers and messages came.
THEOREM RowShowsLastPrice == Spec => []PriceSettles
<1>1. PageInv => PriceSettles
  <2>1. ASSUME PageInv, Settled
        PROVE  ~Coming
    BY <2>1 DEF Settled, Coming, Tasks
  <2> QED BY <2>1 DEF PageInv, PriceInv, PriceSettles
<1> QED BY PageInvariant, <1>1, PTL
=============================================================================
