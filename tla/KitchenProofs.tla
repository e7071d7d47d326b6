--------------------------- MODULE KitchenProofs ---------------------------
(* Machine-checked properties of the chefs' dashboards, for any number of   *)
(* orders, items, guests, admins, chefs and logins.                         *)
EXTENDS Kitchen, SequenceTheorems, FiniteSetTheorems, WellFoundedInduction, TLAPS

\* What a thread may be about to write and to tell.
Jobs == [order : {0} \cup OrderIds, copy : OrderType \cup {Absent},
         before : SUBSET Messages, after : SUBSET Messages]

\* The writes that may come late, and the dashboards that are being read.
Lates == [order : {0} \cup OrderIds, copy : OrderType \cup {Absent}]
Scans == [order : 0 .. MaxOrders + 1, todo : SUBSET Lines, list : SUBSET Items]

\* The part of the state a dashboard depends on.
ScanTypes ==
  /\ orders \in [OrderIds -> OrderType \cup {Absent}] /\ menu \subseteq Dishes
  /\ job \in [Threads -> Jobs]
  /\ late \in [1 .. MaxFailures -> Lates]
  /\ scan \in [Chefs -> Scans]
  /\ lasting \in [Chefs -> SUBSET Lines]
  /\ failures \in Nat
ScanInv == ScanTypes /\ DashboardRegular

\* Steps that change no dashboard that is being read.
ScanKept == UNCHANGED scan /\ failures' >= failures

-----------------------------------------------------------------------------
LEMMA UpdateTypes ==
  ASSUME NEW o \in OrderIds, NEW k \in 1 .. MaxOrderItems, NEW s \in {"PENDING", "PREPARED"}
  PROVE  Update(o, k, s) \in Messages
BY DEF Update, Messages, Items

\* What is to cook are items of the orders.
LEMMA CookableTypes ==
  ASSUME orders \in [OrderIds -> OrderType \cup {Absent}]
  PROVE  /\ \A o \in OrderIds : \A i \in Unprepared(o) : i \in Lines /\ i[1] = o
         /\ Cookable \subseteq Lines
         /\ \A i \in Cookable : i[1] \in OrderIds /\ i \in Unprepared(i[1]) /\ i[3] \in menu
<1>1. ASSUME NEW o \in OrderIds, NEW i \in Unprepared(o) PROVE i \in Lines /\ i[1] = o
  <2>1. orders[o] # Absent
    BY DEF Unprepared
  <2>2. orders[o] \in OrderType
    BY <2>1
  <2>3. PICK k \in orders[o].pending : i = <<o, k, orders[o].dish[k]>>
    BY <2>1 DEF Unprepared
  <2>4. k \in 1 .. MaxOrderItems /\ orders[o].dish[k] \in Dishes \cup {Absent}
    BY <2>2 DEF OrderType
  <2> QED BY <2>3, <2>4 DEF Lines
<1> QED BY <1>1 DEF Cookable

\* Items that are to cook after a step that leaves orders and menu alone.
LEMMA CookableSame == ASSUME UNCHANGED <<orders, menu>> PROVE Cookable' = Cookable
BY DEF Cookable, Unprepared

LEMMA AllPreparedTypes ==
  ASSUME orders \in [OrderIds -> OrderType \cup {Absent}], NEW o \in OrderIds, orders[o] # Absent
  PROVE  AllPrepared(o) \subseteq Messages
<1>1. \A k \in orders[o].pending : k \in 1 .. MaxOrderItems
  BY DEF OrderType
<1> QED BY <1>1, UpdateTypes DEF AllPrepared

\* A command that begins.
LEMMA WorkTypes ==
  ASSUME ScanTypes, NEW th \in Threads, NEW o \in OrderIds, NEW copy \in OrderType \cup {Absent},
         NEW before \in SUBSET Messages, NEW after \in SUBSET Messages, Work(th, o, copy, before, after)
  PROVE  /\ UNCHANGED <<orders, menu, late, scan, failures>>
         /\ job' \in [Threads -> Jobs]
BY DEF Work, ScanTypes, Jobs

\* An order with one item more is an order.
LEMMA WithItemIs ==
  ASSUME NEW o \in OrderIds, orders[o] \in OrderType, NEW k \in 1 .. MaxOrderItems, NEW d \in Dishes
  PROVE  /\ WithItem(o, k, d) \in OrderType
         /\ WithItem(o, k, d).items = k /\ WithItem(o, k, d).pending = orders[o].pending \cup {k}
<1> DEFINE e == [orders[o].dish EXCEPT ![k] = d]
<1>1. e \in [1 .. MaxOrderItems -> Dishes \cup {Absent}]
  BY DEF OrderType
<1>2. WithItem(o, k, d) = [orders[o] EXCEPT !.items = k, !.pending = orders[o].pending \cup {k}, !.dish = e]
  BY DEF WithItem, OrderType
<1>3. orders[o].pending \cup {k} \subseteq 1 .. MaxOrderItems /\ k \in 0 .. MaxOrderItems
  BY KitchenAssumption DEF OrderType
<1> HIDE DEF e
<1> QED BY <1>1, <1>2, <1>3 DEF OrderType

LEMMA CommandTypes ==
  ASSUME ScanTypes, NEW th \in Threads, Command(th)
  PROVE  /\ UNCHANGED <<orders, menu, late, scan, failures>>
         /\ job' \in [Threads -> Jobs]
<1> USE KitchenAssumption
<1>1. ASSUME NEW o \in OrderIds, NEW d \in Dishes, OrderItem(th, o, d)
      PROVE  \E copy \in OrderType, after \in SUBSET Messages : Work(th, o, copy, {}, after)
  <2> DEFINE k == orders[o].items + 1
  <2>1. orders[o] \in OrderType /\ k \in 1 .. MaxOrderItems
    BY <1>1 DEF OrderItem, ScanTypes, OrderType
  <2>2. Update(o, k, "PENDING") \in Messages
    BY <2>1, UpdateTypes
  <2>3. WithItem(o, k, d) \in OrderType
    BY <2>1, WithItemIs
  <2> QED BY <1>1, <2>2, <2>3 DEF OrderItem
<1>2. ASSUME NEW o \in OrderIds, NEW k \in 1 .. MaxOrderItems, MarkPrepared(th, o, k)
      PROVE  \E copy \in OrderType, after \in SUBSET Messages : Work(th, o, copy, {}, after)
  <2>1. orders[o] \in OrderType
    BY <1>2 DEF MarkPrepared, ScanTypes
  <2>2. Update(o, k, "PREPARED") \in Messages
    BY UpdateTypes
  <2>3. [orders[o] EXCEPT !.pending = @ \ {k}] \in OrderType
    BY <2>1 DEF OrderType
  <2> QED BY <1>2, <2>2, <2>3 DEF MarkPrepared
<1>3. ASSUME NEW o \in OrderIds, GenerateBill(th, o) \/ DeleteOrder(th, o)
      PROVE  \E copy \in OrderType \cup {Absent}, before \in SUBSET Messages : Work(th, o, copy, before, {})
  <2>1. orders[o] \in OrderType /\ AllPrepared(o) \subseteq Messages
    BY <1>3, AllPreparedTypes DEF GenerateBill, DeleteOrder, ScanTypes
  <2>2. [orders[o] EXCEPT !.pending = {}, !.billed = TRUE] \in OrderType
    BY <2>1 DEF OrderType
  <2> QED BY <1>3, <2>1, <2>2 DEF GenerateBill, DeleteOrder
<1>4. \E o \in OrderIds, copy \in OrderType \cup {Absent},
         before \in SUBSET Messages, after \in SUBSET Messages : Work(th, o, copy, before, after)
  BY <1>1, <1>2, <1>3 DEF Command
<1> QED BY <1>4, WorkTypes

LEMMA WriteTypes ==
  ASSUME ScanTypes, NEW th \in Threads, Write(th)
  PROVE  /\ orders' \in [OrderIds -> OrderType \cup {Absent}]
         /\ job' \in [Threads -> Jobs]
         /\ UNCHANGED <<menu, late, scan, failures>>
<1>1. job[th].order \in OrderIds /\ job[th].copy \in OrderType \cup {Absent}
      /\ job[th].after \in SUBSET Messages
  BY DEF Write, ScanTypes, Jobs
<1>2. NoJob \in Jobs
  BY DEF NoJob, Jobs
<1>3. [NoJob EXCEPT !.after = job[th].after] \in Jobs
  BY <1>1, <1>2 DEF Jobs
<1>4. orders' = orders \/ orders' = [orders EXCEPT ![job[th].order] = job[th].copy]
  BY DEF Write
<1>5. job' = [job EXCEPT ![th] = NoJob] \/ job' = [job EXCEPT ![th] = [NoJob EXCEPT !.after = job[th].after]]
  BY DEF Write
<1>6. UNCHANGED <<menu, late, scan, failures>>
  BY DEF Write
<1>7. job' \in [Threads -> Jobs]
  BY <1>2, <1>3, <1>5 DEF ScanTypes
<1> QED BY <1>1, <1>4, <1>6, <1>7 DEF ScanTypes

LEMMA WriteFailsTypes ==
  ASSUME ScanTypes, NEW th \in Threads, WriteFails(th), failures \in 0 .. MaxFailures
  PROVE  /\ UNCHANGED <<orders, menu, scan>> /\ failures' = failures + 1
         /\ job' \in [Threads -> Jobs]
         /\ late' \in [1 .. MaxFailures -> Lates]
<1>1. NoJob \in Jobs
  BY DEF NoJob, Jobs
<1>2. [order |-> job[th].order, copy |-> job[th].copy] \in Lates
  BY DEF ScanTypes, Jobs, Lates
<1> QED BY <1>1, <1>2 DEF WriteFails, ScanTypes

LEMMA LateWriteTypes ==
  ASSUME ScanTypes, NEW n \in 1 .. MaxFailures, LateWrite(n)
  PROVE  /\ UNCHANGED <<menu, job, scan, failures>>
         /\ orders' \in [OrderIds -> OrderType \cup {Absent}]
         /\ late' \in [1 .. MaxFailures -> Lates]
<1>1. NoLate \in Lates
  BY DEF NoLate, Lates
<1>2. late[n].copy \in OrderType \cup {Absent}
  BY DEF ScanTypes, Lates
<1> QED BY <1>1, <1>2 DEF LateWrite, ScanTypes

LEMMA BroadcastTypes ==
  ASSUME ScanTypes, NEW th \in Threads, Broadcast(th)
  PROVE  /\ UNCHANGED <<orders, menu, late, scan, failures>>
         /\ job' \in [Threads -> Jobs]
<1>1. PICK part \in {"before", "after"} : \E message \in job[th][part] :
        job' = [job EXCEPT ![th][part] = @ \ {message}]
  BY DEF Broadcast
<1>2. PICK message : job' = [job EXCEPT ![th][part] = @ \ {message}]
  BY <1>1
<1>3. CASE part = "before"
  <2>1. job' = [job EXCEPT ![th] = [job[th] EXCEPT !.before = @ \ {message}]]
    BY <1>2, <1>3 DEF ScanTypes, Jobs
  <2>2. [job[th] EXCEPT !.before = @ \ {message}] \in Jobs
    BY DEF ScanTypes, Jobs
  <2> QED BY <2>1, <2>2 DEF ScanTypes, Broadcast
<1>4. CASE part = "after"
  <2>1. job' = [job EXCEPT ![th] = [job[th] EXCEPT !.after = @ \ {message}]]
    BY <1>2, <1>4 DEF ScanTypes, Jobs
  <2>2. [job[th] EXCEPT !.after = @ \ {message}] \in Jobs
    BY DEF ScanTypes, Jobs
  <2> QED BY <2>1, <2>2 DEF ScanTypes, Broadcast
<1> QED BY <1>3, <1>4

-----------------------------------------------------------------------------
\* A step that lets the dashboards alone can only take items out of lasting.
LEMMA KeptRegular ==
  ASSUME ScanInv, ScanKept, Watch, failures' \in Nat
  PROVE  DashboardRegular'
<1> SUFFICES ASSUME NEW c \in Chefs, failures' = 0, scan[c] # NoScan,
                    NEW i \in lasting'[c], i[1] < scan[c].order
             PROVE  Item(i) \in scan[c].list \/ i \in scan[c].todo
  BY DEF DashboardRegular, ScanKept, Item
<1>1. i \in lasting[c]
  BY DEF ScanKept, Watch
<1>2. failures = 0
  BY DEF ScanKept, ScanInv, ScanTypes
<1> QED BY <1>1, <1>2 DEF ScanInv, DashboardRegular

\* The steps of the thread that reads a dashboard.
ScanSteps(c) == ScanStart(c) \/ ScanOrder(c) \/ ScanDish(c) \/ ScanSend(c) \/ ScanFails(c)

LEMMA ScanMoves ==
  ASSUME ScanTypes, NEW c \in Chefs, ScanSteps(c)
  PROVE  /\ scan' \in [Chefs -> Scans]
         /\ UNCHANGED <<orders, menu, job, late, asked, listed, screen>> /\ failures' \in Nat
         /\ \A d \in Chefs \ {c} : scan'[d] = scan[d]
         /\ failures' = 0 => failures = 0 /\ ~ScanFails(c)
<1> USE KitchenAssumption DEF ScanTypes, OrderIds
<1>1. scan[c] \in Scans /\ NoScan \in Scans
  BY DEF NoScan, Scans
<1>2. \E s \in Scans : scan' = [scan EXCEPT ![c] = s]
  <2>1. CASE ScanStart(c)
    <3>1. [scan[c] EXCEPT !.order = 1] \in Scans
      <4>1. 1 \in 0 .. MaxOrders + 1
        OBVIOUS
      <4> QED BY <1>1, <4>1 DEF Scans
    <3> QED BY <1>1, <2>1, <3>1 DEF ScanStart
  <2>2. CASE ScanOrder(c)
    <3> DEFINE o == scan[c].order
    <3>1. Unprepared(o) \subseteq Lines /\ o + 1 \in 0 .. MaxOrders + 1
      BY <2>2, CookableTypes DEF ScanOrder
    <3>2. scan' = [scan EXCEPT ![c] = [order |-> o + 1, todo |-> Unprepared(o), list |-> scan[c].list]]
      BY <2>2 DEF ScanOrder
    <3>3. [order |-> o + 1, todo |-> Unprepared(o), list |-> scan[c].list] \in Scans
      BY <1>1, <3>1 DEF Scans
    <3> HIDE DEF o
    <3> QED BY <3>2, <3>3
  <2>3. CASE ScanDish(c)
    <3>1. PICK i \in scan[c].todo :
            scan' = [scan EXCEPT ![c] = [order |-> scan[c].order, todo |-> scan[c].todo \ {i},
                     list |-> scan[c].list \cup (IF i[3] \in menu THEN {Item(i)} ELSE {})]]
      BY <2>3 DEF ScanDish
    <3>2. Item(i) \in Items
      BY <1>1, <3>1 DEF Scans, Lines, Item, Items
    <3>3. [order |-> scan[c].order, todo |-> scan[c].todo \ {i},
                     list |-> scan[c].list \cup (IF i[3] \in menu THEN {Item(i)} ELSE {})] \in Scans
      BY <1>1, <3>2 DEF Scans
    <3> QED BY <3>1, <3>3
  <2>4. CASE ScanSend(c)
    BY <1>1, <2>4 DEF ScanSend
  <2>5. CASE ScanFails(c)
    <3>1. CASE scan' = [scan EXCEPT ![c] = NoScan]
      BY <1>1, <3>1
    <3>2. ASSUME NEW i \in scan[c].todo, scan' = [scan EXCEPT ![c].todo = @ \ {i}]
          PROVE  \E s \in Scans : scan' = [scan EXCEPT ![c] = s]
      <4>1. [scan[c] EXCEPT !.todo = @ \ {i}] \in Scans
        BY <1>1 DEF Scans
      <4>2. scan' = [scan EXCEPT ![c] = [scan[c] EXCEPT !.todo = @ \ {i}]]
        BY <3>2
      <4> QED BY <4>1, <4>2
    <3> QED BY <2>5, <3>1, <3>2 DEF ScanFails
  <2> QED BY <2>1, <2>2, <2>3, <2>4, <2>5 DEF ScanSteps
<1>3. /\ UNCHANGED <<orders, menu, job, late, asked, listed, screen>> /\ failures' \in Nat
      /\ failures' = 0 => failures = 0 /\ ~ScanFails(c)
  <2>1. UNCHANGED <<orders, menu, job, late, asked, listed, screen>>
    BY DEF ScanSteps, ScanStart, ScanOrder, ScanDish, ScanSend, ScanFails
  <2>2. UNCHANGED failures \/ failures' = failures + 1
    BY DEF ScanSteps, ScanStart, ScanOrder, ScanDish, ScanSend, ScanFails
  <2>3. ScanFails(c) => failures' = failures + 1
    BY DEF ScanFails
  <2> QED BY <2>1, <2>2, <2>3
<1> QED BY <1>2, <1>3

LEMMA ScanRegular ==
  ASSUME ScanInv, Watch, NEW c \in Chefs, ScanSteps(c)
  PROVE  DashboardRegular'
<1> USE KitchenAssumption DEF ScanInv, ScanTypes
<1>1. /\ UNCHANGED <<orders, menu>> /\ Cookable' = Cookable
      /\ \A d \in Chefs \ {c} : scan'[d] = scan[d]
      /\ failures' = 0 => failures = 0 /\ ~ScanFails(c)
  BY ScanMoves, CookableSame
<1>2. scan[c] \in Scans
  OBVIOUS
<1> SUFFICES ASSUME NEW d \in Chefs, failures' = 0, scan'[d] # NoScan,
                    NEW i \in lasting'[d], i[1] < scan'[d].order
             PROVE  Item(i) \in scan'[d].list \/ i \in scan'[d].todo
  BY DEF DashboardRegular, Item
<1>3. i \in Cookable /\ (scan[d] # NoScan => i \in lasting[d])
  BY <1>1 DEF Watch
<1>4. i[1] \in OrderIds /\ i \in Unprepared(i[1]) /\ i[3] \in menu
  BY <1>3, CookableTypes
<1>5. scan[d] # NoScan /\ i[1] < scan[d].order => Item(i) \in scan[d].list \/ i \in scan[d].todo
  BY <1>1, <1>3 DEF DashboardRegular
<1>6. CASE d # c
  BY <1>1, <1>5, <1>6
<1>7. CASE d = c /\ ScanStart(c)
  <2>1. scan'[c].order = 1
    BY <1>2, <1>7 DEF ScanStart, Scans
  <2> QED BY <1>4, <1>7, <2>1 DEF OrderIds
<1>8. CASE d = c /\ ScanOrder(c)
  <2> DEFINE o == scan[c].order
  <2>1. o \in OrderIds /\ scan[c] # NoScan /\ scan[c].todo = {}
    BY <1>8 DEF ScanOrder, NoScan, OrderIds
  <2>2. scan'[c] = [order |-> o + 1, todo |-> Unprepared(o), list |-> scan[c].list]
    BY <1>8 DEF ScanOrder
  <2>3. scan'[c].order = o + 1 /\ scan'[c].todo = Unprepared(o) /\ scan'[c].list = scan[c].list
    BY <1>2, <2>2 DEF Scans
  <2>4. i[1] < o \/ i[1] = o
    BY <1>4, <1>8, <2>1, <2>3 DEF OrderIds
  <2> QED BY <1>4, <1>5, <1>8, <2>1, <2>3, <2>4
<1>9. CASE d = c /\ ScanDish(c)
  <2>1. PICK j \in scan[c].todo :
          scan' = [scan EXCEPT ![c] = [order |-> scan[c].order, todo |-> scan[c].todo \ {j},
                     list |-> scan[c].list \cup (IF j[3] \in menu THEN {Item(j)} ELSE {})]]
    BY <1>9 DEF ScanDish
  <2>2. /\ scan'[c].order = scan[c].order /\ scan'[c].todo = scan[c].todo \ {j}
        /\ scan'[c].list = scan[c].list \cup (IF j[3] \in menu THEN {Item(j)} ELSE {})
    BY <1>2, <2>1 DEF Scans
  <2>3. scan[c] # NoScan
    BY <2>1 DEF NoScan
  <2> QED BY <1>4, <1>5, <1>9, <2>2, <2>3
<1>10. CASE d = c /\ ScanSend(c)
  BY <1>10 DEF ScanSend
<1> QED BY <1>1, <1>6, <1>7, <1>8, <1>9, <1>10 DEF ScanSteps

\* What is watched keeps its type.
LEMMA LastingTypes ==
  ASSUME ScanTypes, Watch, orders' \in [OrderIds -> OrderType \cup {Absent}]
  PROVE  lasting' \in [Chefs -> SUBSET Lines]
<1>1. Cookable' \subseteq Lines
  <2>1. ASSUME NEW o \in OrderIds, orders'[o] # Absent, NEW k \in orders'[o].pending
        PROVE  <<o, k, orders'[o].dish[k]>> \in Lines
    BY <2>1 DEF Lines, OrderType
  <2> QED BY <2>1 DEF Cookable, Unprepared
<1> QED BY <1>1 DEF Watch, ScanTypes

LEMMA ScanInvNext == ScanInv /\ failures \in 0 .. MaxFailures /\ [Next]_vars => ScanInv'
<1> SUFFICES ASSUME ScanInv, failures \in 0 .. MaxFailures, [Next]_vars PROVE ScanInv'
  OBVIOUS
<1>1. CASE UNCHANGED vars
  BY <1>1 DEF vars, ScanInv, ScanTypes, DashboardRegular, Item
<1>2. ASSUME Watch, ScanKept, failures' \in Nat, menu' \subseteq Dishes,
             orders' \in [OrderIds -> OrderType \cup {Absent}],
             job' \in [Threads -> Jobs], late' \in [1 .. MaxFailures -> Lates]
      PROVE  ScanInv'
  BY <1>2, KeptRegular, LastingTypes DEF ScanInv, ScanTypes, ScanKept
<1>3. ASSUME Watch, NEW th \in Threads, Command(th) \/ Write(th) \/ WriteFails(th) \/ Broadcast(th)
      PROVE  ScanInv'
  <2>1. /\ UNCHANGED <<menu, scan>> /\ (failures' = failures \/ failures' = failures + 1)
        /\ orders' \in [OrderIds -> OrderType \cup {Absent}]
        /\ job' \in [Threads -> Jobs] /\ late' \in [1 .. MaxFailures -> Lates]
    BY <1>3, CommandTypes, WriteTypes, WriteFailsTypes, BroadcastTypes DEF ScanInv, ScanTypes
  <2> QED BY <1>2, <1>3, <2>1 DEF ScanInv, ScanKept, ScanTypes
<1>4. ASSUME Watch, NEW n \in 1 .. MaxFailures, LateWrite(n) PROVE ScanInv'
  BY <1>2, <1>4, LateWriteTypes DEF ScanInv, ScanKept, ScanTypes
<1>5. ASSUME Watch, NEW d \in Dishes, DeleteMenu(d) PROVE ScanInv'
  <2>1. UNCHANGED <<orders, job, late, scan, failures>> /\ menu' \subseteq Dishes
    BY <1>5 DEF DeleteMenu, ScanInv, ScanTypes
  <2> QED BY <1>2, <1>5, <2>1 DEF ScanInv, ScanKept, ScanTypes
<1>6. ASSUME Watch, NEW c \in Chefs, Listener(c) \/ LogInAgain(c) PROVE ScanInv'
  <2>1. UNCHANGED <<orders, menu, job, late, scan, failures>>
    BY <1>6 DEF Listener, Receive, LogInAgain
  <2> QED BY <1>2, <1>6, <2>1 DEF ScanInv, ScanKept, ScanTypes
<1>7. ASSUME Watch, NEW c \in Chefs, ScanSteps(c) PROVE ScanInv'
  BY <1>7, ScanMoves, ScanRegular, LastingTypes DEF ScanInv, ScanTypes
<1> QED BY <1>1, <1>3, <1>4, <1>5, <1>6, <1>7 DEF Next, Step, Scan, ScanSteps

-----------------------------------------------------------------------------
(***************************************************************************)
(* What a terminal makes of the messages it takes.  The updates of a       *)
(* buffer are applied by recursion on their number; what holds after each  *)
(* of them is shown by looking at the first after which it would not.      *)
(***************************************************************************)
LEMMA Smallest ==
  ASSUME NEW S \in SUBSET Nat, S # {}
  PROVE  \E x \in S : \A y \in S : x <= y
<1> DEFINE R == {p \in Nat \X Nat : p[1] < p[2]}
<1>1. IsWellFoundedOn(R, Nat)
  BY NatLessThanWellFounded DEF OpToRel, R
<1>2. PICK x \in S : \A y \in S : ~(<<y, x>> \in R)
  <2> HIDE DEF R
  <2> QED BY <1>1, WFMin
<1>3. ASSUME NEW y \in S PROVE x <= y
  <2>1. <<y, x>> \in Nat \X Nat /\ <<y, x>>[1] = y /\ <<y, x>>[2] = x
    OBVIOUS
  <2>2. ~(y < x)
    BY <1>2, <2>1 DEF R
  <2> QED BY <2>1, <2>2
<1> QED BY <1>3

Screens(items, messages, m, f) ==
  f = [n \in 0 .. m |-> IF n = 0 THEN items ELSE Apply(f[n - 1], messages[n])]

LEMMA ScreensExist == ASSUME NEW items, NEW messages, NEW m \in Nat PROVE \E f : Screens(items, messages, m, f)
<1> DEFINE S == {n \in Nat : ~\E f : Screens(items, messages, n, f)}
<1> SUFFICES ASSUME S # {} PROVE FALSE
  OBVIOUS
<1>1. PICK x \in S : \A y \in S : x <= y
  <2> HIDE DEF S
  <2>1. S \in SUBSET Nat
    BY DEF S
  <2> QED BY <2>1, Smallest
<1>2. CASE x = 0
  <2> DEFINE f == [n \in 0 .. 0 |-> items]
  <2>1. f = [n \in 0 .. 0 |-> IF n = 0 THEN items ELSE Apply(f[n - 1], messages[n])]
    OBVIOUS
  <2> QED BY <1>2, <2>1 DEF Screens
<1>3. CASE x # 0
  <2>1. x \in Nat /\ x - 1 \in Nat /\ ~(x <= x - 1)
    BY <1>3
  <2>2. PICK f : Screens(items, messages, x - 1, f)
    BY <1>1, <2>1
  <2> DEFINE g == [n \in 0 .. x |-> IF n = x THEN Apply(f[x - 1], messages[x]) ELSE f[n]]
  <2>3. ASSUME NEW n \in 0 .. x
        PROVE  g[n] = IF n = 0 THEN items ELSE Apply(g[n - 1], messages[n])
    <3>1. CASE n = 0
      <4>1. g[0] = f[0] /\ f[0] = items
        BY <1>3, <2>1, <2>2, <3>1 DEF Screens
      <4> QED BY <3>1, <4>1
    <3>2. CASE n # 0 /\ n # x
      <4>1. n \in 0 .. x - 1 /\ n - 1 \in 0 .. x /\ n - 1 # x
        BY <2>1, <3>2
      <4>2. f[n] = Apply(f[n - 1], messages[n])
        BY <2>2, <3>2, <4>1 DEF Screens
      <4> QED BY <3>2, <4>1, <4>2
    <3>3. CASE n = x
      <4>1. n - 1 \in 0 .. x /\ n - 1 # x
        BY <2>1, <3>3
      <4> QED BY <1>3, <3>3, <4>1
    <3> QED BY <3>1, <3>2, <3>3
  <2>4. g = [n \in 0 .. x |-> g[n]]
    OBVIOUS
  <2> HIDE DEF g
  <2>5. g = [n \in 0 .. x |-> IF n = 0 THEN items ELSE Apply(g[n - 1], messages[n])]
    BY <2>3, <2>4
  <2> QED BY <2>5 DEF Screens
<1> QED BY <1>2, <1>3

LEMMA ApplyAllIs ==
  ASSUME NEW items, NEW messages, Len(messages) \in Nat
  PROVE  \E f : Screens(items, messages, Len(messages), f) /\ ApplyAll(items, messages) = f[Len(messages)]
<1> DEFINE s == CHOOSE f : Screens(items, messages, Len(messages), f)
<1>1. \E f : Screens(items, messages, Len(messages), f)
  BY ScreensExist
<1>2. Screens(items, messages, Len(messages), s)
  BY <1>1, Zenon
<1>3. ApplyAll(items, messages) = s[Len(messages)]
  BY DEF ApplyAll, Screens
<1> QED BY <1>2, <1>3

\* What an update leaves on a screen was there, or is named by the update.
LEMMA ApplyShows ==
  ASSUME NEW items \in [Items -> Nat], NEW m \in Messages
  PROVE  /\ Apply(items, m) \in [Items -> Nat]
         /\ \A i \in Items : Apply(items, m)[i] > 0 => items[i] > 0 \/ (m.type # "OK" /\ i = m.item)
<1>1. CASE m.type = "OK"
  BY <1>1 DEF Apply
<1>2. CASE m.type # "OK"
  <2>1. m.item \in Items
    BY <1>2 DEF Messages
  <2> DEFINE n == IF m.status = "PENDING" THEN items[m.item] + 1
                  ELSE IF items[m.item] > 0 THEN items[m.item] - 1 ELSE 0
  <2>2. n \in Nat
    BY <2>1
  <2>3. Apply(items, m) = [items EXCEPT ![m.item] = n]
    BY <1>2, <2>1 DEF Apply
  <2> HIDE DEF n
  <2> QED BY <1>2, <2>1, <2>2, <2>3
<1> QED BY <1>1, <1>2

\* The items the messages name.
Named(messages) ==
  UNION {IF messages[n].type = "OK" THEN messages[n].list ELSE {messages[n].item} : n \in DOMAIN messages}

LEMMA ApplyAllShows ==
  ASSUME NEW items \in [Items -> Nat], NEW messages \in Seq(Messages)
  PROVE  /\ ApplyAll(items, messages) \in [Items -> Nat]
         /\ \A i \in Items : ApplyAll(items, messages)[i] > 0 => items[i] > 0 \/ i \in Named(messages)
<1> DEFINE Good(g) == /\ g \in [Items -> Nat]
                      /\ \A i \in Items : g[i] > 0 => items[i] > 0 \/ i \in Named(messages)
           m == Len(messages)
<1>1. m \in Nat /\ DOMAIN messages = 1 .. m /\ \A n \in 1 .. m : messages[n] \in Messages
  OBVIOUS
<1> HIDE DEF m
<1>2. PICK f : Screens(items, messages, m, f) /\ ApplyAll(items, messages) = f[m]
  BY <1>1, ApplyAllIs DEF m
<1> DEFINE S == {n \in 0 .. m : ~Good(f[n])}
<1>3. S = {}
  <2> SUFFICES ASSUME S # {} PROVE FALSE
    OBVIOUS
  <2>1. PICK x \in S : \A y \in S : x <= y
    <3> HIDE DEF S
    <3>1. S \in SUBSET Nat
      BY DEF S
    <3> QED BY <3>1, Smallest
  <2>2. x \in 0 .. m /\ x \in Int /\ ~Good(f[x])
    OBVIOUS
  <2>3. CASE x = 0
    <3>1. f[x] = items
      BY <1>2, <2>2, <2>3 DEF Screens
    <3> QED BY <2>2, <3>1
  <2>4. CASE x # 0
    <3>1. x - 1 \in 0 .. m /\ ~(x <= x - 1) /\ x \in 1 .. m
      BY <1>1, <2>2, <2>4
    <3>2. Good(f[x - 1])
      BY <2>1, <3>1
    <3>3. f[x] = Apply(f[x - 1], messages[x])
      BY <1>2, <2>2, <2>4 DEF Screens
    <3> DEFINE before == f[x - 1]
    <3>4. /\ f[x] \in [Items -> Nat]
          /\ \A i \in Items : f[x][i] > 0 =>
               before[i] > 0 \/ (messages[x].type # "OK" /\ i = messages[x].item)
      BY <1>1, <3>1, <3>2, <3>3, ApplyShows
    <3>5. messages[x].type # "OK" => messages[x].item \in Named(messages)
      BY <1>1, <3>1 DEF Named
    <3> QED BY <2>2, <3>2, <3>4, <3>5
  <2> QED BY <2>3, <2>4
<1>4. Good(f[m])
  BY <1>1, <1>3
<1> QED BY <1>2, <1>4

LEMMA PopulateShows ==
  ASSUME NEW items, NEW messages \in Seq(Messages)
  PROVE  /\ Populate(items, messages) \in [Items -> Nat]
         /\ \A i \in Items : Populate(items, messages)[i] > 0 => i \in Named(messages)
<1>1. ASSUME NEW i \in Items
      PROVE  TimesListed(i, messages) \in Nat /\ (TimesListed(i, messages) > 0 => i \in Named(messages))
  <2> DEFINE at == {n \in DOMAIN messages : messages[n].type = "OK" /\ i \in messages[n].list}
  <2>1. IsFiniteSet(DOMAIN messages)
    <3>1. DOMAIN messages = 1 .. Len(messages) /\ Len(messages) \in Int
      OBVIOUS
    <3> QED BY <3>1, FS_Interval
  <2>2. IsFiniteSet(at)
    <3>1. at \subseteq DOMAIN messages
      OBVIOUS
    <3> QED BY <2>1, <3>1, FS_Subset
  <2>3. Cardinality(at) \in Nat
    BY <2>2, FS_CardinalityType
  <2>4. Cardinality(at) > 0 => at # {}
    <3>1. Cardinality({}) = 0
      BY FS_EmptySet
    <3> HIDE DEF at
    <3> QED BY <3>1
  <2>5. at # {} => i \in Named(messages)
    BY DEF Named
  <2>6. TimesListed(i, messages) = Cardinality(at)
    BY DEF TimesListed
  <2> QED BY <2>3, <2>4, <2>5, <2>6
<1> QED BY <1>1 DEF Populate

LEMMA Part ==
  ASSUME NEW messages \in Seq(Messages), NEW a \in Nat \ {0}, NEW b \in Nat, b <= Len(messages)
  PROVE  SubSeq(messages, a, b) \in Seq(Messages) /\ Named(SubSeq(messages, a, b)) \subseteq Named(messages)
         /\ (a <= b => Len(SubSeq(messages, a, b)) = b - a + 1) /\ (a > b => Len(SubSeq(messages, a, b)) = 0)
<1> DEFINE p == SubSeq(messages, a, b)
<1>1. \A i \in a .. b : messages[i] \in Messages
  OBVIOUS
<1>2. /\ p \in Seq(Messages) /\ Len(p) = IF a <= b THEN b - a + 1 ELSE 0
      /\ \A i \in 1 .. b - a + 1 : p[i] = messages[a + i - 1]
  BY <1>1, SubSeqProperties
<1>3. DOMAIN p = 1 .. Len(p) /\ DOMAIN messages = 1 .. Len(messages) /\ Len(messages) \in Nat
  BY <1>2
<1>4. \A n \in DOMAIN p : a + n - 1 \in DOMAIN messages /\ p[n] = messages[a + n - 1]
  BY <1>2, <1>3
<1> HIDE DEF p
<1>5. Named(p) \subseteq Named(messages)
  BY <1>4 DEF Named
<1>6. a <= b => Len(p) = b - a + 1
  BY <1>2
<1>7. a > b => Len(p) = 0
  BY <1>2
<1> QED BY <1>2, <1>5, <1>6, <1>7 DEF p

\* What a broadcast adds to a connection.
LEMMA SentIs ==
  ASSUME NEW c \in Chefs, NEW m \in Messages, wire[c] \in Seq(Messages), Len(wire[c]) <= MaxWire,
         listed[c] \in Nat
  PROVE  /\ Sent(c, m) \in Seq(Messages) /\ Len(Sent(c, m)) <= MaxWire
         /\ \A n \in DOMAIN Sent(c, m) : Sent(c, m)[n] = m \/ (n \in DOMAIN wire[c] /\ Sent(c, m)[n] = wire[c][n])
<1> DEFINE room == MaxWire - Len(wire[c])
           k == IF listed[c] <= room THEN listed[c] ELSE room
           new == [n \in 1 .. k |-> m]
           all == wire[c] \o new
<1>1. k \in Nat /\ k + Len(wire[c]) <= MaxWire /\ Len(wire[c]) \in Nat
  BY KitchenAssumption
<1> HIDE DEF k
<1>2. new \in Seq(Messages) /\ Len(new) = k /\ \A n \in 1 .. k : new[n] = m
  <2>1. new \in [1 .. k -> Messages]
    OBVIOUS
  <2>2. new \in Seq(Messages)
    <3> HIDE DEF new
    <3> QED BY <1>1, <2>1, SeqDef
  <2>3. DOMAIN new = 1 .. k
    OBVIOUS
  <2>4. \A n \in 1 .. k : new[n] = m
    OBVIOUS
  <2> HIDE DEF new
  <2> QED BY <1>1, <2>2, <2>3, <2>4
<1> HIDE DEF new
<1>3. /\ all \in Seq(Messages) /\ Len(all) = Len(wire[c]) + k
      /\ \A n \in 1 .. Len(wire[c]) + k : all[n] = IF n <= Len(wire[c]) THEN wire[c][n] ELSE new[n - Len(wire[c])]
  BY <1>2, ConcatProperties
<1>4. ASSUME NEW n \in DOMAIN all PROVE all[n] = m \/ (n \in DOMAIN wire[c] /\ all[n] = wire[c][n])
  <2>1. n \in 1 .. Len(wire[c]) + k
    BY <1>3
  <2>2. CASE n <= Len(wire[c])
    <3>1. all[n] = wire[c][n]
      BY <1>3, <2>1, <2>2
    <3>2. n \in DOMAIN wire[c]
      BY <1>1, <2>1, <2>2
    <3> QED BY <3>1, <3>2
  <2>3. CASE ~(n <= Len(wire[c]))
    <3>1. all[n] = new[n - Len(wire[c])]
      BY <1>3, <2>1, <2>3
    <3>2. n - Len(wire[c]) \in 1 .. k
      BY <1>1, <2>1, <2>3
    <3> QED BY <1>2, <3>1, <3>2
  <2> QED BY <2>2, <2>3
<1>5. Sent(c, m) = all
  BY DEF Sent, new, k
<1> HIDE DEF all
<1>6. Len(all) <= MaxWire
  BY <1>1, <1>3
<1> QED BY <1>3, <1>4, <1>5, <1>6

-----------------------------------------------------------------------------
(***************************************************************************)
(* The types of everything.                                                *)
(***************************************************************************)
ScreenTypes ==
  /\ listed \in [Chefs -> 1 .. MaxLogins]
  /\ wire \in [Chefs -> Seq(Messages)] /\ \A c \in Chefs : Len(wire[c]) <= MaxWire
  /\ screen \in [Chefs -> [Items -> Nat]]
  /\ asked \in 0 .. MaxAsked /\ failures \in 0 .. MaxFailures
  /\ stored \subseteq Items
KitchenInv == ScanInv /\ ScreenTypes

\* What a terminal receives comes off the front of its connection.
LEMMA ReceiveIs ==
  ASSUME ScreenTypes, NEW c \in Chefs, NEW n \in 1 .. MaxWire, Receive(c, n)
  PROVE  /\ wire' \in [Chefs -> Seq(Messages)] /\ \A d \in Chefs : Len(wire'[d]) <= MaxWire
         /\ \A d \in Chefs : Named(wire'[d]) \subseteq Named(wire[d])
         /\ screen' \in [Chefs -> [Items -> Nat]]
         /\ \A d \in Chefs : \A i \in Items : screen'[d][i] > 0 => screen[d][i] > 0 \/ i \in Named(wire[d])
<1> DEFINE got == SubSeq(wire[c], 1, n)
           rest == SubSeq(wire[c], n + 1, Len(wire[c]))
           shown == IF Head(got).type = "OK" THEN Populate(screen[c], got) ELSE ApplyAll(screen[c], got)
<1>1. /\ wire[c] \in Seq(Messages) /\ Len(wire[c]) \in Nat /\ n <= Len(wire[c]) /\ n \in Nat \ {0}
      /\ Len(wire[c]) <= MaxWire /\ MaxWire \in Nat
  BY KitchenAssumption DEF ScreenTypes, Receive
<1>2. got \in Seq(Messages) /\ Named(got) \subseteq Named(wire[c])
  BY <1>1, Part
<1>3. n + 1 \in Nat \ {0}
  BY <1>1
<1>4. rest \in Seq(Messages) /\ Named(rest) \subseteq Named(wire[c])
      /\ (n + 1 <= Len(wire[c]) => Len(rest) = Len(wire[c]) - (n + 1) + 1)
      /\ (n + 1 > Len(wire[c]) => Len(rest) = 0)
  BY <1>1, <1>3, Part
<1>5. Len(rest) <= MaxWire
  <2> HIDE DEF rest
  <2> QED BY <1>1, <1>4
<1>6. screen[c] \in [Items -> Nat]
  BY DEF ScreenTypes
<1>7. shown \in [Items -> Nat] /\ \A i \in Items : shown[i] > 0 => screen[c][i] > 0 \/ i \in Named(wire[c])
  <2> HIDE DEF got
  <2>1. CASE Head(got).type = "OK"
    BY <1>2, <2>1, PopulateShows
  <2>2. CASE Head(got).type # "OK"
    BY <1>2, <1>6, <2>2, ApplyAllShows
  <2> QED BY <2>1, <2>2
<1>8. wire' = [wire EXCEPT ![c] = rest] /\ screen' = [screen EXCEPT ![c] = shown]
  BY DEF Receive
<1> HIDE DEF got, rest, shown
<1> QED BY <1>4, <1>5, <1>7, <1>8 DEF ScreenTypes

\* A broadcast sends one message of the thread's to every terminal.
LEMMA BroadcastIs ==
  ASSUME ScanTypes, ScreenTypes, NEW th \in Threads, Broadcast(th)
  PROVE  \E part \in {"before", "after"} : \E m \in job[th][part] :
           /\ m \in Messages /\ (part = "after" => job[th].order = 0)
           /\ job' = [job EXCEPT ![th][part] = @ \ {m}]
           /\ wire' \in [Chefs -> Seq(Messages)]
           /\ \A c \in Chefs : Len(wire'[c]) <= MaxWire
           /\ \A c \in Chefs : \A n \in DOMAIN wire'[c] :
                wire'[c][n] = m \/ (n \in DOMAIN wire[c] /\ wire'[c][n] = wire[c][n])
<1>0. PICK part \in {"before", "after"} : \E m \in job[th][part] :
        /\ part = "after" => job[th].order = 0
        /\ wire' = [c \in Chefs |-> Sent(c, m)]
        /\ job' = [job EXCEPT ![th][part] = @ \ {m}]
  BY DEF Broadcast
<1>1. PICK m \in job[th][part] :
        /\ part = "after" => job[th].order = 0
        /\ wire' = [c \in Chefs |-> Sent(c, m)]
        /\ job' = [job EXCEPT ![th][part] = @ \ {m}]
  BY <1>0
<1>2. m \in Messages
  <2>1. job[th].before \subseteq Messages /\ job[th].after \subseteq Messages
    BY DEF ScanTypes, Jobs
  <2> QED BY <1>1, <2>1
<1>3. ASSUME NEW c \in Chefs
      PROVE  /\ Sent(c, m) \in Seq(Messages) /\ Len(Sent(c, m)) <= MaxWire
             /\ \A n \in DOMAIN Sent(c, m) : Sent(c, m)[n] = m \/ (n \in DOMAIN wire[c] /\ Sent(c, m)[n] = wire[c][n])
  <2>1. wire[c] \in Seq(Messages) /\ Len(wire[c]) <= MaxWire /\ listed[c] \in Nat
    BY KitchenAssumption DEF ScreenTypes
  <2> QED BY <1>2, <2>1, SentIs
<1>4. wire' \in [Chefs -> Seq(Messages)] /\ \A c \in Chefs : wire'[c] = Sent(c, m)
  BY <1>1, <1>3
<1> WITNESS part \in {"before", "after"}
<1> WITNESS m \in job[th][part]
<1> QED BY <1>1, <1>2, <1>3, <1>4

\* What is stored is never forgotten, and names items only.
LEMMA StoredTypes ==
  ASSUME ScreenTypes, Watch
  PROVE  stored \subseteq stored' /\ stored' \subseteq Items
BY DEF Watch, ScreenTypes

\* A dashboard goes to the end of the connection.
LEMMA ScanSendIs ==
  ASSUME ScanTypes, ScreenTypes, NEW c \in Chefs, ScanSend(c)
  PROVE  /\ wire' \in [Chefs -> Seq(Messages)] /\ \A d \in Chefs : Len(wire'[d]) <= MaxWire
         /\ \A d \in Chefs : \A n \in DOMAIN wire'[d] :
              \/ n \in DOMAIN wire[d] /\ wire'[d][n] = wire[d][n]
              \/ d = c /\ wire'[d][n] = Dashboard(scan[c].list)
<1> DEFINE m == Dashboard(scan[c].list)
           longer == Append(wire[c], m)
<1>1. m \in Messages
  BY DEF Dashboard, Messages, ScanTypes, Scans
<1>2. wire[c] \in Seq(Messages) /\ Len(wire[c]) \in Nat /\ Len(wire[c]) < MaxWire /\ MaxWire \in Nat
  BY KitchenAssumption DEF ScreenTypes, ScanSend
<1> HIDE DEF m
<1>3. /\ longer \in Seq(Messages) /\ Len(longer) = Len(wire[c]) + 1 /\ DOMAIN longer = 1 .. Len(wire[c]) + 1
      /\ \A n \in 1 .. Len(wire[c]) : longer[n] = wire[c][n] /\ n \in DOMAIN wire[c]
      /\ longer[Len(wire[c]) + 1] = m
  BY <1>1, <1>2
<1>4. wire' = [wire EXCEPT ![c] = longer]
  BY DEF ScanSend, m
<1> HIDE DEF longer
<1>5. \A n \in DOMAIN longer : longer[n] = m \/ (n \in DOMAIN wire[c] /\ longer[n] = wire[c][n])
  BY <1>2, <1>3
<1>6. Len(longer) <= MaxWire
  BY <1>2, <1>3
<1> QED BY <1>3, <1>4, <1>5, <1>6 DEF ScreenTypes, m

LEMMA ScreenTypesNext == KitchenInv /\ [Next]_vars => ScreenTypes'
<1> SUFFICES ASSUME ScanTypes, ScreenTypes, [Next]_vars PROVE ScreenTypes'
  BY DEF KitchenInv, ScanInv
<1>1. CASE UNCHANGED vars
  BY <1>1 DEF vars, ScreenTypes
<1>2. ASSUME Watch, NEW th \in Threads, Command(th) PROVE ScreenTypes'
  <2>1. \E o \in OrderIds : \E copy, before, after : Work(th, o, copy, before, after)
    BY <1>2 DEF Command, OrderItem, MarkPrepared, GenerateBill, DeleteOrder
  <2>2. UNCHANGED <<listed, wire, screen, failures>>
    BY <2>1 DEF Work
  <2>3. asked' = asked \/ (asked < MaxAsked /\ asked' = asked + 1)
    BY <1>2 DEF Command, OrderItem, MarkPrepared, GenerateBill, DeleteOrder
  <2>4. asked' \in 0 .. MaxAsked
    BY <2>3, KitchenAssumption DEF ScreenTypes
  <2> QED BY <1>2, <2>2, <2>4, StoredTypes DEF ScreenTypes
<1>3. ASSUME Watch, NEW th \in Threads, Write(th) \/ WriteFails(th) PROVE ScreenTypes'
  <2>1. UNCHANGED <<listed, wire, screen, asked>> /\ failures' \in 0 .. MaxFailures
    BY <1>3, KitchenAssumption DEF Write, WriteFails, ScreenTypes
  <2> QED BY <1>3, <2>1, StoredTypes DEF ScreenTypes
<1>9. ASSUME Watch, (\E n \in 1 .. MaxFailures : LateWrite(n)) \/ (\E d \in Dishes : DeleteMenu(d))
      PROVE  ScreenTypes'
  <2>1. UNCHANGED <<listed, wire, screen, asked, failures>>
    BY <1>9 DEF LateWrite, DeleteMenu
  <2> QED BY <1>9, <2>1, StoredTypes DEF ScreenTypes
<1>4. ASSUME Watch, NEW th \in Threads, Broadcast(th) PROVE ScreenTypes'
  <2>1. wire' \in [Chefs -> Seq(Messages)] /\ \A c \in Chefs : Len(wire'[c]) <= MaxWire
    BY <1>4, BroadcastIs
  <2>2. UNCHANGED <<listed, screen, asked, failures>>
    BY <1>4 DEF Broadcast
  <2> QED BY <1>4, <2>1, <2>2, StoredTypes DEF ScreenTypes
<1>5. ASSUME Watch, NEW c \in Chefs, ScanStart(c) \/ ScanOrder(c) \/ ScanDish(c) \/ ScanFails(c)
      PROVE  ScreenTypes'
  <2>1. UNCHANGED <<listed, wire, screen, asked>> /\ failures' \in 0 .. MaxFailures
    <3>1. UNCHANGED <<listed, wire, screen, asked>>
      BY <1>5 DEF ScanStart, ScanOrder, ScanDish, ScanFails
    <3>2. UNCHANGED failures \/ (failures < MaxFailures /\ failures' = failures + 1)
      BY <1>5 DEF ScanStart, ScanOrder, ScanDish, ScanFails
    <3> QED BY <3>1, <3>2, KitchenAssumption DEF ScreenTypes
  <2> QED BY <1>5, <2>1, StoredTypes DEF ScreenTypes
<1>6. ASSUME Watch, NEW c \in Chefs, ScanSend(c) PROVE ScreenTypes'
  <2>1. UNCHANGED <<listed, screen, asked, failures>>
    BY <1>6 DEF ScanSend
  <2> QED BY <1>6, <2>1, ScanSendIs, StoredTypes DEF ScreenTypes
<1>7. ASSUME Watch, NEW c \in Chefs, Listener(c) PROVE ScreenTypes'
  <2>1. UNCHANGED <<listed, asked, failures>>
    BY <1>7 DEF Listener, Receive
  <2> QED BY <1>7, <2>1, ReceiveIs, StoredTypes DEF ScreenTypes, Listener
<1>8. ASSUME Watch, NEW c \in Chefs, LogInAgain(c) PROVE ScreenTypes'
  <2>1. NoItems \in [Items -> Nat] /\ <<>> \in Seq(Messages) /\ Len(<<>>) = 0
    BY DEF NoItems
  <2>2. listed' \in [Chefs -> 1 .. MaxLogins]
    BY <1>8, KitchenAssumption DEF LogInAgain, ScreenTypes
  <2>3. /\ wire' = [wire EXCEPT ![c] = <<>>] /\ screen' = [screen EXCEPT ![c] = NoItems]
        /\ UNCHANGED <<asked, failures>>
    BY <1>8 DEF LogInAgain
  <2>4. wire' \in [Chefs -> Seq(Messages)] /\ screen' \in [Chefs -> [Items -> Nat]]
    BY <2>1, <2>3 DEF ScreenTypes
  <2>5. \A d \in Chefs : Len(wire'[d]) <= MaxWire
    <3>1. \A d \in Chefs : wire'[d] = <<>> \/ wire'[d] = wire[d]
      BY <2>3 DEF ScreenTypes
    <3> QED BY <2>1, <3>1, KitchenAssumption DEF ScreenTypes
  <2> QED BY <1>8, <2>2, <2>3, <2>4, <2>5, StoredTypes DEF ScreenTypes
<1> QED BY <1>1, <1>2, <1>3, <1>4, <1>5, <1>6, <1>7, <1>8, <1>9 DEF Next, Step, Scan

LEMMA KitchenInvInit == Init => KitchenInv
<1> SUFFICES ASSUME Init PROVE KitchenInv
  OBVIOUS
<1>1. ScanTypes
  <2>1. NewOrder \in OrderType
    BY KitchenAssumption DEF NewOrder, OrderType
  <2>2. NoJob \in Jobs /\ NoLate \in Lates /\ NoScan \in Scans
    BY KitchenAssumption DEF NoJob, Jobs, NoLate, Lates, NoScan, Scans
  <2> QED BY <2>1, <2>2 DEF Init, ScanTypes
<1>2. DashboardRegular
  BY DEF Init, DashboardRegular
<1>3. ScreenTypes
  <2>1. NoItems \in [Items -> Nat] /\ <<>> \in Seq(Messages) /\ Len(<<>>) = 0
    BY DEF NoItems
  <2> QED BY <2>1, KitchenAssumption DEF Init, ScreenTypes
<1> QED BY <1>1, <1>2, <1>3 DEF KitchenInv, ScanInv

LEMMA KitchenInvNext == KitchenInv /\ [Next]_vars => KitchenInv'
<1>1. KitchenInv => failures \in 0 .. MaxFailures
  BY DEF KitchenInv, ScreenTypes
<1> QED BY <1>1, ScanInvNext, ScreenTypesNext DEF KitchenInv

\* send_chef_dashboard misses no item that was to cook from its first read to its
\* last, although it reads the orders one after the other and their dishes one by
\* one: what it leaves out is what an admin has taken off the menu.
THEOREM DashboardsComplete == Spec => []DashboardRegular
<1>1. KitchenInv => DashboardRegular
  BY DEF KitchenInv, ScanInv
<1> QED BY <1>1, KitchenInvInit, KitchenInvNext, PTL DEF Spec

\* The shape of the state: above all, no terminal's connection ever holds more
\* than its socket buffer has room for, because broadcast_to_chefs drops what
\* does not fit, and item_count of a terminal never goes below zero.
THEOREM KitchenTypeCorrect == Spec => []TypeOK
<1>1. KitchenInv => TypeOK
  <2> SUFFICES ASSUME KitchenInv PROVE TypeOK
    OBVIOUS
  <2>1. \A th \in Threads : job[th] \in Jobs
    BY DEF KitchenInv, ScanInv, ScanTypes
  <2>2. \A th \in Threads :
          /\ job[th].order \in {0} \cup OrderIds /\ job[th].copy \in OrderType \cup {Absent}
          /\ job[th].before \subseteq Messages /\ job[th].after \subseteq Messages
    BY <2>1 DEF Jobs
  <2> QED BY <2>2 DEF KitchenInv, ScanInv, ScanTypes, ScreenTypes, TypeOK, Lates, Scans
<1> QED BY <1>1, KitchenInvInit, KitchenInvNext, PTL DEF Spec

-----------------------------------------------------------------------------
(***************************************************************************)
(* Where the items come from.  An update of an item that is not in the     *)
(* database yet is told after the write only, and then the write has put   *)
(* it there.                                                               *)
(***************************************************************************)
\* The orders' items are stored, and an order has only items of its own pending.
OrdersFit ==
  \A o \in OrderIds : orders[o] # Absent =>
    /\ orders[o].pending \subseteq 1 .. orders[o].items
    /\ \A k \in 1 .. orders[o].items : <<o, k>> \in stored

\* A thread's copy has only items of its own pending, and the thread's updates
\* name stored items, or items its write will store.
JobFits(th) ==
  LET j == job[th] IN
  /\ j.copy # Absent => j.copy.pending \subseteq 1 .. j.copy.items
  /\ \A m \in j.before : m.type # "OK" /\ m.item \in stored
  /\ \A m \in j.after :
       /\ m.type # "OK"
       /\ \/ m.item \in stored
          \/ j.order # 0 /\ j.copy # Absent /\ m.item[1] = j.order /\ m.item[2] <= j.copy.items
JobsFit == \A th \in Threads : JobFits(th)

\* What the terminals show, what they are sent and what is collected for them.
SeenIs ==
  /\ \A c \in Chefs : \A i \in Items : screen[c][i] > 0 => i \in stored
  /\ \A c \in Chefs : scan[c].list \subseteq stored /\ \A i \in scan[c].todo : Item(i) \in stored
  /\ \A c \in Chefs : \A n \in DOMAIN wire[c] :
       IF wire[c][n].type = "OK" THEN wire[c][n].list \subseteq stored ELSE wire[c][n].item \in stored

\* A write that comes late fits, too.
LateFits == \A n \in 1 .. MaxFailures : late[n].copy # Absent => late[n].copy.pending \subseteq 1 .. late[n].copy.items
InventInv == KitchenInv /\ OrdersFit /\ JobsFit /\ LateFits /\ SeenIs

\* The messages of a connection are about stored items when the items they name are.
LEMMA NamedStored ==
  ASSUME NEW S, NEW messages
  PROVE  (\A n \in DOMAIN messages : IF messages[n].type = "OK" THEN messages[n].list \subseteq S
                                     ELSE messages[n].item \in S)
         <=> Named(messages) \subseteq S
<1>1. ASSUME \A n \in DOMAIN messages : IF messages[n].type = "OK" THEN messages[n].list \subseteq S
                                        ELSE messages[n].item \in S
      PROVE  Named(messages) \subseteq S
  BY <1>1 DEF Named
<1>2. ASSUME Named(messages) \subseteq S, NEW n \in DOMAIN messages
      PROVE  IF messages[n].type = "OK" THEN messages[n].list \subseteq S ELSE messages[n].item \in S
  <2>1. (IF messages[n].type = "OK" THEN messages[n].list ELSE {messages[n].item}) \subseteq Named(messages)
    BY DEF Named
  <2>2. CASE messages[n].type = "OK"
    BY <1>2, <2>1, <2>2
  <2>3. CASE messages[n].type # "OK"
    BY <1>2, <2>1, <2>3
  <2> QED BY <2>2, <2>3
<1> QED BY <1>1, <1>2

\* An order that is written is stored.
LEMMA WatchStores ==
  ASSUME Watch, NEW o \in OrderIds, orders'[o] # Absent, orders'[o] \in OrderType
  PROVE  \A k \in 1 .. orders'[o].items : <<o, k>> \in stored'
<1> SUFFICES ASSUME NEW k \in 1 .. orders'[o].items PROVE <<o, k>> \in stored'
  OBVIOUS
<1>1. k \in 1 .. MaxOrderItems
  BY KitchenAssumption DEF OrderType
<1>2. <<o, k>> \in Items /\ <<o, k>>[1] = o /\ <<o, k>>[2] = k /\ k <= orders'[o].items
  BY <1>1 DEF Items
<1> QED BY <1>2 DEF Watch

\* Orders stay fitting when what is written fits.
LEMMA OrdersFitNext ==
  ASSUME InventInv, Watch, orders' \in [OrderIds -> OrderType \cup {Absent}],
         \A o \in OrderIds : orders'[o] # Absent => orders'[o].pending \subseteq 1 .. orders'[o].items
  PROVE  OrdersFit'
<1>1. \A o \in OrderIds : orders'[o] # Absent => orders'[o] \in OrderType
  OBVIOUS
<1> QED BY <1>1, WatchStores DEF OrdersFit

\* What was stored stays stored, so what does not change stays fitting.
LEMMA JobKept ==
  ASSUME NEW th \in Threads, JobFits(th), job'[th] = job[th], stored \subseteq stored'
  PROVE  JobFits(th)'
BY DEF JobFits

LEMMA SeenKept ==
  ASSUME SeenIs, UNCHANGED <<screen, scan, wire>>, stored \subseteq stored'
  PROVE  SeenIs'
BY DEF SeenIs, Item

\* What a thread wants to write, when it begins.
LEMMA WorkFits ==
  ASSUME InventInv, Watch, NEW th \in Threads, NEW o \in OrderIds, NEW copy, NEW before, NEW after,
         Work(th, o, copy, before, after),
         copy # Absent => copy.pending \subseteq 1 .. copy.items,
         \A m \in before : m.type # "OK" /\ m.item \in stored,
         \A m \in after : /\ m.type # "OK"
                          /\ m.item \in stored \/ (copy # Absent /\ m.item[1] = o /\ m.item[2] <= copy.items)
  PROVE  OrdersFit' /\ JobsFit' /\ SeenIs'
<1>1. UNCHANGED <<orders, scan, wire, screen>>
  BY DEF Work
<1>2. stored \subseteq stored'
  BY StoredTypes DEF InventInv, KitchenInv
<1>3. OrdersFit'
  BY <1>1, OrdersFitNext DEF InventInv, OrdersFit, KitchenInv, ScanInv, ScanTypes
<1>4. job' = [job EXCEPT ![th] = [order |-> o, copy |-> copy, before |-> before, after |-> after]]
  BY DEF Work
<1>5. job'[th] = [order |-> o, copy |-> copy, before |-> before, after |-> after]
  BY <1>4 DEF InventInv, KitchenInv, ScanInv, ScanTypes
<1>6. o # 0
  BY DEF OrderIds
<1>7. JobFits(th)'
  BY <1>2, <1>5, <1>6 DEF JobFits
<1>8. \A t \in Threads \ {th} : job'[t] = job[t]
  BY <1>4
<1>9. JobsFit'
  BY <1>2, <1>7, <1>8, JobKept DEF InventInv, JobsFit
<1> QED BY <1>1, <1>2, <1>3, <1>9, SeenKept DEF InventInv

LEMMA CommandInvents ==
  ASSUME InventInv, Watch, NEW th \in Threads, Command(th)
  PROVE  OrdersFit' /\ JobsFit' /\ SeenIs'
<1> USE KitchenAssumption
<1>0. \A o \in OrderIds : orders[o] # Absent =>
        /\ orders[o] \in OrderType /\ orders[o].items \in Nat
        /\ orders[o].pending \subseteq 1 .. orders[o].items
        /\ \A k \in 1 .. orders[o].items : <<o, k>> \in stored
  BY DEF InventInv, KitchenInv, ScanInv, ScanTypes, OrdersFit, OrderType
<1>1. ASSUME NEW o \in OrderIds, NEW d \in Dishes, OrderItem(th, o, d) PROVE OrdersFit' /\ JobsFit' /\ SeenIs'
  <2> DEFINE k == orders[o].items + 1
             copy == WithItem(o, k, d)
             after == {Update(o, k, "PENDING")}
  <2>1. Work(th, o, copy, {}, after) /\ orders[o] # Absent /\ orders[o].items < MaxOrderItems
    BY <1>1 DEF OrderItem
  <2>2. k \in 1 .. MaxOrderItems /\ orders[o].items \in Nat
    BY <1>0, <2>1 DEF OrderType
  <2>3. copy \in OrderType /\ copy.items = k /\ copy.pending = orders[o].pending \cup {k}
    BY <1>0, <2>1, <2>2, WithItemIs
  <2>4. copy # Absent
    BY <2>3
  <2> HIDE DEF copy
  <2>5. copy.pending \subseteq 1 .. copy.items
    BY <1>0, <2>1, <2>2, <2>3
  <2>6. \A m \in after : m.type # "OK" /\ m.item[1] = o /\ m.item[2] <= copy.items
    BY <2>2, <2>3 DEF Update
  <2> HIDE DEF after, k
  <2> QED BY <2>1, <2>4, <2>5, <2>6, WorkFits
<1>2. ASSUME NEW o \in OrderIds, NEW k \in 1 .. MaxOrderItems, MarkPrepared(th, o, k)
      PROVE  OrdersFit' /\ JobsFit' /\ SeenIs'
  <2> DEFINE copy == [orders[o] EXCEPT !.pending = @ \ {k}]
             after == {Update(o, k, "PREPARED")}
  <2>1. Work(th, o, copy, {}, after) /\ orders[o] # Absent /\ k <= orders[o].items
    BY <1>2 DEF MarkPrepared
  <2>2. copy.pending \subseteq 1 .. copy.items
    BY <1>0, <2>1 DEF OrderType
  <2>3. \A m \in after : m.type # "OK" /\ m.item \in stored
    BY <1>0, <2>1 DEF Update
  <2> HIDE DEF copy, after
  <2> QED BY <2>1, <2>2, <2>3, WorkFits
<1>3. ASSUME NEW o \in OrderIds, GenerateBill(th, o) \/ DeleteOrder(th, o)
      PROVE  OrdersFit' /\ JobsFit' /\ SeenIs'
  <2>1. orders[o] # Absent
    BY <1>3 DEF GenerateBill, DeleteOrder
  <2>2. \A m \in AllPrepared(o) : m.type # "OK" /\ m.item \in stored
    BY <1>0, <2>1 DEF AllPrepared, Update
  <2> DEFINE copy == [orders[o] EXCEPT !.pending = {}, !.billed = TRUE]
  <2>3. copy.pending \subseteq 1 .. copy.items
    BY <1>0, <2>1 DEF OrderType
  <2>4. Work(th, o, copy, AllPrepared(o), {}) \/ Work(th, o, Absent, AllPrepared(o), {})
    BY <1>3 DEF GenerateBill, DeleteOrder
  <2> HIDE DEF copy
  <2> QED BY <2>2, <2>3, <2>4, WorkFits
<1> QED BY <1>1, <1>2, <1>3 DEF Command

LEMMA WriteInvents ==
  ASSUME InventInv, Watch, NEW th \in Threads, Write(th)
  PROVE  OrdersFit' /\ JobsFit' /\ SeenIs'
<1> DEFINE o == job[th].order
<1>1. /\ job[th] \in Jobs /\ o \in OrderIds /\ o # 0 /\ UNCHANGED <<scan, wire, screen>>
      /\ job \in [Threads -> Jobs] /\ orders \in [OrderIds -> OrderType \cup {Absent}]
  BY DEF Write, InventInv, KitchenInv, ScanInv, ScanTypes, Jobs
<1>2. stored \subseteq stored'
  BY StoredTypes DEF InventInv, KitchenInv
<1>3. JobFits(th)
  BY DEF InventInv, JobsFit
<1>4. SeenIs'
  BY <1>1, <1>2, SeenKept DEF InventInv
<1>5. orders' \in [OrderIds -> OrderType \cup {Absent}]
  BY WriteTypes DEF InventInv, KitchenInv, ScanInv
<1>6. \A t \in Threads \ {th} : job'[t] = job[t]
  BY <1>1 DEF Write
<1> SUFFICES OrdersFit' /\ JobFits(th)'
  BY <1>2, <1>4, <1>6, JobKept DEF InventInv, JobsFit
<1>7. CASE /\ orders' = [orders EXCEPT ![o] = job[th].copy]
           /\ job' = [job EXCEPT ![th] = [NoJob EXCEPT !.after = job[th].after]]
  <2>1. orders'[o] = job[th].copy /\ \A p \in OrderIds \ {o} : orders'[p] = orders[p]
    BY <1>1, <1>7
  <2>2. OrdersFit'
    BY <1>3, <1>5, <2>1, OrdersFitNext DEF JobFits, InventInv, OrdersFit
  <2>3. job'[th] = [order |-> 0, copy |-> Absent, before |-> {}, after |-> job[th].after]
    BY <1>1, <1>7 DEF NoJob
  <2>4. ASSUME NEW m \in job[th].after PROVE m.type # "OK" /\ m.item \in stored'
    <3>1. m.type # "OK" /\ m \in Messages
      BY <1>1, <1>3 DEF JobFits, Jobs
    <3>2. CASE m.item \in stored
      BY <1>2, <3>1, <3>2
    <3>3. CASE job[th].copy # Absent /\ m.item[1] = o /\ m.item[2] <= job[th].copy.items
      <4>1. m.item \in Items
        BY <3>1 DEF Messages
      <4>2. m.item[2] \in 1 .. job[th].copy.items /\ m.item = <<o, m.item[2]>>
        BY <1>1, <3>3, <4>1, KitchenAssumption DEF Items, Jobs, OrderType
      <4>3. <<o, m.item[2]>> \in stored'
        BY <1>1, <2>1, <2>2, <3>3, <4>2 DEF OrdersFit
      <4> QED BY <3>1, <4>2, <4>3
    <3> QED BY <1>3, <3>2, <3>3 DEF JobFits
  <2>5. JobFits(th)'
    BY <2>3, <2>4 DEF JobFits
  <2> QED BY <2>2, <2>5
<1>8. CASE orders' = orders /\ job' = [job EXCEPT ![th] = NoJob]
  <2>1. OrdersFit'
    BY <1>5, <1>8, OrdersFitNext DEF InventInv, OrdersFit
  <2>2. job'[th] = [order |-> 0, copy |-> Absent, before |-> {}, after |-> {}]
    BY <1>1, <1>8 DEF NoJob
  <2>3. JobFits(th)'
    BY <2>2 DEF JobFits
  <2> QED BY <2>1, <2>3
<1> QED BY <1>7, <1>8 DEF Write

LEMMA WriteFailsInvents ==
  ASSUME InventInv, Watch, NEW th \in Threads, WriteFails(th)
  PROVE  OrdersFit' /\ JobsFit' /\ SeenIs' /\ LateFits'
<1>1. UNCHANGED <<orders, scan, wire, screen>> /\ job' = [job EXCEPT ![th] = NoJob]
  BY DEF WriteFails
<1>2. /\ orders \in [OrderIds -> OrderType \cup {Absent}] /\ job \in [Threads -> Jobs]
      /\ late \in [1 .. MaxFailures -> Lates] /\ stored \subseteq stored'
  BY StoredTypes DEF InventInv, KitchenInv, ScanInv, ScanTypes
<1>3. OrdersFit'
  BY <1>1, <1>2, OrdersFitNext DEF InventInv, OrdersFit
<1>4. job'[th] = NoJob /\ \A t \in Threads \ {th} : job'[t] = job[t]
  BY <1>1, <1>2
<1>5. JobFits(th)'
  BY <1>4 DEF JobFits, NoJob
<1>6. JobsFit'
  BY <1>2, <1>4, <1>5, JobKept DEF InventInv, JobsFit
<1>7. LateFits'
  <2>1. job[th].copy # Absent => job[th].copy.pending \subseteq 1 .. job[th].copy.items
    BY DEF InventInv, JobsFit, JobFits
  <2>2. \A n \in 1 .. MaxFailures : late'[n] = late[n] \/ late'[n] = [order |-> job[th].order, copy |-> job[th].copy]
    BY <1>2 DEF WriteFails
  <2> QED BY <2>1, <2>2 DEF InventInv, LateFits
<1> QED BY <1>1, <1>2, <1>3, <1>6, <1>7, SeenKept DEF InventInv

LEMMA LateWriteInvents ==
  ASSUME InventInv, Watch, NEW n \in 1 .. MaxFailures, LateWrite(n)
  PROVE  OrdersFit' /\ JobsFit' /\ SeenIs' /\ LateFits'
<1>1. UNCHANGED <<job, scan, wire, screen>> /\ late' = [late EXCEPT ![n] = NoLate]
  BY DEF LateWrite
<1>2. /\ orders \in [OrderIds -> OrderType \cup {Absent}] /\ late \in [1 .. MaxFailures -> Lates]
      /\ orders' \in [OrderIds -> OrderType \cup {Absent}] /\ stored \subseteq stored'
  BY StoredTypes, LateWriteTypes DEF InventInv, KitchenInv, ScanInv, ScanTypes
<1>3. \A o \in OrderIds : orders'[o] = orders[o] \/ orders'[o] = late[n].copy
  BY <1>2 DEF LateWrite
<1>4. OrdersFit'
  BY <1>2, <1>3, OrdersFitNext DEF InventInv, OrdersFit, LateFits
<1>5. JobsFit'
  BY <1>1, <1>2, JobKept DEF InventInv, JobsFit
<1>6. LateFits'
  <2>1. \A m \in 1 .. MaxFailures : late'[m] = late[m] \/ late'[m] = NoLate
    BY <1>1, <1>2
  <2> QED BY <2>1 DEF InventInv, LateFits, NoLate
<1> QED BY <1>1, <1>2, <1>4, <1>5, <1>6, SeenKept DEF InventInv

LEMMA BroadcastInvents ==
  ASSUME InventInv, Watch, NEW th \in Threads, Broadcast(th)
  PROVE  OrdersFit' /\ JobsFit' /\ SeenIs'
<1>1. stored \subseteq stored' /\ UNCHANGED <<orders, scan, screen>>
  BY StoredTypes DEF InventInv, KitchenInv, Broadcast
<1>2. OrdersFit'
  BY <1>1, OrdersFitNext DEF InventInv, OrdersFit, KitchenInv, ScanInv, ScanTypes
<1>3. JobFits(th)
  BY DEF InventInv, JobsFit
<1>4. job \in [Threads -> Jobs] /\ job[th] \in Jobs
  BY DEF InventInv, KitchenInv, ScanInv, ScanTypes
<1>5. PICK part \in {"before", "after"} : \E m \in job[th][part] :
        /\ m \in Messages /\ (part = "after" => job[th].order = 0)
        /\ job' = [job EXCEPT ![th][part] = @ \ {m}]
        /\ wire' \in [Chefs -> Seq(Messages)]
        /\ \A c \in Chefs : \A n \in DOMAIN wire'[c] :
             wire'[c][n] = m \/ (n \in DOMAIN wire[c] /\ wire'[c][n] = wire[c][n])
  BY BroadcastIs DEF InventInv, KitchenInv, ScanInv
<1>6. PICK m \in job[th][part] :
        /\ m \in Messages /\ (part = "after" => job[th].order = 0)
        /\ job' = [job EXCEPT ![th][part] = @ \ {m}]
        /\ \A c \in Chefs : \A n \in DOMAIN wire'[c] :
             wire'[c][n] = m \/ (n \in DOMAIN wire[c] /\ wire'[c][n] = wire[c][n])
  BY <1>5
<1>7. m.type # "OK" /\ m.item \in stored
  <2>1. CASE part = "before"
    BY <1>3, <1>6, <2>1 DEF JobFits
  <2>2. CASE part = "after"
    BY <1>3, <1>6, <2>2 DEF JobFits
  <2> QED BY <2>1, <2>2
<1>8. SeenIs'
  <2>1. ASSUME NEW c \in Chefs, NEW n \in DOMAIN wire'[c]
        PROVE  IF wire'[c][n].type = "OK" THEN wire'[c][n].list \subseteq stored' ELSE wire'[c][n].item \in stored'
    <3>1. CASE wire'[c][n] = m
      BY <1>1, <1>7, <3>1
    <3>2. CASE n \in DOMAIN wire[c] /\ wire'[c][n] = wire[c][n]
      BY <1>1, <3>2 DEF InventInv, SeenIs
    <3> QED BY <1>6, <3>1, <3>2
  <2> QED BY <1>1, <2>1 DEF InventInv, SeenIs
<1>9. JobsFit'
  <2>1. \A t \in Threads \ {th} : job'[t] = job[t]
    BY <1>6
  <2>2. /\ job'[th].order = job[th].order /\ job'[th].copy = job[th].copy
        /\ job'[th].before \subseteq job[th].before /\ job'[th].after \subseteq job[th].after
    <3>1. CASE part = "before"
      <4>1. job' = [job EXCEPT ![th] = [job[th] EXCEPT !.before = @ \ {m}]]
        BY <1>4, <1>6, <3>1
      <4> QED BY <1>4, <4>1 DEF Jobs
    <3>2. CASE part = "after"
      <4>1. job' = [job EXCEPT ![th] = [job[th] EXCEPT !.after = @ \ {m}]]
        BY <1>4, <1>6, <3>2
      <4> QED BY <1>4, <4>1 DEF Jobs
    <3> QED BY <3>1, <3>2
  <2>3. JobFits(th)'
    BY <1>1, <1>3, <2>2 DEF JobFits
  <2> QED BY <1>1, <2>1, <2>3, JobKept DEF InventInv, JobsFit
<1> QED BY <1>2, <1>8, <1>9

\* What a chef's thread or terminal does leaves the orders and the jobs alone.
LEMMA OthersFit ==
  ASSUME InventInv, Watch, UNCHANGED <<orders, job>>
  PROVE  OrdersFit' /\ JobsFit' /\ stored \subseteq stored'
<1>1. stored \subseteq stored'
  BY StoredTypes DEF InventInv, KitchenInv
<1>2. OrdersFit'
  BY OrdersFitNext DEF InventInv, OrdersFit, KitchenInv, ScanInv, ScanTypes
<1>3. JobsFit'
  BY <1>1, JobKept DEF InventInv, JobsFit
<1> QED BY <1>1, <1>2, <1>3

LEMMA DeleteMenuInvents ==
  ASSUME InventInv, Watch, NEW d \in Dishes, DeleteMenu(d)
  PROVE  OrdersFit' /\ JobsFit' /\ SeenIs'
<1>1. UNCHANGED <<orders, job, scan, wire, screen>>
  BY DEF DeleteMenu
<1> QED BY <1>1, OthersFit, SeenKept DEF InventInv

LEMMA ScanInvents ==
  ASSUME InventInv, Watch, NEW c \in Chefs, ScanSteps(c)
  PROVE  OrdersFit' /\ JobsFit' /\ SeenIs'
<1>0. ScanTypes /\ ScreenTypes
  BY DEF InventInv, KitchenInv, ScanInv
<1>1. UNCHANGED <<orders, job, screen>> /\ \A d \in Chefs \ {c} : scan'[d] = scan[d]
  BY <1>0, ScanMoves
<1>2. OrdersFit' /\ JobsFit' /\ stored \subseteq stored'
  BY <1>1, OthersFit
<1>3. scan \in [Chefs -> Scans] /\ scan[c] \in Scans
  BY <1>0 DEF ScanTypes
<1>4. ASSUME NEW o \in OrderIds, NEW i \in Unprepared(o) PROVE Item(i) \in stored
  <2>1. orders[o] # Absent
    BY DEF Unprepared
  <2>2. PICK k \in orders[o].pending : i = <<o, k, orders[o].dish[k]>>
    BY <2>1 DEF Unprepared
  <2>3. k \in 1 .. orders[o].items /\ Item(i) = <<o, k>>
    BY <2>1, <2>2 DEF InventInv, OrdersFit, Item
  <2> QED BY <2>1, <2>3 DEF InventInv, OrdersFit
<1>5. scan[c].list \subseteq stored /\ \A i \in scan[c].todo : Item(i) \in stored
  BY DEF InventInv, SeenIs
<1>6. scan'[c].list \subseteq stored /\ \A i \in scan'[c].todo : Item(i) \in stored
  <2>1. ASSUME scan'[c] = NoScan PROVE scan'[c].list \subseteq stored /\ scan'[c].todo = {}
    BY <2>1 DEF NoScan
  <2>2. CASE ScanStart(c)
    <3>1. scan'[c] = [scan[c] EXCEPT !.order = 1]
      BY <1>3, <2>2 DEF ScanStart
    <3>2. scan'[c].list = scan[c].list /\ scan'[c].todo = scan[c].todo
      BY <1>3, <3>1 DEF Scans
    <3> QED BY <1>5, <3>2
  <2>3. CASE ScanOrder(c)
    <3> DEFINE o == scan[c].order
    <3>1. scan'[c] = [order |-> o + 1, todo |-> Unprepared(o), list |-> scan[c].list] /\ o \in OrderIds
      BY <1>3, <2>3 DEF ScanOrder
    <3>2. scan'[c].list = scan[c].list /\ scan'[c].todo = Unprepared(o)
      BY <1>3, <3>1 DEF Scans
    <3> QED BY <1>4, <1>5, <3>1, <3>2
  <2>4. CASE ScanDish(c)
    <3>1. PICK i \in scan[c].todo :
            scan' = [scan EXCEPT ![c] = [order |-> scan[c].order, todo |-> scan[c].todo \ {i},
                     list |-> scan[c].list \cup (IF i[3] \in menu THEN {Item(i)} ELSE {})]]
      BY <2>4 DEF ScanDish
    <3>2. scan'[c].todo = scan[c].todo \ {i} /\ scan'[c].list \subseteq scan[c].list \cup {Item(i)}
      BY <1>3, <3>1 DEF Scans
    <3> QED BY <1>5, <3>1, <3>2
  <2>5. CASE ScanSend(c)
    <3>1. scan'[c] = NoScan
      BY <1>3, <2>5 DEF ScanSend
    <3> QED BY <2>1, <3>1
  <2>6. CASE ScanFails(c)
    <3>1. CASE scan' = [scan EXCEPT ![c] = NoScan]
      <4>1. scan'[c] = NoScan
        BY <1>3, <3>1
      <4> QED BY <2>1, <4>1
    <3>2. ASSUME NEW i \in scan[c].todo, scan' = [scan EXCEPT ![c].todo = @ \ {i}]
          PROVE  scan'[c].list = scan[c].list /\ scan'[c].todo \subseteq scan[c].todo
      <4>1. scan' = [scan EXCEPT ![c] = [scan[c] EXCEPT !.todo = @ \ {i}]]
        BY <3>2
      <4> QED BY <1>3, <4>1 DEF Scans
    <3> QED BY <1>5, <2>6, <3>1, <3>2 DEF ScanFails
  <2> QED BY <2>2, <2>3, <2>4, <2>5, <2>6 DEF ScanSteps
<1>7. ASSUME NEW d \in Chefs, NEW n \in DOMAIN wire'[d]
      PROVE  IF wire'[d][n].type = "OK" THEN wire'[d][n].list \subseteq stored ELSE wire'[d][n].item \in stored
  <2>1. CASE n \in DOMAIN wire[d] /\ wire'[d][n] = wire[d][n]
    BY <2>1 DEF InventInv, SeenIs
  <2>2. CASE ScanSend(c) /\ wire'[d][n] = Dashboard(scan[c].list)
    BY <2>2 DEF InventInv, SeenIs, Dashboard
  <2>3. CASE ScanSend(c)
    BY <2>1, <2>2, <2>3, ScanSendIs DEF InventInv, KitchenInv, ScanInv
  <2>4. CASE ~ScanSend(c)
    <3>1. wire' = wire
      BY <2>4 DEF ScanSteps, ScanStart, ScanOrder, ScanDish, ScanFails
    <3> QED BY <2>1, <3>1
  <2> QED BY <2>3, <2>4
<1>8. SeenIs'
  <2>1. \A d \in Chefs : scan'[d].list \subseteq stored' /\ \A i \in scan'[d].todo : Item(i) \in stored'
    BY <1>1, <1>2, <1>6 DEF InventInv, SeenIs
  <2>2. ASSUME NEW d \in Chefs, NEW n \in DOMAIN wire'[d]
        PROVE  IF wire'[d][n].type = "OK" THEN wire'[d][n].list \subseteq stored' ELSE wire'[d][n].item \in stored'
    BY <1>2, <1>7
  <2> QED BY <1>1, <1>2, <2>1, <2>2 DEF InventInv, SeenIs, Item
<1> QED BY <1>2, <1>8

LEMMA TerminalInvents ==
  ASSUME InventInv, Watch, NEW c \in Chefs, Listener(c) \/ LogInAgain(c)
  PROVE  OrdersFit' /\ JobsFit' /\ SeenIs'
<1>1. UNCHANGED <<orders, job, scan>>
  BY DEF Listener, Receive, LogInAgain
<1>2. OrdersFit' /\ JobsFit' /\ stored \subseteq stored'
  BY <1>1, OthersFit
<1>3. \A d \in Chefs : Named(wire[d]) \subseteq stored
  BY NamedStored DEF InventInv, SeenIs
<1>4. /\ \A d \in Chefs : Named(wire'[d]) \subseteq stored'
      /\ \A d \in Chefs : \A i \in Items : screen'[d][i] > 0 => i \in stored'
  <2>1. CASE Listener(c)
    <3>1. /\ \A d \in Chefs : Named(wire'[d]) \subseteq Named(wire[d])
          /\ \A d \in Chefs : \A i \in Items : screen'[d][i] > 0 => screen[d][i] > 0 \/ i \in Named(wire[d])
      BY <2>1, ReceiveIs DEF Listener, InventInv, KitchenInv
    <3> QED BY <1>2, <1>3, <3>1 DEF InventInv, SeenIs
  <2>2. CASE LogInAgain(c)
    <3>1. /\ wire' = [wire EXCEPT ![c] = <<>>] /\ screen' = [screen EXCEPT ![c] = NoItems]
          /\ wire \in [Chefs -> Seq(Messages)] /\ screen \in [Chefs -> [Items -> Nat]]
      BY <2>2 DEF LogInAgain, InventInv, KitchenInv, ScreenTypes
    <3>2. Named(<<>>) = {}
      BY DEF Named
    <3>3. \A d \in Chefs : Named(wire'[d]) \subseteq stored'
      <4>1. \A d \in Chefs : wire'[d] = <<>> \/ wire'[d] = wire[d]
        BY <3>1
      <4> QED BY <1>2, <1>3, <3>2, <4>1
    <3>4. \A d \in Chefs : screen'[d] = NoItems \/ screen'[d] = screen[d]
      BY <3>1
    <3>5. \A i \in Items : ~(NoItems[i] > 0)
      BY DEF NoItems
    <3> QED BY <1>2, <3>3, <3>4, <3>5 DEF InventInv, SeenIs
  <2> QED BY <2>1, <2>2
<1>5. SeenIs'
  <2>1. ASSUME NEW d \in Chefs, NEW n \in DOMAIN wire'[d]
        PROVE  IF wire'[d][n].type = "OK" THEN wire'[d][n].list \subseteq stored' ELSE wire'[d][n].item \in stored'
    BY <1>4, NamedStored
  <2> QED BY <1>1, <1>2, <1>4, <2>1 DEF InventInv, SeenIs
<1> QED BY <1>2, <1>5

LEMMA InventInvNext == InventInv /\ [Next]_vars => InventInv'
<1> SUFFICES ASSUME InventInv, [Next]_vars PROVE OrdersFit' /\ JobsFit' /\ LateFits' /\ SeenIs'
  BY KitchenInvNext DEF InventInv
<1>1. CASE UNCHANGED vars
  BY <1>1 DEF vars, InventInv, OrdersFit, JobsFit, JobFits, LateFits, SeenIs, Item
<1>2. ASSUME UNCHANGED late PROVE LateFits'
  BY <1>2 DEF InventInv, LateFits
<1>3. ASSUME Watch, NEW th \in Threads, Command(th) \/ Write(th) \/ WriteFails(th) \/ Broadcast(th)
      PROVE  OrdersFit' /\ JobsFit' /\ LateFits' /\ SeenIs'
  <2>1. ScanTypes
    BY DEF InventInv, KitchenInv, ScanInv
  <2>2. ~WriteFails(th) => UNCHANGED late
    BY <1>3, <2>1, CommandTypes, WriteTypes, BroadcastTypes
  <2> QED BY <1>2, <1>3, <2>2, CommandInvents, WriteInvents, WriteFailsInvents, BroadcastInvents
<1>4. ASSUME Watch, NEW d \in Dishes, DeleteMenu(d) PROVE OrdersFit' /\ JobsFit' /\ LateFits' /\ SeenIs'
  BY <1>2, <1>4, DeleteMenuInvents DEF DeleteMenu
<1>5. ASSUME Watch, NEW c \in Chefs, ScanSteps(c) PROVE OrdersFit' /\ JobsFit' /\ LateFits' /\ SeenIs'
  <2>1. UNCHANGED late
    BY <1>5, ScanMoves DEF InventInv, KitchenInv, ScanInv
  <2> QED BY <1>2, <1>5, <2>1, ScanInvents
<1>6. ASSUME Watch, NEW c \in Chefs, Listener(c) \/ LogInAgain(c) PROVE OrdersFit' /\ JobsFit' /\ LateFits' /\ SeenIs'
  <2>1. UNCHANGED late
    BY <1>6 DEF Listener, Receive, LogInAgain
  <2> QED BY <1>2, <1>6, <2>1, TerminalInvents
<1> QED BY <1>1, <1>3, <1>4, <1>5, <1>6, LateWriteInvents DEF Next, Step, Scan, ScanSteps

\* No terminal shows, no dashboard lists and no message on its way names an item
\* that was never in an order of the database: order_item, which tells the chefs
\* after its write, tells them nothing when the write fails, and the bill and the
\* deletion, which tell them before, name items of the order they have read.
THEOREM NobodyInvents == Spec => []NothingInvented
<1>1. Init => InventInv
  <2> SUFFICES ASSUME Init PROVE OrdersFit /\ JobsFit /\ LateFits /\ SeenIs
    BY KitchenInvInit DEF InventInv
  <2>1. OrdersFit
    BY DEF Init, OrdersFit, NewOrder
  <2>2. JobsFit
    BY DEF Init, JobsFit, JobFits, NoJob
  <2>3. SeenIs
    BY DEF Init, SeenIs, NoItems, NoScan
  <2>4. LateFits
    BY DEF Init, LateFits, NoLate
  <2> QED BY <2>1, <2>2, <2>3, <2>4
<1>2. InventInv => NothingInvented
  BY DEF InventInv, SeenIs, NothingInvented
<1> QED BY <1>1, <1>2, InventInvNext, PTL DEF Spec
=============================================================================
