------------------------------ MODULE Kitchen ------------------------------
(***************************************************************************)
(* What a chef sees.  A chef's terminal keeps a list of the items to cook, *)
(* and two things feed it over one connection: dashboards, which the       *)
(* chef's thread reads from the database order by order and sends whole,   *)
(* and updates, which a handler broadcasts before or after it writes an    *)
(* order.  Nothing puts the one in order with the other.                   *)
(*   Of the restaurant only orders and the menu are kept: of an order how  *)
(* many items it has, of which dishes, and which are not prepared.  A      *)
(* database call is a step, and a handler writes back the whole copy it    *)
(* has read.                                                               *)
(***************************************************************************)
EXTENDS Integers, FiniteSets, SequencesExt

CONSTANTS
  Handlers,     \* the threads of guests and admins
  Chefs,        \* the chefs' threads
  Dishes,       \* the items that are ever on the menu
  MaxOrders, MaxOrderItems,
  MaxWire,      \* the messages a connection holds before its reader takes them
  MaxLogins,    \* bound on a chef's logins under one descriptor
  MaxAsked,     \* bound on the items guests ask for
  MaxFailures,  \* bound on the calls the database answers with FAILURE
  Absent        \* a deleted order, no dish

OrderType == [items : 0 .. MaxOrderItems, pending : SUBSET (1 .. MaxOrderItems),
              dish : [1 .. MaxOrderItems -> Dishes \cup {Absent}], billed : BOOLEAN]

ASSUME KitchenAssumption ==
  /\ Handlers \cap Chefs = {}
  /\ MaxOrders \in Nat /\ MaxOrderItems \in Nat /\ MaxWire \in Nat \ {0}
  /\ MaxLogins \in Nat \ {0} /\ MaxAsked \in Nat /\ MaxFailures \in Nat
  /\ Absent \notin OrderType

VARIABLES
  orders,    \* the orders file
  menu,      \* the dishes of the menu file
  job,       \* the order a thread is about to write, and its updates for the chefs
  late,      \* the writes told FAILURE that the database has not executed yet
  scan,      \* the dashboard a chef's thread is reading: the next order, the items
             \* of the last one whose dishes it still has to read, the list
  listed,    \* how often a chef's descriptor stands in chef_fds
  wire,      \* what a chef's terminal has been sent and has not received
  screen,    \* how often each item stands in items[] of a chef's terminal
  asked, failures,  \* the items asked for, the calls that failed
  stored,    \* history: the items that have been in an order
  lasting    \* history: the items to cook ever since a chef's scan began

vars == <<orders, menu, job, late, scan, listed, wire, screen, asked, failures, stored, lasting>>

Threads  == Handlers \cup Chefs
OrderIds == 1 .. MaxOrders
Items    == OrderIds \X (1 .. MaxOrderItems)
NoJob    == [order |-> 0, copy |-> Absent, before |-> {}, after |-> {}]
NoLate   == [order |-> 0, copy |-> Absent]
NoScan   == [order |-> 0, todo |-> {}, list |-> {}]
NewOrder == [items |-> 0, pending |-> {}, dish |-> [k \in 1 .. MaxOrderItems |-> Absent], billed |-> FALSE]
NoItems  == [i \in Items |-> 0]

Update(o, k, status) == [type |-> "NEW_UPDATE", item |-> <<o, k>>, status |-> status]
Dashboard(list)      == [type |-> "OK", list |-> list]

\* The items of an order that are not prepared, each with its dish; of all of
\* them those to cook, whose dish is still on the menu.
Unprepared(o) ==
  IF orders[o] = Absent THEN {} ELSE {<<o, k, orders[o].dish[k]>> : k \in orders[o].pending}
Cookable == {i \in UNION {Unprepared(o) : o \in OrderIds} : i[3] \in menu}
Item(i) == <<i[1], i[2]>>
AllPrepared(o) == {Update(o, k, "PREPARED") : k \in orders[o].pending}

-----------------------------------------------------------------------------
\* A thread reads the order when it has finished the command before.
Free(th) == job[th] = NoJob /\ (th \in Chefs => scan[th] = NoScan)
Work(th, o, copy, before, after) ==
  /\ Free(th)
  /\ job' = [job EXCEPT ![th] = [order |-> o, copy |-> copy, before |-> before, after |-> after]]
  /\ UNCHANGED <<orders, menu, late, scan, listed, wire, screen, failures>>

\* An order with one item more, the k-th.
WithItem(o, k, d) == [orders[o] EXCEPT !.items = k, !.pending = @ \cup {k}, !.dish[k] = d]

\* Mutant of OrderItem: it tells the kitchen first.
OrderItemTellsFirst(h, o, d) ==
  /\ asked < MaxAsked /\ asked' = asked + 1
  /\ d \in menu
  /\ orders[o] # Absent /\ orders[o].items < MaxOrderItems
  /\ LET k == orders[o].items + 1 IN Work(h, o, WithItem(o, k, d), {Update(o, k, "PENDING")}, {})

\* order_item, of a dish on the menu, tells the kitchen after the order is
\* written ...
OrderItem(h, o, d) ==
  /\ asked < MaxAsked /\ asked' = asked + 1
  /\ d \in menu
  /\ orders[o] # Absent /\ orders[o].items < MaxOrderItems
  /\ LET k == orders[o].items + 1 IN Work(h, o, WithItem(o, k, d), {}, {Update(o, k, "PENDING")})

\* ... and so does mark_prepared, of an item the chef sees ...
MarkPrepared(c, o, k) ==
  /\ screen[c][<<o, k>>] > 0
  /\ orders[o] # Absent /\ k <= orders[o].items
  /\ Work(c, o, [orders[o] EXCEPT !.pending = @ \ {k}], {}, {Update(o, k, "PREPARED")})
  /\ UNCHANGED asked

\* ... but generate_bill and delete_order before.
GenerateBill(h, o) ==
  /\ orders[o] # Absent /\ ~orders[o].billed
  /\ Work(h, o, [orders[o] EXCEPT !.pending = {}, !.billed = TRUE], AllPrepared(o), {})
  /\ UNCHANGED asked
DeleteOrder(h, o) ==
  /\ orders[o] # Absent
  /\ Work(h, o, Absent, AllPrepared(o), {})
  /\ UNCHANGED asked

\* The database call writes the whole copy, if the order is still there;
\* otherwise nobody is told any more.
Write(th) ==
  LET o == job[th].order IN
  /\ o # 0 /\ job[th].before = {}
  /\ IF orders[o] # Absent
     THEN /\ orders' = [orders EXCEPT ![o] = job[th].copy]
          /\ job' = [job EXCEPT ![th] = [NoJob EXCEPT !.after = job[th].after]]
     ELSE job' = [job EXCEPT ![th] = NoJob] /\ UNCHANGED orders
  /\ UNCHANGED <<menu, late, scan, listed, wire, screen, asked, failures>>

\* A call that answers FAILURE was not sent, or was sent and is executed later.
WriteFails(th) ==
  /\ job[th].order # 0 /\ job[th].before = {}
  /\ failures < MaxFailures /\ failures' = failures + 1
  /\ \/ UNCHANGED late
     \/ late' = [late EXCEPT ![failures'] = [order |-> job[th].order, copy |-> job[th].copy]]
  /\ job' = [job EXCEPT ![th] = NoJob]
  /\ UNCHANGED <<orders, menu, scan, listed, wire, screen, asked>>
LateWrite(n) ==
  LET o == late[n].order IN
  /\ o # 0
  /\ orders' = IF orders[o] = Absent THEN orders ELSE [orders EXCEPT ![o] = late[n].copy]
  /\ late' = [late EXCEPT ![n] = NoLate]
  /\ UNCHANGED <<menu, job, scan, listed, wire, screen, asked, failures>>

\* An admin takes a dish off the menu, whoever has ordered it.
DeleteMenu(d) ==
  /\ d \in menu
  /\ menu' = menu \ {d}
  /\ UNCHANGED <<orders, job, late, scan, listed, wire, screen, asked, failures>>

\* What one call of broadcast_to_chefs adds to a connection: a copy for each
\* entry of chef_fds, dropped when the connection is full.
Sent(c, message) ==
  LET room == MaxWire - Len(wire[c]) IN
  wire[c] \o [n \in 1 .. (IF listed[c] <= room THEN listed[c] ELSE room) |-> message]

\* The items of an order are announced from the first to the last.
Broadcast(th) ==
  \E part \in {"before", "after"} : \E message \in job[th][part] :
    /\ part = "after" => job[th].order = 0
    /\ \A other \in job[th][part] : message.item[2] <= other.item[2]
    /\ wire' = [c \in Chefs |-> Sent(c, message)]
    /\ job' = [job EXCEPT ![th][part] = @ \ {message}]
    /\ UNCHANGED <<orders, menu, late, scan, listed, screen, asked, failures>>

-----------------------------------------------------------------------------
\* send_chef_dashboard reads the orders one by one ...
ScanStart(c) ==
  /\ Free(c)
  /\ scan' = [scan EXCEPT ![c].order = 1]
  /\ UNCHANGED <<orders, menu, job, late, listed, wire, screen, asked, failures>>

\* Mutant of ScanOrder: a deleted order ends the scan.
ScanOrderToGap(c) ==
  LET o == scan[c].order IN
  /\ o \in OrderIds /\ scan[c].todo = {}
  /\ scan' = [scan EXCEPT ![c] = [order |-> IF orders[o] = Absent THEN MaxOrders + 1 ELSE o + 1,
                                  todo |-> Unprepared(o), list |-> @.list]]
  /\ UNCHANGED <<orders, menu, job, late, listed, wire, screen, asked, failures>>

ScanOrder(c) ==
  LET o == scan[c].order IN
  /\ o \in OrderIds /\ scan[c].todo = {}
  /\ scan' = [scan EXCEPT ![c] = [order |-> o + 1, todo |-> Unprepared(o), list |-> @.list]]
  /\ UNCHANGED <<orders, menu, job, late, listed, wire, screen, asked, failures>>

\* ... and the dish of each unprepared item, from the first to the last; an item
\* whose dish is not on the menu any more is left out.
NextDish(c, i) == i \in scan[c].todo /\ \A j \in scan[c].todo : i[2] <= j[2]
ScanDish(c) ==
  \E i \in scan[c].todo :
    /\ NextDish(c, i)
    /\ scan' = [scan EXCEPT ![c] =
                   [order |-> @.order, todo |-> @.todo \ {i},
                    list |-> @.list \cup (IF i[3] \in menu THEN {Item(i)} ELSE {})]]
    /\ UNCHANGED <<orders, menu, job, late, listed, wire, screen, asked, failures>>

\* It sends the list, waiting for room.
ScanSend(c) ==
  /\ scan[c].order = MaxOrders + 1 /\ scan[c].todo = {}
  /\ Len(wire[c]) < MaxWire
  /\ wire' = [wire EXCEPT ![c] = Append(@, Dashboard(scan[c].list))]
  /\ scan' = [scan EXCEPT ![c] = NoScan]
  /\ UNCHANGED <<orders, menu, job, late, listed, screen, asked, failures>>

\* When the read of an order fails there is no answer; when that of a dish
\* fails, its item is left out as if the dish were gone.
ScanFails(c) ==
  /\ failures < MaxFailures /\ failures' = failures + 1
  /\ \/ /\ scan[c].order \in OrderIds /\ scan[c].todo = {}
        /\ scan' = [scan EXCEPT ![c] = NoScan]
     \/ \E i \in scan[c].todo : NextDish(c, i) /\ scan' = [scan EXCEPT ![c].todo = @ \ {i}]
  /\ UNCHANGED <<orders, menu, job, late, listed, wire, screen, asked>>

-----------------------------------------------------------------------------
\* How often the dashboards among some messages list an item.
TimesListed(i, messages) ==
  Cardinality({n \in DOMAIN messages : messages[n].type = "OK" /\ i \in messages[n].list})

\* Mutant of Populate: the list is not emptied.
PopulateMore(items, messages) == [i \in Items |-> items[i] + TimesListed(i, messages)]

\* populate_dashboard empties the list and fills it with every item in the buffer.
Populate(items, messages) == [i \in Items |-> TimesListed(i, messages)]

\* Mutant of Apply: item_count goes down though the item was not found.
ApplyUnfound(items, message) ==
  IF message.type = "OK" THEN items
  ELSE [items EXCEPT ![message.item] = IF message.status = "PENDING" THEN @ + 1 ELSE @ - 1]

\* apply_update appends a pending item, and removes a prepared one once.
Apply(items, message) ==
  IF message.type = "OK" THEN items
  ELSE [items EXCEPT ![message.item] =
          IF message.status = "PENDING" THEN @ + 1 ELSE IF @ > 0 THEN @ - 1 ELSE 0]

\* The updates in a buffer, one after the other.
ApplyAll(items, messages) ==
  LET shown[n \in 0 .. Len(messages)] ==
        IF n = 0 THEN items ELSE Apply(shown[n - 1], messages[n])
  IN  shown[Len(messages)]

\* chef_listener takes what has arrived and looks at its first word only: updates
\* behind a dashboard are lost, and so is a dashboard behind an update.
Receive(c, n) ==
  /\ n <= Len(wire[c])
  /\ LET got == SubSeq(wire[c], 1, n) IN
     screen' = [screen EXCEPT ![c] = IF Head(got).type = "OK" THEN Populate(@, got)
                                     ELSE ApplyAll(@, got)]
  /\ wire' = [wire EXCEPT ![c] = SubSeq(@, n + 1, Len(@))]
  /\ UNCHANGED <<orders, menu, job, late, scan, listed, asked, failures>>

\* The terminal is closed and started again.  The connection gets the descriptor
\* of the old one, which chef_fds now has once more.
LogInAgain(c) ==
  /\ Free(c)
  /\ listed[c] < MaxLogins
  /\ listed' = [listed EXCEPT ![c] = @ + 1]
  /\ wire' = [wire EXCEPT ![c] = <<>>]
  /\ screen' = [screen EXCEPT ![c] = NoItems]
  /\ UNCHANGED <<orders, menu, job, late, scan, asked, failures>>

-----------------------------------------------------------------------------
\* Orders are open and empty at first: one that is not there yet looks the same
\* to a chef, and a dish that is not there yet like one nobody has ordered.
Init ==
  /\ orders = [o \in OrderIds |-> NewOrder]
  /\ menu = Dishes
  /\ job = [th \in Threads |-> NoJob]
  /\ late = [n \in 1 .. MaxFailures |-> NoLate]
  /\ scan = [c \in Chefs |-> NoScan]
  /\ listed = [c \in Chefs |-> 1]
  /\ wire = [c \in Chefs |-> <<>>]
  /\ screen = [c \in Chefs |-> NoItems]
  /\ asked = 0 /\ failures = 0
  /\ stored = {}
  /\ lasting = [c \in Chefs |-> {}]

Command(th) ==
  \E o \in OrderIds :
    \/ th \in Handlers /\ \E d \in Dishes : OrderItem(th, o, d)
    \/ th \in Handlers /\ (GenerateBill(th, o) \/ DeleteOrder(th, o))
    \/ th \in Chefs /\ \E k \in 1 .. MaxOrderItems : MarkPrepared(th, o, k)
Scan(c) == ScanOrder(c) \/ ScanDish(c) \/ ScanSend(c)
Listener(c) == \E n \in 1 .. MaxWire : Receive(c, n)

Step ==
  \/ \E th \in Threads : Command(th) \/ Write(th) \/ WriteFails(th) \/ Broadcast(th)
  \/ \E n \in 1 .. MaxFailures : LateWrite(n)
  \/ \E d \in Dishes : DeleteMenu(d)
  \/ \E c \in Chefs : ScanStart(c) \/ Scan(c) \/ ScanFails(c) \/ Listener(c) \/ LogInAgain(c)

\* The history variables follow every step.
Watch ==
  /\ stored' = stored \cup {i \in Items : orders'[i[1]] # Absent /\ i[2] <= orders'[i[1]].items}
  /\ lasting' = [c \in Chefs |->
       IF scan'[c] = NoScan THEN {} ELSE IF scan[c] = NoScan THEN Cookable' ELSE lasting[c] \cap Cookable']

Next == Step /\ Watch

Spec == Init /\ [][Next]_vars

\* A command goes on without anybody asking, a dashboard too, and a terminal
\* reads what it is sent.
Fairness ==
  /\ \A th \in Threads : WF_vars((Write(th) \/ Broadcast(th)) /\ Watch)
  /\ \A c \in Chefs : WF_vars(Scan(c) /\ Watch) /\ WF_vars(Listener(c) /\ Watch)
FairSpec == Spec /\ Fairness

-----------------------------------------------------------------------------
(***************************************************************************)
(* Properties.                                                             *)
(***************************************************************************)
Lines == OrderIds \X (1 .. MaxOrderItems) \X (Dishes \cup {Absent})
Messages ==
  [type : {"NEW_UPDATE"}, item : Items, status : {"PENDING", "PREPARED"}] \cup
  [type : {"OK"}, list : SUBSET Items]

\* The shape of the state; a connection never holds more than it has room for,
\* however often its chef is listed.
TypeOK ==
  /\ orders \in [OrderIds -> OrderType \cup {Absent}] /\ menu \subseteq Dishes
  /\ \A th \in Threads :
       /\ job[th].order \in {0} \cup OrderIds /\ job[th].copy \in OrderType \cup {Absent}
       /\ job[th].before \subseteq Messages /\ job[th].after \subseteq Messages
  /\ late \in [1 .. MaxFailures -> [order : {0} \cup OrderIds, copy : OrderType \cup {Absent}]]
  /\ scan \in [Chefs -> [order : 0 .. MaxOrders + 1, todo : SUBSET Lines, list : SUBSET Items]]
  /\ listed \in [Chefs -> 1 .. MaxLogins]
  /\ \A c \in Chefs : wire[c] \in Seq(Messages) /\ Len(wire[c]) <= MaxWire
  /\ screen \in [Chefs -> [Items -> Nat]]
  /\ asked \in 0 .. MaxAsked /\ failures \in 0 .. MaxFailures
  /\ stored \subseteq Items /\ lasting \in [Chefs -> SUBSET Lines]

\* send_chef_dashboard reads orders and dishes at different times.  An item that
\* was to cook all the time, in an order it has passed, is in its list or among
\* those it comes to, whatever guests, chefs and admins did meanwhile to that order
\* or to others.  (One whose dish is off the menu is not to cook: no dashboard has
\* it, although its order still says that it is not prepared.)
DashboardRegular ==
  \A c \in Chefs : failures = 0 /\ scan[c] # NoScan =>
    \A i \in lasting[c] : i[1] < scan[c].order => Item(i) \in scan[c].list \/ i \in scan[c].todo

\* No terminal shows, and no message on its way to one names, an item that was
\* never in the database: a failed order_item reaches no kitchen.
NothingInvented ==
  \A c \in Chefs :
    /\ \A i \in Items : screen[c][i] > 0 => i \in stored
    /\ scan[c].list \subseteq stored
    /\ \A n \in DOMAIN wire[c] : IF wire[c][n].type = "OK" THEN wire[c][n].list \subseteq stored
                                 ELSE wire[c][n].item \in stored

\* Updates may be dropped, come twice, or be lost beside a dashboard, and a
\* dashboard may be older than the updates before it.  But when nobody works on
\* an order any more, a chef who keeps pressing r sees in the end the items that
\* are to cook and no others: those of a dish that was deleted are gone for good.
Quiet == \A th \in Threads : job[th] = NoJob
Shown(c) == {i \in Items : screen[c][i] > 0}
RefreshHeals ==
  \A c \in Chefs : <>[]Quiet /\ []<><<ScanStart(c) /\ Watch>>_vars => <>[](Shown(c) = {Item(i) : i \in Cookable})
=============================================================================
