----------------------------- MODULE Restaurant -----------------------------
(***************************************************************************)
(* The server's handlers: one thread per connection, running the requests  *)
(* of a guest, a chef or an admin as short programs over the database.     *)
(* A database call is one step, as module RecordStore promises; between    *)
(* two calls of a handler any other thread may run.  A handler works on    *)
(* its own copy of an order and writes the whole copy back.  A call whose  *)
(* answer is lost is FAILURE to the handler, but it may still take effect  *)
(* at any later time, as module DBCalls says.                              *)
(***************************************************************************)
EXTENDS Integers, SequencesExt

CONSTANTS
  Guests, Chefs, Admins,  \* the connections, one server thread each
  AdminCommands,          \* what the admins ask for
  MaxTables, MaxMenu, MaxOrders,  \* slots of each record type, never reused
  MaxOrderItems,          \* DB_MAX_ORDER_ITEMS
  Capacities, Prices, Quantities,
  FirstTables, FirstMenu, \* what the restaurant starts with
  MaxFailures,            \* bound on the calls the database answers with FAILURE
  Absent                  \* no record

TableIds == 0 .. MaxTables - 1
ItemIds  == 0 .. MaxMenu - 1
OrderIds == 0 .. MaxOrders - 1
Threads  == Guests \cup Chefs \cup Admins
NoOrder  == -1

ASSUME RestaurantAssumption ==
  /\ MaxTables \in Nat \ {0} /\ MaxMenu \in Nat \ {0} /\ MaxOrders \in Nat \ {0} /\ MaxOrderItems \in Nat
  /\ Capacities \subseteq Nat \ {0} /\ Prices \subseteq Nat \ {0} /\ Quantities \subseteq Nat \ {0}
  /\ FirstTables \in Seq(Capacities) /\ Len(FirstTables) <= MaxTables
  /\ FirstMenu \in Seq(Prices) /\ Len(FirstMenu) <= MaxMenu
  /\ AdminCommands \subseteq {"add_table", "add_menu", "delete_table", "delete_menu", "delete_order"}
  /\ MaxFailures \in Nat
  /\ Guests \cap Chefs = {} /\ Guests \cap Admins = {} /\ Chefs \cap Admins = {}

VARIABLES
  tables,   \* the tables file: capacity and occupied, or Absent
  menu,     \* the menu file: the price, or Absent
  orders,   \* the orders file, or Absent
  used,     \* slots handed out, per type
  pc,       \* where each thread's handler stands
  session,  \* orderID of guest_handler
  leaving,  \* the guest has logged out or disconnected
  frame,    \* the local variables of the request a thread works on
  failures, \* the calls that failed so far
  late,     \* what each of them may still write
  reopened  \* history: a billed order has been overwritten by an unbilled copy

vars == <<tables, menu, orders, used, pc, session, leaving, frame, failures, late, reopened>>
db   == <<tables, menu, orders, used, failures, late, reopened>>

Table == [capacity : Capacities \cup {0}, occupied : BOOLEAN]
Line  == [item : ItemIds, price : Prices, qty : Quantities, prepared : BOOLEAN]
Order == [table : TableIds, items : Seq(Line), bill : Nat, billed : BOOLEAN]
Frame == [table : TableIds, capacity : Capacities \cup {0}, order : OrderIds,
          item : ItemIds, qty : Quantities \cup {0}, copy : Order]
NewOrder(t) == [table |-> t, items |-> <<>>, bill |-> 0, billed |-> FALSE]
NoFrame == [table |-> 0, capacity |-> 0, order |-> 0, item |-> 0, qty |-> 0, copy |-> NewOrder(0)]

ASSUME NoRecord == Absent \notin Order \cup Table

\* Where a handler stands: before the call of that name, or between requests.
Writing == {"claim", "insert", "rollback", "add_item", "bill", "free", "mark", "delete_order"}
Points  == Writing \cup {"idle", "read_menu", "closed"}
\* The nth failed call: where its handler stood, and the frame it was made from.
FailureIds == 1 .. MaxFailures
NoLate  == [call |-> "none", frame |-> NoFrame]

Goto(th, p) == pc' = [pc EXCEPT ![th] = p]
\* The request ends: back to recv, or to the end of the thread.
Finish(th) ==
  /\ Goto(th, IF leaving'[th] THEN "closed" ELSE "idle")
  /\ frame' = [frame EXCEPT ![th] = NoFrame]
\* The total as generate_bill computes it.
Cost(line) == line.price * line.qty
Total(items) ==
  LET total[n \in 0 .. Len(items)] == IF n = 0 THEN 0 ELSE total[n - 1] + Cost(items[n])
  IN  total[Len(items)]

-----------------------------------------------------------------------------
\* book_table_and_create_order: read the table ...
BookRead(g, t) ==
  /\ pc[g] = "idle" /\ session[g] = NoOrder
  /\ tables[t] # Absent /\ ~tables[t].occupied
  /\ frame' = [frame EXCEPT ![g].table = t, ![g].capacity = tables[t].capacity]
  /\ Goto(g, "claim")
  /\ UNCHANGED <<db, session, leaving>>

\* find_and_update of a table: match its id and isOccupied, write all of it.
Matches(t, from) == tables[t] # Absent /\ tables[t].occupied = from
FindAndUpdateTable(t, from, to, capacity) ==
  tables' = IF Matches(t, from)
              THEN [tables EXCEPT ![t] = [capacity |-> capacity, occupied |-> to]]
              ELSE tables

\* Mutant of BookClaim: the answer of find_and_update is not looked at.
BookClaimUnchecked(g) ==
  /\ pc[g] = "claim"
  /\ FindAndUpdateTable(frame[g].table, FALSE, TRUE, frame[g].capacity)
  /\ UNCHANGED <<menu, orders, used, session, leaving, frame, failures, late, reopened>>
  /\ Goto(g, "insert")

\* ... claim it ...
BookClaim(g) ==
  /\ pc[g] = "claim"
  /\ FindAndUpdateTable(frame[g].table, FALSE, TRUE, frame[g].capacity)
  /\ UNCHANGED <<menu, orders, used, session, leaving, failures, late, reopened>>
  /\ IF Matches(frame[g].table, FALSE)
       THEN Goto(g, "insert") /\ UNCHANGED frame
       ELSE Finish(g)

\* db_client_insert_order.
InsertOrder(f) ==
  /\ used.orders < MaxOrders
  /\ orders' = [orders EXCEPT ![used.orders] = NewOrder(f.table)]
  /\ used' = [used EXCEPT !.orders = @ + 1]

\* ... insert the order ...
BookInsert(g) ==
  /\ pc[g] = "insert"
  /\ InsertOrder(frame[g])
  /\ session' = [session EXCEPT ![g] = used.orders]
  /\ UNCHANGED <<tables, menu, leaving, failures, late, reopened>>
  /\ Finish(g)

\* ... or give the table back: the orders file is full.
BookInsertFails(g) ==
  /\ pc[g] = "insert"
  /\ used.orders >= MaxOrders
  /\ Goto(g, "rollback")
  /\ UNCHANGED <<db, session, leaving, frame>>

\* Mutant of BookRollback: the table is not given back.
BookNoRollback(g) ==
  /\ pc[g] = "rollback"
  /\ UNCHANGED <<tables, menu, orders, used, session, leaving, failures, late, reopened>>
  /\ Finish(g)

BookRollback(g) ==
  /\ pc[g] = "rollback"
  /\ FindAndUpdateTable(frame[g].table, TRUE, FALSE, frame[g].capacity)
  /\ UNCHANGED <<menu, orders, used, session, leaving, failures, late, reopened>>
  /\ Finish(g)

-----------------------------------------------------------------------------
\* order_item: read the order, read the menu, write the order back.  A billed
\* order is not refused.
OrderRead(g, i, q) ==
  /\ pc[g] = "idle" /\ session[g] # NoOrder
  /\ orders[session[g]] # Absent
  /\ Len(orders[session[g]].items) < MaxOrderItems
  /\ frame' = [frame EXCEPT ![g].order = session[g], ![g].item = i, ![g].qty = q,
                            ![g].copy = orders[session[g]]]
  /\ Goto(g, "read_menu")
  /\ UNCHANGED <<db, session, leaving>>

\* Mutants of OrderMenu: the total counts one portion; the menu's answer is not
\* looked at; a new item reopens the order.
OrderMenuOnePortion(g) ==
  LET i == frame[g].item
      line == [item |-> i, price |-> menu[i], qty |-> frame[g].qty, prepared |-> FALSE] IN
  /\ pc[g] = "read_menu"
  /\ UNCHANGED <<db, session, leaving>>
  /\ IF menu[i] = Absent
       THEN Finish(g)
       ELSE /\ frame' = [frame EXCEPT ![g].copy.items = Append(@, line),
                                      ![g].copy.bill = @ + line.price]
            /\ Goto(g, "add_item")
OrderMenuUnchecked(g) ==
  LET i == frame[g].item
      line == [item |-> i, price |-> menu[i], qty |-> frame[g].qty, prepared |-> FALSE] IN
  /\ pc[g] = "read_menu"
  /\ UNCHANGED <<db, session, leaving>>
  /\ frame' = [frame EXCEPT ![g].copy.items = Append(@, line)]
  /\ Goto(g, "add_item")
OrderMenuReopens(g) ==
  LET i == frame[g].item
      line == [item |-> i, price |-> menu[i], qty |-> frame[g].qty, prepared |-> FALSE] IN
  /\ pc[g] = "read_menu"
  /\ UNCHANGED <<db, session, leaving>>
  /\ IF menu[i] = Absent
       THEN Finish(g)
       ELSE /\ frame' = [frame EXCEPT ![g].copy.items = Append(@, line),
                                      ![g].copy.bill = @ + Cost(line),
                                      ![g].copy.billed = FALSE]
            /\ Goto(g, "add_item")

OrderMenu(g) ==
  LET i == frame[g].item
      line == [item |-> i, price |-> menu[i], qty |-> frame[g].qty, prepared |-> FALSE] IN
  /\ pc[g] = "read_menu"
  /\ UNCHANGED <<db, session, leaving>>
  /\ IF menu[i] = Absent
       THEN Finish(g)
       ELSE /\ frame' = [frame EXCEPT ![g].copy.items = Append(@, line),
                                      ![g].copy.bill = @ + Cost(line)]
            /\ Goto(g, "add_item")

\* db_client_update_order: the whole record, if the order is still there.
UpdateOrder(f) ==
  LET old == orders[f.order] IN
  /\ orders' = IF old = Absent THEN orders ELSE [orders EXCEPT ![f.order] = f.copy]
  /\ reopened' = (reopened \/ (old # Absent /\ old.billed /\ ~f.copy.billed))

OrderUpdate(g) ==
  /\ pc[g] = "add_item"
  /\ UpdateOrder(frame[g])
  /\ UNCHANGED <<tables, menu, used, session, leaving, failures, late>>
  /\ Finish(g)

-----------------------------------------------------------------------------
\* generate_bill, at the guest's request or when the connection ends.
Bill(o) == [o EXCEPT !.bill = Total(o.items), !.billed = TRUE,
                     !.items = [k \in DOMAIN o.items |-> [o.items[k] EXCEPT !.prepared = TRUE]]]

BillRead(g) ==
  LET o == orders[session[g]] IN
  /\ pc[g] = "idle" /\ session[g] # NoOrder
  /\ leaving' \in {leaving, [leaving EXCEPT ![g] = TRUE]}
  /\ IF o = Absent \/ o.billed
       THEN Finish(g)
       ELSE /\ frame' = [frame EXCEPT ![g].order = session[g], ![g].copy = Bill(o)]
            /\ Goto(g, "bill")
  /\ UNCHANGED <<db, session>>

\* Mutant of BillUpdate: the table is not freed.
BillUpdateOnly(g) ==
  /\ pc[g] = "bill"
  /\ UpdateOrder(frame[g])
  /\ UNCHANGED <<tables, menu, used, session, leaving, failures, late>>
  /\ Finish(g)

BillUpdate(g) ==
  /\ pc[g] = "bill"
  /\ UpdateOrder(frame[g])
  /\ UNCHANGED <<tables, menu, used, session, leaving, failures, late>>
  /\ IF orders[frame[g].order] = Absent
       THEN Finish(g)
       ELSE Goto(g, "free") /\ UNCHANGED frame

\* The table is written with the capacity field left out, that is 0.
BillFree(g) ==
  /\ pc[g] = "free"
  /\ FindAndUpdateTable(frame[g].copy.table, TRUE, FALSE, 0)
  /\ UNCHANGED <<menu, orders, used, session, leaving, failures, late, reopened>>
  /\ Finish(g)

\* LOGOUT or disconnection without an order, and a new connection.
Leave(g) ==
  /\ pc[g] = "idle" /\ session[g] = NoOrder
  /\ Goto(g, "closed")
  /\ UNCHANGED <<db, session, leaving, frame>>

Connect(g) ==
  /\ pc[g] = "closed"
  /\ Goto(g, "idle")
  /\ session' = [session EXCEPT ![g] = NoOrder]
  /\ leaving' = [leaving EXCEPT ![g] = FALSE]
  /\ UNCHANGED <<db, frame>>

-----------------------------------------------------------------------------
\* mark_prepared of a chef: read the order, write it back with one item marked.
MarkRead(c, o, k) ==
  /\ pc[c] = "idle"
  /\ orders[o] # Absent
  /\ k \in DOMAIN orders[o].items
  /\ frame' = [frame EXCEPT ![c].order = o,
                            ![c].copy = [orders[o] EXCEPT !.items[k].prepared = TRUE]]
  /\ Goto(c, "mark")
  /\ UNCHANGED <<db, session, leaving>>

MarkUpdate(c) ==
  /\ pc[c] = "mark"
  /\ UpdateOrder(frame[c])
  /\ UNCHANGED <<tables, menu, used, session, leaving, failures, late>>
  /\ Finish(c)

-----------------------------------------------------------------------------
\* The commands of admin_handler; each is one database call, but for
\* delete_order, which reads the order first to tell the chefs.  One that takes
\* effect after its FAILURE is like the same command given later.
AddTable(a, capacity) ==
  /\ "add_table" \in AdminCommands /\ pc[a] = "idle"
  /\ used.tables < MaxTables
  /\ tables' = [tables EXCEPT ![used.tables] = [capacity |-> capacity, occupied |-> FALSE]]
  /\ used' = [used EXCEPT !.tables = @ + 1]
  /\ UNCHANGED <<menu, orders, pc, session, leaving, frame, failures, late, reopened>>

AddMenu(a, price) ==
  /\ "add_menu" \in AdminCommands /\ pc[a] = "idle"
  /\ used.menu < MaxMenu
  /\ menu' = [menu EXCEPT ![used.menu] = price]
  /\ used' = [used EXCEPT !.menu = @ + 1]
  /\ UNCHANGED <<tables, orders, pc, session, leaving, frame, failures, late, reopened>>

DeleteTable(a, t) ==
  /\ "delete_table" \in AdminCommands /\ pc[a] = "idle"
  /\ tables[t] # Absent
  /\ tables' = [tables EXCEPT ![t] = Absent]
  /\ UNCHANGED <<menu, orders, used, pc, session, leaving, frame, failures, late, reopened>>

DeleteMenu(a, i) ==
  /\ "delete_menu" \in AdminCommands /\ pc[a] = "idle"
  /\ menu[i] # Absent
  /\ menu' = [menu EXCEPT ![i] = Absent]
  /\ UNCHANGED <<tables, orders, used, pc, session, leaving, frame, failures, late, reopened>>

DeleteOrderRead(a, o) ==
  /\ "delete_order" \in AdminCommands /\ pc[a] = "idle"
  /\ orders[o] # Absent
  /\ frame' = [frame EXCEPT ![a].order = o]
  /\ Goto(a, "delete_order")
  /\ UNCHANGED <<db, session, leaving>>

RemoveOrder(f) == orders' = [orders EXCEPT ![f.order] = Absent]
DeleteOrder(a) ==
  /\ pc[a] = "delete_order"
  /\ RemoveOrder(frame[a])
  /\ UNCHANGED <<tables, menu, used, session, leaving, failures, late, reopened>>
  /\ Finish(a)

-----------------------------------------------------------------------------
\* The call a handler waits for returns FAILURE: the database has refused it, or
\* it was sent and its answer is lost.  A failed insert is rolled back; every
\* other failure just ends the request.
CallFails(th) ==
  /\ failures < MaxFailures
  /\ failures' = failures + 1
  /\ pc[th] \notin {"idle", "closed"}
  /\ \/ UNCHANGED late
     \/ /\ pc[th] \in Writing
        /\ late' = [late EXCEPT ![failures'] = [call |-> pc[th], frame |-> frame[th]]]
  /\ UNCHANGED <<tables, menu, orders, used, session, leaving, reopened>>
  /\ IF pc[th] = "insert" THEN Goto(th, "rollback") /\ UNCHANGED frame ELSE Finish(th)

\* A call takes effect after its caller was told FAILURE; it may also never do so.
LateWrite(n) ==
  LET call == late[n].call
      f    == late[n].frame IN
  /\ late' = [late EXCEPT ![n] = NoLate]
  /\ \/ /\ \/ call = "claim" /\ FindAndUpdateTable(f.table, FALSE, TRUE, f.capacity)
           \/ call = "rollback" /\ FindAndUpdateTable(f.table, TRUE, FALSE, f.capacity)
           \/ call = "free" /\ FindAndUpdateTable(f.copy.table, TRUE, FALSE, 0)
        /\ UNCHANGED <<orders, used, reopened>>
     \/ /\ call = "insert" /\ InsertOrder(f)
        /\ UNCHANGED <<tables, reopened>>
     \/ /\ call \in {"add_item", "bill", "mark"} /\ UpdateOrder(f)
        /\ UNCHANGED <<tables, used>>
     \/ /\ call = "delete_order" /\ RemoveOrder(f)
        /\ UNCHANGED <<tables, used, reopened>>
  /\ UNCHANGED <<menu, pc, session, leaving, frame, failures>>

-----------------------------------------------------------------------------
Init ==
  /\ tables = [t \in TableIds |-> IF t < Len(FirstTables)
                 THEN [capacity |-> FirstTables[t + 1], occupied |-> FALSE] ELSE Absent]
  /\ menu = [i \in ItemIds |-> IF i < Len(FirstMenu) THEN FirstMenu[i + 1] ELSE Absent]
  /\ orders = [o \in OrderIds |-> Absent]
  /\ used = [tables |-> Len(FirstTables), menu |-> Len(FirstMenu), orders |-> 0]
  /\ pc = [th \in Threads |-> "idle"]
  /\ session = [th \in Threads |-> NoOrder]
  /\ leaving = [th \in Threads |-> FALSE]
  /\ frame = [th \in Threads |-> NoFrame]
  /\ failures = 0
  /\ late = [n \in FailureIds |-> NoLate]
  /\ reopened = FALSE

\* The steps that begin a request, and those that go on with one.
GuestAsks(g) ==
  \/ \E t \in TableIds : BookRead(g, t)
  \/ \E i \in ItemIds, q \in Quantities : OrderRead(g, i, q)
  \/ BillRead(g) \/ Leave(g) \/ Connect(g)
ChefAsks(c) == \E o \in OrderIds, k \in 1 .. MaxOrderItems : MarkRead(c, o, k)
AdminAsks(a) ==
  \/ \E n \in Capacities : AddTable(a, n)
  \/ \E p \in Prices : AddMenu(a, p)
  \/ \E t \in TableIds : DeleteTable(a, t)
  \/ \E i \in ItemIds : DeleteMenu(a, i)
  \/ \E o \in OrderIds : DeleteOrderRead(a, o)

Continue(th) ==
  \/ BookClaim(th) \/ BookInsert(th) \/ BookInsertFails(th) \/ BookRollback(th)
  \/ OrderMenu(th) \/ OrderUpdate(th)
  \/ BillUpdate(th) \/ BillFree(th)
  \/ MarkUpdate(th) \/ DeleteOrder(th)

Next ==
  \/ \E g \in Guests : GuestAsks(g)
  \/ \E c \in Chefs : ChefAsks(c)
  \/ \E a \in Admins : AdminAsks(a)
  \/ \E th \in Threads : Continue(th) \/ CallFails(th)
  \/ \E n \in FailureIds : LateWrite(n)

Spec == Init /\ [][Next]_vars
\* A thread that has begun a request goes on with it; nobody has to ask.
FairSpec == Spec /\ \A th \in Threads : WF_vars(Continue(th))

-----------------------------------------------------------------------------
(***************************************************************************)
(* Properties.                                                             *)
(***************************************************************************)
\* The shape of the state.
TypeOK ==
  /\ \A t \in TableIds : tables[t] # Absent => tables[t] \in Table
  /\ \A i \in ItemIds : menu[i] # Absent => menu[i] \in Prices
  /\ \A o \in OrderIds : orders[o] # Absent => orders[o] \in Order
  /\ used \in [tables : 0 .. MaxTables, menu : 0 .. MaxMenu, orders : 0 .. MaxOrders]
  /\ pc \in [Threads -> Points]
  /\ session \in [Threads -> OrderIds \cup {NoOrder}]
  /\ leaving \in [Threads -> BOOLEAN]
  /\ failures \in 0 .. MaxFailures /\ reopened \in BOOLEAN
  /\ frame \in [Threads -> Frame]
  /\ late \in [FailureIds -> [call : Writing \cup {"none"}, frame : Frame]]

\* A guest answers for a table: between its claim and the order, while its
\* order is unpaid, and from the bill to the release of the table.
Unpaid(g) == session[g] # NoOrder /\ orders[session[g]] # Absent /\ ~orders[session[g]].billed
AnswersFor(g, t) ==
  \/ pc[g] \in {"insert", "rollback"} /\ frame[g].table = t
  \/ Unpaid(g) /\ orders[session[g]].table = t
  \/ pc[g] \in {"bill", "free"} /\ frame[g].copy.table = t

\* Two guests never answer for one table, whatever race there was (the README:
\* "Prevents race conditions and lost updates") ...
OneGuestPerTable ==
  \A g, h \in Guests, t \in TableIds : g # h /\ AnswersFor(g, t) => ~AnswersFor(h, t)

\* ... until a copy of an order from before its bill is written over the bill, by
\* a chef's handler or by a call that takes effect after its FAILURE.  Nothing
\* else gives a table two guests, nor offers one that somebody answers for: no
\* race, no deletion by an admin and no call that fails and takes effect late.
NoDoubleBooking ==
  ~reopened =>
    /\ OneGuestPerTable
    /\ \A g \in Guests, t \in TableIds : AnswersFor(g, t) => ~Matches(t, FALSE)

\* While no database call fails, an occupied table has a guest who will free it.
NoStrandedTable ==
  failures = 0 =>
  \A t \in TableIds : Matches(t, TRUE) => \E g \in Guests : AnswersFor(g, t)

\* Two sessions never work on one order.
OwnOrder ==
  \A g, h \in Guests : g # h /\ session[g] # NoOrder => session[g] # session[h]

\* A copy of an order from before its bill, which is still to be written.
Stale(o) ==
  LET Old(f) == f.order = o /\ ~f.copy.billed IN
  \/ \E th \in Threads : pc[th] \in {"read_menu", "add_item", "mark"} /\ Old(frame[th])
  \/ \E n \in FailureIds : late[n].call \in {"add_item", "mark"} /\ Old(late[n].frame)

\* A bill is final once every copy of the order that was read before it has been
\* written or dropped: no handler makes another one, whatever guests still order.
Final(o) == orders[o] # Absent /\ orders[o].billed /\ ~Stale(o)
BilledStaysBilled == [][\A o \in OrderIds : Final(o) => orders'[o] = Absent \/ Final(o)']_vars

\* The running total of an order is the sum over its items, whatever stale
\* copies the handlers write back.
BillMatchesItems ==
  \A o \in OrderIds : orders[o] # Absent => orders[o].bill = Total(orders[o].items)

\* A guest that leaves, or whose connection breaks, gives its table back, whoever
\* else writes its order meanwhile: the table is offered again, unless an admin has
\* removed it or deleted an order, a bill has been overwritten, or a database call
\* has failed.
OrderDeleted == \E o \in OrderIds : o < used.orders /\ orders[o] = Absent
LeavingFreesTable ==
  \A g \in Guests, t \in TableIds :
    (leaving[g] /\ AnswersFor(g, t)) ~> (~Matches(t, TRUE) \/ OrderDeleted \/ reopened \/ failures > 0)
-----------------------------------------------------------------------------
(***************************************************************************)
(* The tables as guests and admins see them.                               *)
(***************************************************************************)
TableState(t) == IF t >= used.tables THEN "new"
                 ELSE IF tables[t] = Absent THEN "removed"
                 ELSE IF tables[t].occupied THEN "taken" ELSE "free"
StageOf(g) == IF pc[g] \in {"insert", "rollback"} THEN "booking"
              ELSE IF pc[g] = "free" THEN "paid"
              ELSE IF pc[g] = "bill" \/ Unpaid(g) THEN "dining" ELSE "out"
SeatOf(g) == IF pc[g] \in {"insert", "rollback"} THEN frame[g].table
             ELSE IF pc[g] \in {"bill", "free"} THEN frame[g].copy.table
             ELSE IF Unpaid(g) THEN orders[session[g]].table ELSE NoOrder

tableBar == [t \in TableIds |-> TableState(t)]
stageBar == [g \in Guests |-> StageOf(g)]
seatBar  == [g \in Guests |-> SeatOf(g)]

Seats == INSTANCE Seating WITH
  Tables <- TableIds, NoTable <- NoOrder, MayDismiss <- "delete_order" \in AdminCommands,
  table <- tableBar, stage <- stageBar, seat <- seatBar

\* Until a bill is overwritten every step of the handlers is one of the seating, or
\* does not touch it: one guest has a table from its claim to its release, pays
\* before it gives the table back, and gives back no other's.  So it is with stale
\* copies, deletions, and calls that take effect after their FAILURE.
ImplementsSeating ==
  Seats!SeatingInit /\ [][reopened' \/ Seats!SeatingNext]_<<tableBar, stageBar, seatBar, failures>>
=============================================================================
