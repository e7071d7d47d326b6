-------------------------- MODULE RestaurantProofs --------------------------
(* Machine-checked properties of the handlers, for any number of guests,    *)
(* chefs, admins, tables and orders, whichever calls fail and whenever they *)
(* take effect after that.                                                  *)
EXTENDS Restaurant, SequenceTheorems, WellFoundedInduction, TLAPS

-----------------------------------------------------------------------------
(***************************************************************************)
(* The total of a bill.  Total is defined by recursion on the length; that *)
(* such sums exist, and that two of them agree as far as the costs do, is  *)
(* shown by looking at the first place where they would not.               *)
(***************************************************************************)
Sums(items, m, f) == f = [n \in 0 .. m |-> IF n = 0 THEN 0 ELSE f[n - 1] + Cost(items[n])]

LEMMA Smallest ==
  ASSUME NEW S \in SUBSET Nat, S # {}
  PROVE  \E x \in S : \A y \in S : x <= y
<1> DEFINE R == {p \in Nat \X Nat : p[1] < p[2]}
<1>1. IsWellFoundedOn(R, Nat)
  BY NatLessThanWellFounded DEF OpToRel, R
<1>2. PICK x \in S : \A y \in S : ~(<<y, x>> \in R)
  <2> HIDE DEF R
  <2> QED BY <1>1, WFMin
<1>3. ASSUME NEW y \in S PROVE x <= y
  <2>1. <<y, x>> \in Nat \X Nat /\ <<y, x>>[1] = y /\ <<y, x>>[2] = x
    OBVIOUS
  <2>2. ~(y < x)
    BY <1>2, <2>1 DEF R
  <2> QED BY <2>1, <2>2
<1> QED BY <1>3

LEMMA SumsExist == ASSUME NEW items, NEW m \in Nat PROVE \E f : Sums(items, m, f)
<1> DEFINE S == {n \in Nat : ~\E f : Sums(items, n, f)}
<1> SUFFICES ASSUME S # {} PROVE FALSE
  OBVIOUS
<1>1. PICK x \in S : \A y \in S : x <= y
  <2> HIDE DEF S
  <2>1. S \in SUBSET Nat
    BY DEF S
  <2> QED BY <2>1, Smallest
<1>2. CASE x = 0
  <2> DEFINE f == [n \in 0 .. 0 |-> 0]
  <2>1. f = [n \in 0 .. 0 |-> IF n = 0 THEN 0 ELSE f[n - 1] + Cost(items[n])]
    OBVIOUS
  <2> QED BY <1>2, <2>1 DEF Sums
<1>3. CASE x # 0
  <2>1. x \in Nat /\ x - 1 \in Nat /\ ~(x <= x - 1)
    BY <1>3
  <2>2. PICK f : Sums(items, x - 1, f)
    BY <1>1, <2>1
  <2> DEFINE g == [n \in 0 .. x |-> IF n = x THEN f[x - 1] + Cost(items[x]) ELSE f[n]]
  <2>3. ASSUME NEW n \in 0 .. x
        PROVE  g[n] = IF n = 0 THEN 0 ELSE g[n - 1] + Cost(items[n])
    <3>1. CASE n = 0
      <4>1. g[0] = f[0] /\ f[0] = 0
        BY <1>3, <2>1, <2>2, <3>1 DEF Sums
      <4> QED BY <3>1, <4>1
    <3>2. CASE n # 0 /\ n # x
      <4>1. n \in 0 .. x - 1 /\ n - 1 \in 0 .. x /\ n - 1 # x
        BY <2>1, <3>2
      <4>2. f[n] = f[n - 1] + Cost(items[n])
        BY <2>2, <3>2, <4>1 DEF Sums
      <4> QED BY <3>2, <4>1, <4>2
    <3>3. CASE n = x
      <4>1. n - 1 \in 0 .. x /\ n - 1 # x
        BY <2>1, <3>3
      <4> QED BY <1>3, <3>3, <4>1
    <3> QED BY <3>1, <3>2, <3>3
  <2>4. g = [n \in 0 .. x |-> g[n]]
    OBVIOUS
  <2> HIDE DEF g
  <2>5. g = [n \in 0 .. x |-> IF n = 0 THEN 0 ELSE g[n - 1] + Cost(items[n])]
    BY <2>3, <2>4
  <2> QED BY <2>5 DEF Sums
<1> QED BY <1>2, <1>3

\* Two sums of costs that are the same up to some place are the same up to it.
LEMMA SumsAgree ==
  ASSUME NEW s, NEW t, NEW m \in Nat, NEW k \in Nat, NEW f, NEW g, Sums(s, m, f), Sums(t, k, g),
         NEW n \in Nat, n <= m, n <= k, \A i \in 1 .. n : Cost(s[i]) = Cost(t[i])
  PROVE  f[n] = g[n]
<1> DEFINE S == {i \in 0 .. n : f[i] # g[i]}
<1> SUFFICES ASSUME S # {} PROVE FALSE
  OBVIOUS
<1>1. PICK x \in S : \A y \in S : x <= y
  <2> HIDE DEF S
  <2>1. S \in SUBSET Nat
    BY DEF S
  <2> QED BY <2>1, Smallest
<1>2. x \in 0 .. m /\ x \in 0 .. k /\ x \in Int
  OBVIOUS
<1>3. CASE x = 0
  BY <1>2, <1>3 DEF Sums
<1>4. CASE x # 0
  <2>1. x - 1 \in 0 .. n /\ ~(x <= x - 1) /\ x \in 1 .. n
    BY <1>2, <1>4
  <2>2. f[x - 1] = g[x - 1] /\ Cost(s[x]) = Cost(t[x])
    BY <1>1, <2>1
  <2>3. f[x] = f[x - 1] + Cost(s[x]) /\ g[x] = g[x - 1] + Cost(t[x])
    BY <1>2, <1>4 DEF Sums
  <2> QED BY <2>2, <2>3
<1> QED BY <1>3, <1>4

LEMMA SumsNat ==
  ASSUME NEW s, NEW m \in Nat, NEW f, Sums(s, m, f), \A i \in 1 .. m : Cost(s[i]) \in Nat
  PROVE  f[m] \in Nat
<1> DEFINE S == {i \in 0 .. m : f[i] \notin Nat}
<1> SUFFICES ASSUME S # {} PROVE FALSE
  OBVIOUS
<1>1. PICK x \in S : \A y \in S : x <= y
  <2> HIDE DEF S
  <2>1. S \in SUBSET Nat
    BY DEF S
  <2> QED BY <2>1, Smallest
<1>2. x \in 0 .. m /\ x \in Int
  OBVIOUS
<1>3. CASE x = 0
  BY <1>2, <1>3 DEF Sums
<1>4. CASE x # 0
  <2>1. x - 1 \in 0 .. m /\ ~(x <= x - 1) /\ x \in 1 .. m
    BY <1>2, <1>4
  <2>2. f[x - 1] \in Nat /\ Cost(s[x]) \in Nat
    BY <1>1, <2>1
  <2>3. f[x] = f[x - 1] + Cost(s[x])
    BY <1>2, <1>4 DEF Sums
  <2> QED BY <2>2, <2>3
<1> QED BY <1>3, <1>4

LEMMA TotalIs ==
  ASSUME NEW items, Len(items) \in Nat
  PROVE  \E f : Sums(items, Len(items), f) /\ Total(items) = f[Len(items)]
<1> DEFINE s == CHOOSE f : Sums(items, Len(items), f)
<1>1. \E f : Sums(items, Len(items), f)
  BY SumsExist
<1>2. Sums(items, Len(items), s)
  BY <1>1, Zenon
<1>3. Total(items) = s[Len(items)]
  BY DEF Total, Sums
<1> QED BY <1>2, <1>3

\* What the handlers rely on: an order begins at nothing, an item adds its cost,
\* and no mark of a cook changes a total.
LEMMA TotalEmpty == Total(<<>>) = 0
<1>1. Len(<<>>) = 0
  OBVIOUS
<1>2. PICK f : Sums(<<>>, 0, f) /\ Total(<<>>) = f[0]
  BY <1>1, TotalIs
<1> QED BY <1>2 DEF Sums

LEMMA TotalAppend ==
  ASSUME NEW S, NEW items \in Seq(S), NEW line \in S
  PROVE  Total(Append(items, line)) = Total(items) + Cost(line)
<1> DEFINE more == Append(items, line)
           m == Len(items)
<1>1. m \in Nat /\ m + 1 \in Nat /\ Len(more) = m + 1 /\ more[m + 1] = line /\ \A i \in 1 .. m : more[i] = items[i]
  OBVIOUS
<1> HIDE DEF more, m
<1>2. PICK f : Sums(items, m, f) /\ Total(items) = f[m]
  BY <1>1, TotalIs DEF m
<1>3. PICK g : Sums(more, m + 1, g) /\ Total(more) = g[m + 1]
  <2>1. Len(more) \in Nat
    BY <1>1
  <2> QED BY <1>1, <2>1, TotalIs
<1>4. f[m] = g[m]
  <2>1. m <= m /\ m <= m + 1
    BY <1>1
  <2> QED BY <1>1, <1>2, <1>3, <2>1, SumsAgree
<1>5. g[m + 1] = g[m] + Cost(line)
  <2>1. m + 1 \in 0 .. m + 1 /\ m + 1 # 0 /\ (m + 1) - 1 = m
    BY <1>1
  <2>2. g[m + 1] = g[(m + 1) - 1] + Cost(more[m + 1])
    BY <1>3, <2>1 DEF Sums
  <2> QED BY <1>1, <2>1, <2>2
<1> QED BY <1>2, <1>3, <1>4, <1>5 DEF more

LEMMA TotalSame ==
  ASSUME NEW s, NEW t, Len(s) \in Nat, Len(t) = Len(s), \A i \in 1 .. Len(s) : Cost(s[i]) = Cost(t[i])
  PROVE  Total(s) = Total(t)
<1>1. PICK f : Sums(s, Len(s), f) /\ Total(s) = f[Len(s)]
  BY TotalIs
<1>2. PICK g : Sums(t, Len(s), g) /\ Total(t) = g[Len(s)]
  BY TotalIs
<1>3. f[Len(s)] = g[Len(s)]
  <2>1. Len(s) <= Len(s)
    OBVIOUS
  <2> QED BY <1>1, <1>2, <2>1, SumsAgree
<1> QED BY <1>1, <1>2, <1>3

LEMMA CostNat == ASSUME NEW line \in Line PROVE Cost(line) \in Nat
<1>1. line.price \in Nat /\ line.qty \in Nat
  BY RestaurantAssumption DEF Line
<1>2. \A a, b \in Nat : a * b \in Nat
  OBVIOUS
<1> QED BY <1>1, <1>2 DEF Cost

LEMMA TotalNat == ASSUME NEW items \in Seq(Line) PROVE Total(items) \in Nat
<1>1. Len(items) \in Nat /\ \A i \in 1 .. Len(items) : items[i] \in Line
  OBVIOUS
<1>2. PICK f : Sums(items, Len(items), f) /\ Total(items) = f[Len(items)]
  BY <1>1, TotalIs
<1>3. \A i \in 1 .. Len(items) : Cost(items[i]) \in Nat
  BY <1>1, CostNat
<1> QED BY <1>1, <1>2, <1>3, SumsNat
(***************************************************************************)
(* Types: the shape of the state with the functions' domains, and that a   *)
(* handler which has still to read the menu knows how many portions were   *)
(* asked for.                                                              *)
(***************************************************************************)
Limits == [tables : 0 .. MaxTables, menu : 0 .. MaxMenu, orders : 0 .. MaxOrders]
Files ==
  /\ tables \in [TableIds -> Table \cup {Absent}]
  /\ menu \in [ItemIds -> Prices \cup {Absent}]
  /\ orders \in [OrderIds -> Order \cup {Absent}]
  /\ used \in Limits
  /\ failures \in 0 .. MaxFailures /\ reopened \in BOOLEAN
  /\ late \in [FailureIds -> [call : Writing \cup {"none"}, frame : Frame]]
Handlers ==
  /\ pc \in [Threads -> Points] /\ frame \in [Threads -> Frame]
  /\ session \in [Threads -> OrderIds \cup {NoOrder}] /\ leaving \in [Threads -> BOOLEAN]
  /\ \A th \in Threads : pc[th] = "read_menu" => frame[th].qty \in Quantities
HouseInv == Files /\ Handlers

LEMMA HouseTypes == HouseInv => TypeOK
<1> SUFFICES ASSUME HouseInv PROVE TypeOK
  OBVIOUS
<1>1. \A t \in TableIds : tables[t] # Absent => tables[t] \in Table
  BY DEF HouseInv, Files
<1>2. \A i \in ItemIds : menu[i] # Absent => menu[i] \in Prices
  BY DEF HouseInv, Files
<1>3. \A o \in OrderIds : orders[o] # Absent => orders[o] \in Order
  BY DEF HouseInv, Files
<1> QED BY <1>1, <1>2, <1>3 DEF HouseInv, Files, Handlers, TypeOK, Limits

LEMMA Ids == 0 \in TableIds /\ 0 \in ItemIds /\ 0 \in OrderIds
BY RestaurantAssumption DEF TableIds, ItemIds, OrderIds

LEMMA NewOrderType ==
  ASSUME NEW t \in TableIds
  PROVE  NewOrder(t) \in Order /\ NewOrder(t).bill = Total(NewOrder(t).items)
<1>1. <<>> \in Seq(Line) /\ Total(<<>>) = 0
  BY TotalEmpty
<1> QED BY <1>1 DEF NewOrder, Order

LEMMA NoFrameType == NoFrame \in Frame /\ NoFrame.copy.bill = Total(NoFrame.copy.items)
<1>1. NewOrder(0) \in Order /\ NewOrder(0).bill = Total(NewOrder(0).items)
  BY Ids, NewOrderType
<1>2. NoFrame.copy = NewOrder(0)
  BY DEF NoFrame
<1>3. NoFrame \in Frame
  BY <1>1, Ids DEF NoFrame, Frame
<1> QED BY <1>1, <1>2, <1>3

LEMMA PreparedType == ASSUME NEW line \in Line
  PROVE /\ [line EXCEPT !.prepared = TRUE] \in Line
        /\ Cost([line EXCEPT !.prepared = TRUE]) = Cost(line)
BY DEF Line, Cost

\* A bill has the order's items, all of them prepared, and their total.
LEMMA BillType ==
  ASSUME NEW o \in Order
  PROVE  /\ Bill(o) \in Order /\ Bill(o).bill = Total(Bill(o).items)
         /\ Bill(o).table = o.table /\ Bill(o).billed = TRUE
<1> DEFINE total == Total(o.items)
           items == [k \in DOMAIN o.items |-> [o.items[k] EXCEPT !.prepared = TRUE]]
<1>1. Bill(o) = [o EXCEPT !.bill = total, !.billed = TRUE, !.items = items]
  BY DEF Bill
<1>2. o.items \in Seq(Line) /\ Len(o.items) \in Nat /\ DOMAIN o.items = 1 .. Len(o.items)
      /\ \A k \in 1 .. Len(o.items) : o.items[k] \in Line
  <2>1. o.items \in Seq(Line)
    BY DEF Order
  <2> QED BY <2>1
<1>3. items \in Seq(Line) /\ Len(items) = Len(o.items) /\ \A k \in 1 .. Len(o.items) : Cost(items[k]) = Cost(o.items[k])
  <2>1. items \in [1 .. Len(o.items) -> Line]
    BY <1>2, PreparedType
  <2>2. items \in Seq(Line)
    <3> HIDE DEF items
    <3> QED BY <1>2, <2>1, SeqDef
  <2>3. Len(items) = Len(o.items)
    <3>1. DOMAIN items = 1 .. Len(o.items)
      BY <2>1
    <3> HIDE DEF items
    <3> QED BY <1>2, <2>2, <3>1
  <2>4. \A k \in 1 .. Len(o.items) : Cost(items[k]) = Cost(o.items[k])
    BY <1>2, PreparedType
  <2> QED BY <2>2, <2>3, <2>4
<1>4. total \in Nat /\ Total(items) = total
  <2> HIDE DEF items
  <2>1. Total(o.items) = Total(items)
    BY <1>2, <1>3, TotalSame
  <2> QED BY <1>2, <2>1, TotalNat
<1> HIDE DEF total, items
<1>5. /\ Bill(o) \in Order /\ Bill(o).bill = total /\ Bill(o).items = items
      /\ Bill(o).table = o.table /\ Bill(o).billed = TRUE
  BY <1>1, <1>3, <1>4 DEF Order
<1> QED BY <1>4, <1>5

\* A cook's mark.
LEMMA MarkType ==
  ASSUME NEW o \in Order, NEW k \in DOMAIN o.items
  PROVE  LET marked == [o EXCEPT !.items[k].prepared = TRUE] IN
         /\ marked \in Order /\ marked.bill = o.bill /\ Total(marked.items) = Total(o.items)
         /\ marked.table = o.table /\ marked.billed = o.billed
<1> DEFINE items == [o.items EXCEPT ![k].prepared = TRUE]
           marked == [o EXCEPT !.items[k].prepared = TRUE]
<1>1. o.items \in Seq(Line) /\ Len(o.items) \in Nat /\ DOMAIN o.items = 1 .. Len(o.items)
      /\ \A i \in 1 .. Len(o.items) : o.items[i] \in Line
  <2>1. o.items \in Seq(Line)
    BY DEF Order
  <2> QED BY <2>1
<1>2. items \in Seq(Line) /\ Len(items) = Len(o.items)
      /\ \A i \in 1 .. Len(items) : Cost(items[i]) = Cost(o.items[i])
  <2> DEFINE line == [o.items[k] EXCEPT !.prepared = TRUE]
  <2>1. line \in Line /\ Cost(line) = Cost(o.items[k])
    BY <1>1, PreparedType
  <2>2. items = [o.items EXCEPT ![k] = line]
    OBVIOUS
  <2> HIDE DEF line, items
  <2>3. /\ items \in Seq(Line) /\ Len(items) = Len(o.items)
        /\ \A i \in 1 .. Len(o.items) : items[i] = IF i = k THEN line ELSE o.items[i]
    BY <1>1, <2>1, <2>2, ExceptSeq
  <2> QED BY <2>1, <2>3
<1>3. marked = [o EXCEPT !.items = items]
  OBVIOUS
<1> HIDE DEF items, marked
<1>4. /\ marked \in Order /\ marked.bill = o.bill /\ marked.items = items
      /\ marked.table = o.table /\ marked.billed = o.billed
  BY <1>2, <1>3 DEF Order
<1>5. Total(items) = Total(o.items)
  BY <1>1, <1>2, TotalSame
<1> QED BY <1>4, <1>5 DEF marked

-----------------------------------------------------------------------------
(***************************************************************************)
(* What each action does to the handlers, in one form for all of them: one *)
(* thread goes to a point with a frame, the others stay where they are.    *)
(***************************************************************************)
Turn(th, p, f) ==
  /\ pc' \in [Threads -> Points] /\ frame' \in [Threads -> Frame]
  /\ pc'[th] = p /\ frame'[th] = f
  /\ \A u \in Threads \ {th} : pc'[u] = pc[u] /\ frame'[u] = frame[u]
Ends(th) == \E p \in {"idle", "closed"} : Turn(th, p, NoFrame) /\ (leaving'[th] => p = "closed")

LEMMA TurnIs ==
  ASSUME HouseInv, NEW th \in Threads, NEW p \in Points, NEW f \in Frame,
         Goto(th, p), frame' = [frame EXCEPT ![th] = f]
  PROVE  Turn(th, p, f)
BY DEF HouseInv, Handlers, Goto, Turn

LEMMA GotoTurn ==
  ASSUME HouseInv, NEW th \in Threads, NEW p \in Points, Goto(th, p), frame' = frame
  PROVE  Turn(th, p, frame[th])
BY DEF HouseInv, Handlers, Goto, Turn

LEMMA FinishTurn ==
  ASSUME HouseInv, NEW th \in Threads, Finish(th)
  PROVE  Ends(th)
<1> DEFINE p == IF leaving'[th] THEN "closed" ELSE "idle"
<1>1. p \in {"idle", "closed"} /\ (leaving'[th] => p = "closed")
  OBVIOUS
<1>2. Goto(th, p) /\ frame' = [frame EXCEPT ![th] = NoFrame]
  BY DEF Finish
<1> HIDE DEF p
<1>3. p \in Points
  BY <1>1 DEF Points
<1>4. Turn(th, p, NoFrame)
  BY <1>2, <1>3, NoFrameType, TurnIs
<1> QED BY <1>1, <1>4 DEF Ends

LEMMA HandlersTurn ==
  ASSUME Handlers, NEW th \in Threads, NEW p, NEW f, Turn(th, p, f),
         p = "read_menu" => f.qty \in Quantities,
         session' \in [Threads -> OrderIds \cup {NoOrder}], leaving' \in [Threads -> BOOLEAN]
  PROVE  Handlers'
<1>1. \A u \in Threads : pc'[u] = "read_menu" => frame'[u].qty \in Quantities
  BY DEF Handlers, Turn
<1> QED BY <1>1 DEF Handlers, Turn

\* A step that keeps sessions and departures, and does not go to read_menu.
LEMMA HandlersKept ==
  ASSUME Handlers, NEW th \in Threads, UNCHANGED <<session, leaving>>,
         Ends(th) \/ \E p \in Points \ {"read_menu"}, f \in Frame : Turn(th, p, f)
  PROVE  Handlers'
<1>1. session' \in [Threads -> OrderIds \cup {NoOrder}] /\ leaving' \in [Threads -> BOOLEAN]
  BY DEF Handlers
<1> QED BY <1>1, HandlersTurn DEF Ends

-----------------------------------------------------------------------------
LEMMA BookReadForm ==
  ASSUME HouseInv, NEW g \in Threads, NEW t \in TableIds, BookRead(g, t)
  PROVE  /\ pc[g] = "idle" /\ session[g] = NoOrder /\ UNCHANGED <<db, session, leaving>>
         /\ \E f \in Frame : f.table = t /\ f.copy = frame[g].copy /\ Turn(g, "claim", f)
<1>0. frame[g] \in Frame /\ frame = [u \in Threads |-> frame[u]]
  BY DEF HouseInv, Handlers
<1>1. /\ pc[g] = "idle" /\ session[g] = NoOrder /\ UNCHANGED <<db, session, leaving>>
      /\ tables[t] # Absent /\ Goto(g, "claim")
      /\ frame' = [frame EXCEPT ![g].table = t, ![g].capacity = tables[t].capacity]
  BY Zenon DEF BookRead
<1>2. tables[t].capacity \in Capacities \cup {0}
  BY <1>1 DEF HouseInv, Files, Table
<1> DEFINE f == [frame[g] EXCEPT !.table = t, !.capacity = tables[t].capacity]
<1>3. f \in Frame /\ f.table = t /\ f.copy = frame[g].copy
  BY <1>0, <1>2 DEF Frame
<1>4. frame' = [frame EXCEPT ![g] = f]
  BY <1>0, <1>1
<1> HIDE DEF f
<1>5. Turn(g, "claim", f)
  BY <1>1, <1>3, <1>4, TurnIs DEF Points, Writing
<1> QED BY <1>1, <1>3, <1>5

LEMMA OrderReadForm ==
  ASSUME HouseInv, NEW g \in Threads, NEW i \in ItemIds, NEW q \in Quantities, OrderRead(g, i, q)
  PROVE  /\ pc[g] = "idle" /\ session[g] \in OrderIds /\ orders[session[g]] \in Order
         /\ UNCHANGED <<db, session, leaving>>
         /\ \E f \in Frame : /\ f.order = session[g] /\ f.qty = q /\ f.copy = orders[session[g]]
                             /\ Turn(g, "read_menu", f)
<1>0. frame[g] \in Frame /\ frame = [u \in Threads |-> frame[u]] /\ session[g] \in OrderIds \cup {NoOrder}
  BY DEF HouseInv, Handlers
<1> DEFINE o == session[g]
<1>1. /\ pc[g] = "idle" /\ o # NoOrder /\ orders[o] # Absent /\ Goto(g, "read_menu")
      /\ UNCHANGED <<db, session, leaving>>
      /\ frame' = [frame EXCEPT ![g].order = o, ![g].item = i, ![g].qty = q, ![g].copy = orders[o]]
  BY Zenon DEF OrderRead
<1>2. o \in OrderIds /\ orders[o] \in Order
  BY <1>0, <1>1 DEF HouseInv, Files
<1> HIDE DEF o
<1> DEFINE f == [frame[g] EXCEPT !.order = o, !.item = i, !.qty = q, !.copy = orders[o]]
<1>3. f \in Frame /\ f.order = o /\ f.qty = q /\ f.copy = orders[o]
  BY <1>0, <1>2 DEF Frame
<1>4. frame' = [frame EXCEPT ![g] = f]
  BY <1>0, <1>1
<1> HIDE DEF f
<1>5. Turn(g, "read_menu", f)
  BY <1>1, <1>3, <1>4, TurnIs DEF Points
<1> QED BY <1>1, <1>2, <1>3, <1>5 DEF o

\* An item is added to the copy a handler holds, or the request ends.
LEMMA OrderMenuForm ==
  ASSUME HouseInv, NEW g \in Threads, OrderMenu(g)
  PROVE  /\ pc[g] = "read_menu" /\ UNCHANGED <<db, session, leaving>>
         /\ \/ Ends(g)
            \/ \E line \in Line, f \in Frame :
                 /\ f.order = frame[g].order /\ f.copy.table = frame[g].copy.table
                 /\ f.copy.billed = frame[g].copy.billed
                 /\ f.copy.items = Append(frame[g].copy.items, line)
                 /\ f.copy.bill = frame[g].copy.bill + Cost(line)
                 /\ Turn(g, "add_item", f)
<1> DEFINE i == frame[g].item
           line == [item |-> i, price |-> menu[i], qty |-> frame[g].qty, prepared |-> FALSE]
           o == frame[g].copy
<1>1. pc[g] = "read_menu" /\ UNCHANGED <<db, session, leaving>>
  BY Zenon DEF OrderMenu
<1>2. CASE Finish(g)
  BY <1>1, <1>2, FinishTurn
<1>3. CASE ~Finish(g)
  <2>1. /\ menu[i] # Absent /\ Goto(g, "add_item")
        /\ frame' = [frame EXCEPT ![g].copy.items = Append(@, line), ![g].copy.bill = @ + Cost(line)]
    BY <1>3, Zenon DEF OrderMenu
  <2>2. i \in ItemIds /\ o \in Order /\ frame[g] \in Frame /\ frame[g].qty \in Quantities
    BY <1>1 DEF HouseInv, Handlers, Frame
  <2>3. menu[i] \in Prices
    BY <2>1, <2>2 DEF HouseInv, Files
  <2>4. line \in Line
    BY <2>2, <2>3 DEF Line
  <2> HIDE DEF line
  <2>5. Cost(line) \in Nat
    BY <2>4, CostNat
  <2> DEFINE items == Append(o.items, line)
             bill == o.bill + Cost(line)
  <2>6. items \in Seq(Line) /\ bill \in Nat
    <3>1. o.items \in Seq(Line) /\ o.bill \in Nat
      BY <2>2 DEF Order
    <3> QED BY <2>4, <2>5, <3>1
  <2> DEFINE new == [o EXCEPT !.items = items, !.bill = bill]
             f == [frame[g] EXCEPT !.copy = new]
  <2>7. frame' = [frame EXCEPT ![g] = f]
    <3>1. frame = [u \in Threads |-> frame[u]]
      BY DEF HouseInv, Handlers
    <3>2. frame[g] = [table |-> frame[g].table, capacity |-> frame[g].capacity, order |-> frame[g].order,
                      item |-> frame[g].item, qty |-> frame[g].qty, copy |-> o]
      BY <2>2 DEF Frame
    <3>3. o = [table |-> o.table, items |-> o.items, bill |-> o.bill, billed |-> o.billed]
      BY <2>2 DEF Order
    <3> QED BY <2>1, <3>1, <3>2, <3>3
  <2> HIDE DEF items, bill
  <2>8. new \in Order /\ new.items = items /\ new.bill = bill /\ new.table = o.table /\ new.billed = o.billed
    BY <2>2, <2>6 DEF Order
  <2> HIDE DEF new
  <2>9. f \in Frame /\ f.copy = new /\ f.order = frame[g].order
    BY <2>2, <2>8 DEF Frame
  <2> HIDE DEF f
  <2>10. f.copy.items = Append(o.items, line) /\ f.copy.bill = o.bill + Cost(line)
    BY <2>8, <2>9 DEF items, bill
  <2>11. Turn(g, "add_item", f)
    BY <2>1, <2>7, <2>9, TurnIs DEF Points, Writing
  <2> QED BY <1>1, <2>4, <2>8, <2>9, <2>10, <2>11
<1> QED BY <1>2, <1>3

\* The order is billed in a copy, or there is nothing to bill.
LEMMA BillReadForm ==
  ASSUME HouseInv, NEW g \in Threads, BillRead(g)
  PROVE  /\ pc[g] = "idle" /\ session[g] \in OrderIds /\ UNCHANGED <<db, session>>
         /\ leaving' \in [Threads -> BOOLEAN] /\ \A u \in Threads \ {g} : leaving'[u] = leaving[u]
         /\ \/ (orders[session[g]] = Absent \/ orders[session[g]].billed) /\ Ends(g)
            \/ /\ orders[session[g]] \in Order /\ ~orders[session[g]].billed
               /\ \E f \in Frame :
                    /\ f.order = session[g] /\ f.copy.table = orders[session[g]].table
                    /\ f.copy.billed /\ f.copy.bill = Total(f.copy.items)
                    /\ Turn(g, "bill", f)
<1> DEFINE o == session[g]
<1>0. /\ frame[g] \in Frame /\ frame = [u \in Threads |-> frame[u]] /\ o \in OrderIds \cup {NoOrder}
      /\ leaving \in [Threads -> BOOLEAN]
  BY DEF HouseInv, Handlers
<1>1. pc[g] = "idle" /\ o # NoOrder /\ UNCHANGED <<db, session>>
  BY Zenon DEF BillRead
<1>2. leaving' \in [Threads -> BOOLEAN] /\ \A u \in Threads \ {g} : leaving'[u] = leaving[u]
  <2>1. leaving' \in {leaving, [leaving EXCEPT ![g] = TRUE]}
    BY Zenon DEF BillRead
  <2> QED BY <1>0, <2>1
<1>3. CASE orders[o] = Absent \/ orders[o].billed
  <2>1. Finish(g)
    BY <1>3, Zenon DEF BillRead
  <2>2. Ends(g)
    BY <2>1, FinishTurn
  <2> QED BY <1>0, <1>1, <1>2, <1>3, <2>2
<1>4. CASE ~(orders[o] = Absent \/ orders[o].billed)
  <2>1. Goto(g, "bill") /\ frame' = [frame EXCEPT ![g].order = o, ![g].copy = Bill(orders[o])]
    BY <1>4, Zenon DEF BillRead
  <2>2. o \in OrderIds /\ orders[o] \in Order
    BY <1>0, <1>1, <1>4 DEF HouseInv, Files
  <2> HIDE DEF o
  <2> DEFINE b == Bill(orders[o])
  <2>3. b \in Order /\ b.bill = Total(b.items) /\ b.table = orders[o].table /\ b.billed = TRUE
    BY <2>2, BillType
  <2> HIDE DEF b
  <2> DEFINE f == [frame[g] EXCEPT !.order = o, !.copy = b]
  <2>4. f \in Frame /\ f.order = o /\ f.copy = b
    BY <1>0, <2>2, <2>3 DEF Frame
  <2>5. frame' = [frame EXCEPT ![g] = f]
    BY <1>0, <2>1 DEF b
  <2> HIDE DEF f
  <2>6. Turn(g, "bill", f)
    BY <2>1, <2>4, <2>5, TurnIs DEF Points, Writing
  <2> QED BY <1>1, <1>2, <1>4, <2>2, <2>3, <2>4, <2>6 DEF o
<1> QED BY <1>3, <1>4

LEMMA MarkReadForm ==
  ASSUME HouseInv, NEW c \in Threads, NEW o \in OrderIds, NEW k, MarkRead(c, o, k)
  PROVE  /\ pc[c] = "idle" /\ orders[o] \in Order /\ UNCHANGED <<db, session, leaving>>
         /\ \E f \in Frame : /\ f.order = o /\ f.copy.table = orders[o].table
                             /\ f.copy.billed = orders[o].billed /\ f.copy.bill = orders[o].bill
                             /\ Total(f.copy.items) = Total(orders[o].items)
                             /\ Turn(c, "mark", f)
<1>0. frame[c] \in Frame /\ frame = [u \in Threads |-> frame[u]]
  BY DEF HouseInv, Handlers
<1> DEFINE marked == [orders[o] EXCEPT !.items[k].prepared = TRUE]
<1>1. /\ pc[c] = "idle" /\ orders[o] # Absent /\ k \in DOMAIN orders[o].items
      /\ Goto(c, "mark") /\ UNCHANGED <<db, session, leaving>>
      /\ frame' = [frame EXCEPT ![c].order = o, ![c].copy = marked]
  BY Zenon DEF MarkRead
<1>2. orders[o] \in Order
  BY <1>1 DEF HouseInv, Files
<1>3. /\ marked \in Order /\ marked.bill = orders[o].bill /\ Total(marked.items) = Total(orders[o].items)
      /\ marked.table = orders[o].table /\ marked.billed = orders[o].billed
  BY <1>1, <1>2, MarkType
<1> HIDE DEF marked
<1> DEFINE f == [frame[c] EXCEPT !.order = o, !.copy = marked]
<1>4. f \in Frame /\ f.order = o /\ f.copy = marked
  BY <1>0, <1>3 DEF Frame
<1>5. frame' = [frame EXCEPT ![c] = f]
  BY <1>0, <1>1
<1> HIDE DEF f
<1>6. Turn(c, "mark", f)
  BY <1>1, <1>4, <1>5, TurnIs DEF Points, Writing
<1> QED BY <1>1, <1>2, <1>3, <1>4, <1>6

LEMMA DeleteReadForm ==
  ASSUME HouseInv, NEW a \in Threads, NEW o \in OrderIds, DeleteOrderRead(a, o)
  PROVE  /\ pc[a] = "idle" /\ "delete_order" \in AdminCommands /\ UNCHANGED <<db, session, leaving>>
         /\ \E f \in Frame : f.order = o /\ f.copy = frame[a].copy /\ Turn(a, "delete_order", f)
<1>0. frame[a] \in Frame /\ frame = [u \in Threads |-> frame[u]]
  BY DEF HouseInv, Handlers
<1>1. /\ pc[a] = "idle" /\ "delete_order" \in AdminCommands /\ UNCHANGED <<db, session, leaving>>
      /\ frame' = [frame EXCEPT ![a].order = o] /\ Goto(a, "delete_order")
  BY Zenon DEF DeleteOrderRead
<1> DEFINE f == [frame[a] EXCEPT !.order = o]
<1>2. f \in Frame /\ f.order = o /\ f.copy = frame[a].copy
  BY <1>0 DEF Frame
<1>3. frame' = [frame EXCEPT ![a] = f]
  BY <1>0, <1>1
<1> HIDE DEF f
<1>4. Turn(a, "delete_order", f)
  BY <1>1, <1>2, <1>3, TurnIs DEF Points, Writing
<1> QED BY <1>1, <1>2, <1>4

\* A call fails: the thread goes on to the rollback or ends its request, and may
\* leave the call behind.
LEMMA FailureForm ==
  ASSUME HouseInv, NEW th \in Threads, CallFails(th)
  PROVE  /\ failures' = failures + 1 /\ failures + 1 \in FailureIds
         /\ pc[th] \notin {"idle", "closed"}
         /\ UNCHANGED <<tables, menu, orders, used, session, leaving, reopened>>
         /\ late' \in [FailureIds -> [call : Writing \cup {"none"}, frame : Frame]]
         /\ \A n \in FailureIds :
              \/ late'[n] = late[n]
              \/ n = failures + 1 /\ pc[th] \in Writing /\ late'[n].call = pc[th] /\ late'[n].frame = frame[th]
         /\ \/ pc[th] = "insert" /\ Turn(th, "rollback", frame[th])
            \/ pc[th] # "insert" /\ Ends(th)
<1>0. /\ failures \in Nat /\ MaxFailures \in Nat /\ frame[th] \in Frame
      /\ late \in [FailureIds -> [call : Writing \cup {"none"}, frame : Frame]]
  BY RestaurantAssumption DEF HouseInv, Files, Handlers
<1>1. /\ failures < MaxFailures /\ failures' = failures + 1 /\ pc[th] \notin {"idle", "closed"}
      /\ UNCHANGED <<tables, menu, orders, used, session, leaving, reopened>>
      /\ \/ late' = late
         \/ /\ pc[th] \in Writing
            /\ late' = [late EXCEPT ![failures'] = [call |-> pc[th], frame |-> frame[th]]]
  BY DEF CallFails
<1>2. failures + 1 \in FailureIds
  BY <1>0, <1>1 DEF FailureIds
<1>3. /\ late' \in [FailureIds -> [call : Writing \cup {"none"}, frame : Frame]]
      /\ \A n \in FailureIds :
           \/ late'[n] = late[n]
           \/ n = failures + 1 /\ pc[th] \in Writing /\ late'[n].call = pc[th] /\ late'[n].frame = frame[th]
  <2>1. CASE late' = late
    BY <1>0, <2>1
  <2>2. CASE /\ pc[th] \in Writing
             /\ late' = [late EXCEPT ![failures + 1] = [call |-> pc[th], frame |-> frame[th]]]
    BY <1>0, <1>2, <2>2
  <2> QED BY <1>1, <2>1, <2>2
<1>5. pc[th] = "insert" => Turn(th, "rollback", frame[th])
  BY GotoTurn DEF CallFails, Points, Writing
<1>6. pc[th] # "insert" => Ends(th)
  BY FinishTurn DEF CallFails
<1> QED BY <1>0, <1>1, <1>2, <1>3, <1>5, <1>6

LEMMA LateForm ==
  ASSUME HouseInv, NEW n \in FailureIds, LateWrite(n)
  PROVE  /\ late[n].frame \in Frame /\ late'[n] = NoLate
         /\ \A m \in FailureIds \ {n} : late'[m] = late[m]
         /\ late' \in [FailureIds -> [call : Writing \cup {"none"}, frame : Frame]]
         /\ UNCHANGED <<menu, pc, session, leaving, frame, failures>>
<1>1. NoLate \in [call : Writing \cup {"none"}, frame : Frame]
  BY NoFrameType DEF NoLate
<1>2. late' = [late EXCEPT ![n] = NoLate] /\ UNCHANGED <<menu, pc, session, leaving, frame, failures>>
  BY DEF LateWrite
<1> QED BY <1>1, <1>2 DEF HouseInv, Files

-----------------------------------------------------------------------------
\* What the writes leave in the files.
LEMMA TableWritten ==
  ASSUME HouseInv, NEW t \in TableIds, NEW from \in BOOLEAN, NEW to \in BOOLEAN, NEW cap \in Capacities \cup {0},
         FindAndUpdateTable(t, from, to, cap)
  PROVE  /\ tables' \in [TableIds -> Table \cup {Absent}]
         /\ \A u \in TableIds : tables'[u] = Absent <=> tables[u] = Absent
         /\ \A u \in TableIds : ~(u = t /\ Matches(t, from)) => tables'[u] = tables[u]
         /\ Matches(t, from) => tables'[t].occupied = to
<1>1. [capacity |-> cap, occupied |-> to] \in Table
  BY DEF Table
<1>2. [capacity |-> cap, occupied |-> to] # Absent
  BY <1>1, NoRecord
<1>3. tables \in [TableIds -> Table \cup {Absent}]
  BY DEF HouseInv, Files
<1>4. CASE Matches(t, from)
  <2>1. tables' = [tables EXCEPT ![t] = [capacity |-> cap, occupied |-> to]] /\ tables[t] # Absent
    BY <1>4 DEF FindAndUpdateTable, Matches
  <2> QED BY <1>1, <1>2, <1>3, <1>4, <2>1
<1>5. CASE ~Matches(t, from)
  BY <1>3, <1>5 DEF FindAndUpdateTable
<1> QED BY <1>4, <1>5

LEMMA OrderWritten ==
  ASSUME HouseInv, NEW f \in Frame, UpdateOrder(f)
  PROVE  /\ orders' \in [OrderIds -> Order \cup {Absent}] /\ reopened' \in BOOLEAN
         /\ \A o \in OrderIds : o # f.order \/ orders[o] = Absent => orders'[o] = orders[o]
         /\ orders[f.order] # Absent => orders'[f.order] = f.copy
         /\ f.order \in OrderIds /\ f.copy \in Order /\ f.copy # Absent
         /\ reopened' = (reopened \/ (orders[f.order] # Absent /\ orders[f.order].billed /\ ~f.copy.billed))
<1>1. f.order \in OrderIds /\ f.copy \in Order /\ f.copy # Absent
  BY NoRecord DEF Frame
<1> DEFINE gone == orders[f.order] = Absent
           again == orders[f.order] # Absent /\ orders[f.order].billed /\ ~f.copy.billed
<1>2. orders' = (IF gone THEN orders ELSE [orders EXCEPT ![f.order] = f.copy]) /\ reopened' = (reopened \/ again)
  BY DEF UpdateOrder
<1>3. again \in BOOLEAN
  OBVIOUS
<1>4. reopened' \in BOOLEAN
  <2> HIDE DEF again
  <2> QED BY <1>2, <1>3 DEF HouseInv, Files
<1>5. /\ orders' \in [OrderIds -> Order \cup {Absent}]
      /\ \A o \in OrderIds : o # f.order \/ orders[o] = Absent => orders'[o] = orders[o]
      /\ orders[f.order] # Absent => orders'[f.order] = f.copy
  <2>1. orders \in [OrderIds -> Order \cup {Absent}]
    BY DEF HouseInv, Files
  <2> HIDE DEF again
  <2> QED BY <1>1, <1>2, <2>1
<1> QED BY <1>1, <1>2, <1>4, <1>5

LEMMA OrderInserted ==
  ASSUME HouseInv, NEW f \in Frame, InsertOrder(f)
  PROVE  /\ orders' \in [OrderIds -> Order \cup {Absent}] /\ used' \in Limits
         /\ used.orders \in OrderIds /\ used'.orders = used.orders + 1 /\ used'.tables = used.tables
         /\ orders'[used.orders] = NewOrder(f.table) /\ NewOrder(f.table) \in Order
         /\ \A o \in OrderIds \ {used.orders} : orders'[o] = orders[o]
<1>1. used.orders < MaxOrders /\ used' = [used EXCEPT !.orders = @ + 1]
      /\ orders' = [orders EXCEPT ![used.orders] = NewOrder(f.table)]
  BY DEF InsertOrder
<1>2. used \in Limits /\ MaxOrders \in Nat /\ orders \in [OrderIds -> Order \cup {Absent}]
  BY RestaurantAssumption DEF HouseInv, Files
<1>3. used.orders \in OrderIds /\ used.orders + 1 \in 0 .. MaxOrders
  BY <1>1, <1>2 DEF OrderIds, Limits
<1>4. used' \in Limits /\ used'.orders = used.orders + 1 /\ used'.tables = used.tables
  BY <1>1, <1>2, <1>3 DEF Limits
<1>5. NewOrder(f.table) \in Order
  BY NewOrderType DEF Frame
<1> QED BY <1>1, <1>2, <1>3, <1>4, <1>5

LEMMA OrderRemoved ==
  ASSUME HouseInv, NEW f \in Frame, RemoveOrder(f)
  PROVE  /\ orders' \in [OrderIds -> Order \cup {Absent}] /\ f.order \in OrderIds
         /\ orders'[f.order] = Absent /\ \A o \in OrderIds \ {f.order} : orders'[o] = orders[o]
BY DEF HouseInv, Files, Frame, RemoveOrder

-----------------------------------------------------------------------------
LEMMA GuestHouse ==
  ASSUME HouseInv, NEW g \in Guests, GuestAsks(g)
  PROVE  HouseInv'
<1>0. g \in Threads /\ Files /\ Handlers
  BY DEF Threads, HouseInv
<1>1. ASSUME NEW t \in TableIds, BookRead(g, t) PROVE HouseInv'
  <2>1. Handlers' /\ UNCHANGED db
    BY <1>0, <1>1, BookReadForm, HandlersKept DEF Points, Writing
  <2> QED BY <1>0, <2>1 DEF HouseInv, Files, db
<1>2. ASSUME NEW i \in ItemIds, NEW q \in Quantities, OrderRead(g, i, q) PROVE HouseInv'
  <2>1. UNCHANGED <<db, session, leaving>> /\ \E f \in Frame : f.qty = q /\ Turn(g, "read_menu", f)
    BY <1>0, <1>2, OrderReadForm
  <2>2. session' \in [Threads -> OrderIds \cup {NoOrder}] /\ leaving' \in [Threads -> BOOLEAN]
    BY <1>0, <2>1 DEF Handlers
  <2>3. Handlers'
    BY <1>0, <2>1, <2>2, HandlersTurn
  <2> QED BY <1>0, <2>1, <2>3 DEF HouseInv, Files, db
<1>3. CASE BillRead(g)
  <2>1. /\ UNCHANGED <<db, session>> /\ leaving' \in [Threads -> BOOLEAN]
        /\ \E p, f : p # "read_menu" /\ Turn(g, p, f)
    BY <1>0, <1>3, BillReadForm DEF Ends
  <2>2. session' \in [Threads -> OrderIds \cup {NoOrder}]
    BY <1>0, <2>1 DEF Handlers
  <2>3. Handlers'
    BY <1>0, <2>1, <2>2, HandlersTurn
  <2> QED BY <1>0, <2>1, <2>3 DEF HouseInv, Files, db
<1>4. CASE Leave(g)
  <2>1. Goto(g, "closed") /\ UNCHANGED <<db, session, leaving, frame>> /\ frame[g] \in Frame
    BY <1>0, <1>4 DEF Leave, Handlers
  <2>2. Handlers'
    BY <1>0, <2>1, GotoTurn, HandlersKept DEF Points
  <2> QED BY <1>0, <2>1, <2>2 DEF HouseInv, Files, db
<1>5. CASE Connect(g)
  <2>1. /\ Goto(g, "idle") /\ UNCHANGED <<db, frame>>
        /\ session' = [session EXCEPT ![g] = NoOrder] /\ leaving' = [leaving EXCEPT ![g] = FALSE]
    BY <1>5 DEF Connect
  <2>2. session' \in [Threads -> OrderIds \cup {NoOrder}] /\ leaving' \in [Threads -> BOOLEAN]
    BY <1>0, <2>1 DEF Handlers
  <2>3. Handlers'
    BY <1>0, <2>1, <2>2, GotoTurn, HandlersTurn DEF Points
  <2> QED BY <1>0, <2>1, <2>3 DEF HouseInv, Files, db
<1> QED BY <1>1, <1>2, <1>3, <1>4, <1>5 DEF GuestAsks

LEMMA ChefHouse ==
  ASSUME HouseInv, NEW c \in Chefs, NEW o \in OrderIds, NEW k, MarkRead(c, o, k)
  PROVE  HouseInv'
<1>1. c \in Threads /\ Files /\ Handlers
  BY DEF Threads, HouseInv
<1>2. Handlers' /\ UNCHANGED db
  BY <1>1, MarkReadForm, HandlersKept DEF Points, Writing
<1> QED BY <1>1, <1>2 DEF HouseInv, Files, db

LEMMA AdminHouse ==
  ASSUME HouseInv, NEW a \in Admins, AdminAsks(a)
  PROVE  HouseInv'
<1>0. a \in Threads /\ Files /\ Handlers /\ frame[a] \in Frame
  BY DEF Threads, HouseInv, Handlers
<1>n. MaxTables \in Nat /\ MaxMenu \in Nat
  BY RestaurantAssumption
<1>1. ASSUME NEW n \in Capacities, AddTable(a, n) PROVE HouseInv'
  <2>1. /\ used.tables < MaxTables /\ used' = [used EXCEPT !.tables = @ + 1]
        /\ tables' = [tables EXCEPT ![used.tables] = [capacity |-> n, occupied |-> FALSE]]
        /\ UNCHANGED <<menu, orders, pc, session, leaving, frame, failures, late, reopened>>
    BY <1>1 DEF AddTable
  <2>2. [capacity |-> n, occupied |-> FALSE] \in Table
    BY DEF Table
  <2>3. tables' \in [TableIds -> Table \cup {Absent}]
    BY <1>0, <2>1, <2>2 DEF Files
  <2>4. used' \in Limits
    BY <1>0, <1>n, <2>1 DEF Files, Limits
  <2> QED BY <1>0, <2>1, <2>3, <2>4 DEF HouseInv, Files, Handlers
<1>2. ASSUME NEW p \in Prices, AddMenu(a, p) PROVE HouseInv'
  <2>1. /\ used.menu < MaxMenu /\ used' = [used EXCEPT !.menu = @ + 1]
        /\ menu' = [menu EXCEPT ![used.menu] = p]
        /\ UNCHANGED <<tables, orders, pc, session, leaving, frame, failures, late, reopened>>
    BY <1>2 DEF AddMenu
  <2>2. menu' \in [ItemIds -> Prices \cup {Absent}]
    BY <1>0, <2>1 DEF Files
  <2>3. used' \in Limits
    BY <1>0, <1>n, <2>1 DEF Files, Limits
  <2> QED BY <1>0, <2>1, <2>2, <2>3 DEF HouseInv, Files, Handlers
<1>3. ASSUME NEW t \in TableIds, DeleteTable(a, t) PROVE HouseInv'
  <2>1. /\ tables' = [tables EXCEPT ![t] = Absent]
        /\ UNCHANGED <<menu, orders, used, pc, session, leaving, frame, failures, late, reopened>>
    BY <1>3 DEF DeleteTable
  <2>2. tables' \in [TableIds -> Table \cup {Absent}]
    BY <1>0, <2>1 DEF Files
  <2> QED BY <1>0, <2>1, <2>2 DEF HouseInv, Files, Handlers
<1>4. ASSUME NEW i \in ItemIds, DeleteMenu(a, i) PROVE HouseInv'
  <2>1. /\ menu' = [menu EXCEPT ![i] = Absent]
        /\ UNCHANGED <<tables, orders, used, pc, session, leaving, frame, failures, late, reopened>>
    BY <1>4 DEF DeleteMenu
  <2>2. menu' \in [ItemIds -> Prices \cup {Absent}]
    BY <1>0, <2>1 DEF Files
  <2> QED BY <1>0, <2>1, <2>2 DEF HouseInv, Files, Handlers
<1>5. ASSUME NEW o \in OrderIds, DeleteOrderRead(a, o) PROVE HouseInv'
  <2>1. Handlers' /\ UNCHANGED db
    BY <1>0, <1>5, DeleteReadForm, HandlersKept DEF Points, Writing
  <2> QED BY <1>0, <2>1 DEF HouseInv, Files, db
<1> QED BY <1>1, <1>2, <1>3, <1>4, <1>5 DEF AdminAsks

LEMMA GoesOnHouse ==
  ASSUME HouseInv, NEW th \in Threads, Continue(th) \/ CallFails(th)
  PROVE  HouseInv'
<1>0. /\ Files /\ Handlers /\ frame[th] \in Frame /\ frame[th].table \in TableIds
      /\ frame[th].capacity \in Capacities \cup {0} /\ frame[th].copy.table \in TableIds
  BY DEF HouseInv, Handlers, Frame, Order
<1>1. CASE BookClaim(th)
  <2>1. /\ FindAndUpdateTable(frame[th].table, FALSE, TRUE, frame[th].capacity)
        /\ UNCHANGED <<menu, orders, used, session, leaving, failures, late, reopened>>
        /\ Finish(th) \/ (Goto(th, "insert") /\ frame' = frame)
    BY <1>1 DEF BookClaim
  <2>2. Handlers'
    BY <1>0, <2>1, FinishTurn, GotoTurn, HandlersKept DEF Points, Writing
  <2> QED BY <1>0, <2>1, <2>2, TableWritten DEF HouseInv, Files
<1>2. CASE BookInsert(th)
  <2>1. /\ InsertOrder(frame[th]) /\ session' = [session EXCEPT ![th] = used.orders]
        /\ UNCHANGED <<tables, menu, leaving, failures, late, reopened>> /\ Finish(th)
    BY <1>2 DEF BookInsert
  <2>2. orders' \in [OrderIds -> Order \cup {Absent}] /\ used' \in Limits /\ used.orders \in OrderIds
    BY <1>0, <2>1, OrderInserted
  <2>3. session' \in [Threads -> OrderIds \cup {NoOrder}] /\ leaving' \in [Threads -> BOOLEAN]
    BY <1>0, <2>1, <2>2 DEF Handlers
  <2>4. Handlers'
    BY <1>0, <2>1, <2>3, FinishTurn, HandlersTurn DEF Ends
  <2> QED BY <1>0, <2>1, <2>2, <2>4 DEF HouseInv, Files
<1>3. CASE BookInsertFails(th)
  <2>1. Goto(th, "rollback") /\ UNCHANGED <<db, session, leaving, frame>>
    BY <1>3 DEF BookInsertFails
  <2>2. Handlers'
    BY <1>0, <2>1, GotoTurn, HandlersKept DEF Points, Writing
  <2> QED BY <1>0, <2>1, <2>2 DEF HouseInv, Files, db
<1>4. CASE BookRollback(th)
  <2>1. /\ FindAndUpdateTable(frame[th].table, TRUE, FALSE, frame[th].capacity) /\ Finish(th)
        /\ UNCHANGED <<menu, orders, used, session, leaving, failures, late, reopened>>
    BY <1>4 DEF BookRollback
  <2>2. Handlers'
    BY <1>0, <2>1, FinishTurn, HandlersKept
  <2> QED BY <1>0, <2>1, <2>2, TableWritten DEF HouseInv, Files
<1>5. CASE OrderMenu(th)
  <2>1. Handlers' /\ UNCHANGED db
    BY <1>0, <1>5, OrderMenuForm, HandlersKept DEF Points, Writing
  <2> QED BY <1>0, <2>1 DEF HouseInv, Files, db
<1>6. CASE OrderUpdate(th) \/ MarkUpdate(th) \/ BillUpdate(th)
  <2>1. /\ UpdateOrder(frame[th]) /\ UNCHANGED <<tables, menu, used, session, leaving, failures, late>>
        /\ Finish(th) \/ (Goto(th, "free") /\ frame' = frame)
    BY <1>6 DEF OrderUpdate, MarkUpdate, BillUpdate
  <2>2. Handlers'
    BY <1>0, <2>1, FinishTurn, GotoTurn, HandlersKept DEF Points, Writing
  <2>3. orders' \in [OrderIds -> Order \cup {Absent}] /\ reopened' \in BOOLEAN
    BY <1>0, <2>1, OrderWritten
  <2> QED BY <1>0, <2>1, <2>2, <2>3 DEF HouseInv, Files
<1>7. CASE BillFree(th)
  <2>1. /\ FindAndUpdateTable(frame[th].copy.table, TRUE, FALSE, 0) /\ Finish(th)
        /\ UNCHANGED <<menu, orders, used, session, leaving, failures, late, reopened>>
    BY <1>7 DEF BillFree
  <2>2. Handlers'
    BY <1>0, <2>1, FinishTurn, HandlersKept
  <2> QED BY <1>0, <2>1, <2>2, TableWritten DEF HouseInv, Files
<1>8. CASE DeleteOrder(th)
  <2>1. /\ RemoveOrder(frame[th]) /\ Finish(th)
        /\ UNCHANGED <<tables, menu, used, session, leaving, failures, late, reopened>>
    BY <1>8 DEF DeleteOrder
  <2>2. Handlers'
    BY <1>0, <2>1, FinishTurn, HandlersKept
  <2> QED BY <1>0, <2>1, <2>2, OrderRemoved DEF HouseInv, Files
<1>9. CASE CallFails(th)
  <2>1. /\ failures' = failures + 1 /\ failures + 1 \in FailureIds
        /\ UNCHANGED <<tables, menu, orders, used, session, leaving, reopened>>
        /\ late' \in [FailureIds -> [call : Writing \cup {"none"}, frame : Frame]]
        /\ Ends(th) \/ Turn(th, "rollback", frame[th])
    BY <1>9, FailureForm
  <2>2. Handlers'
    BY <1>0, <2>1, HandlersKept DEF Points, Writing
  <2>3. failures' \in 0 .. MaxFailures
    BY <2>1, RestaurantAssumption DEF FailureIds
  <2> QED BY <1>0, <2>1, <2>2, <2>3 DEF HouseInv, Files
<1> QED BY <1>1, <1>2, <1>3, <1>4, <1>5, <1>6, <1>7, <1>8, <1>9 DEF Continue

LEMMA LateHouse ==
  ASSUME HouseInv, NEW n \in FailureIds, LateWrite(n)
  PROVE  HouseInv'
<1> DEFINE f == late[n].frame
<1>0. /\ Files /\ Handlers /\ f \in Frame /\ f.table \in TableIds /\ f.capacity \in Capacities \cup {0}
      /\ f.copy.table \in TableIds
      /\ late' \in [FailureIds -> [call : Writing \cup {"none"}, frame : Frame]]
      /\ UNCHANGED <<menu, pc, session, leaving, frame, failures>>
  BY LateForm DEF HouseInv, Frame, Order
<1>1. Handlers'
  BY <1>0 DEF Handlers
<1>2. CASE /\ \/ FindAndUpdateTable(f.table, FALSE, TRUE, f.capacity)
              \/ FindAndUpdateTable(f.table, TRUE, FALSE, f.capacity)
              \/ FindAndUpdateTable(f.copy.table, TRUE, FALSE, 0)
           /\ UNCHANGED <<orders, used, reopened>>
  <2>1. tables' \in [TableIds -> Table \cup {Absent}]
    BY <1>0, <1>2, TableWritten
  <2> QED BY <1>0, <1>1, <1>2, <2>1 DEF HouseInv, Files
<1>3. CASE InsertOrder(f) /\ UNCHANGED <<tables, reopened>>
  BY <1>0, <1>1, <1>3, OrderInserted DEF HouseInv, Files
<1>4. CASE UpdateOrder(f) /\ UNCHANGED <<tables, used>>
  BY <1>0, <1>1, <1>4, OrderWritten DEF HouseInv, Files
<1>5. CASE RemoveOrder(f) /\ UNCHANGED <<tables, used, reopened>>
  BY <1>0, <1>1, <1>5, OrderRemoved DEF HouseInv, Files
<1> QED BY <1>2, <1>3, <1>4, <1>5 DEF LateWrite

LEMMA HouseNext == HouseInv /\ [Next]_vars => HouseInv'
<1> SUFFICES ASSUME HouseInv, [Next]_vars PROVE HouseInv'
  OBVIOUS
<1>1. CASE UNCHANGED vars
  BY <1>1 DEF vars, HouseInv, Files, Handlers
<1>2. ASSUME NEW c \in Chefs, ChefAsks(c) PROVE HouseInv'
  BY <1>2, ChefHouse DEF ChefAsks
<1> QED BY <1>1, <1>2, GuestHouse, AdminHouse, GoesOnHouse, LateHouse DEF Next

LEMMA HouseInit == Init => HouseInv
<1> SUFFICES ASSUME Init PROVE HouseInv
  OBVIOUS
<1>1. tables \in [TableIds -> Table \cup {Absent}]
  <2>1. ASSUME NEW t \in TableIds, t < Len(FirstTables)
        PROVE  [capacity |-> FirstTables[t + 1], occupied |-> FALSE] \in Table
    <3>1. t + 1 \in 1 .. Len(FirstTables)
      BY <2>1, RestaurantAssumption DEF TableIds
    <3>2. FirstTables[t + 1] \in Capacities
      BY <3>1, RestaurantAssumption
    <3> QED BY <3>2 DEF Table
  <2> QED BY <2>1 DEF Init
<1>2. menu \in [ItemIds -> Prices \cup {Absent}]
  <2>1. ASSUME NEW i \in ItemIds, i < Len(FirstMenu) PROVE FirstMenu[i + 1] \in Prices
    <3>1. i + 1 \in 1 .. Len(FirstMenu)
      BY <2>1, RestaurantAssumption DEF ItemIds
    <3> QED BY <3>1, RestaurantAssumption
  <2> QED BY <2>1 DEF Init
<1>3. used \in Limits
  <2>1. Len(FirstTables) \in 0 .. MaxTables /\ Len(FirstMenu) \in 0 .. MaxMenu /\ 0 \in 0 .. MaxOrders
    BY RestaurantAssumption
  <2> QED BY <2>1 DEF Init, Limits
<1>4. Handlers
  BY NoFrameType DEF Init, Handlers, Points
<1>5. late \in [FailureIds -> [call : Writing \cup {"none"}, frame : Frame]]
  BY NoFrameType DEF Init, NoLate
<1>6. orders \in [OrderIds -> Order \cup {Absent}] /\ failures \in 0 .. MaxFailures
  BY RestaurantAssumption DEF Init
<1>7. reopened \in BOOLEAN
  BY DEF Init
<1> QED BY <1>1, <1>2, <1>3, <1>4, <1>5, <1>6, <1>7 DEF HouseInv, Files

\* The files and the handlers keep their shape, whatever the handlers of guests,
\* chefs and admins do at once and whenever a failed call takes effect: no stale
\* copy ever names a table or an order that cannot be, or a price or a quantity
\* nobody set.
THEOREM HouseTypeCorrect == Spec => []TypeOK
BY HouseInit, HouseNext, HouseTypes, PTL DEF Spec

-----------------------------------------------------------------------------
(***************************************************************************)
(* Totals.  The running total of an order in the file fits its items since *)
(* the total of every copy a handler holds, or left behind, fits the       *)
(* copy's items: whoever writes a stale copy back writes a fitting total.  *)
(***************************************************************************)
Fits(f) == f.copy.bill = Total(f.copy.items)
CopiesFit == /\ \A th \in Threads : Fits(frame[th])
             /\ \A n \in FailureIds : Fits(late[n].frame)
SumsInv == BillMatchesItems /\ CopiesFit

LEMMA TurnFits ==
  ASSUME SumsInv, late' = late, NEW th \in Threads, NEW p, NEW f, Turn(th, p, f), Fits(f)
  PROVE  CopiesFit'
BY DEF SumsInv, CopiesFit, Turn, Fits

LEMMA EndFits ==
  ASSUME SumsInv, late' = late, NEW th \in Threads, Ends(th)
  PROVE  CopiesFit'
BY NoFrameType, TurnFits DEF Ends, Fits

LEMMA FrameFits ==
  ASSUME SumsInv, late' = late, NEW th \in Threads, NEW p, Turn(th, p, frame[th])
  PROVE  CopiesFit'
BY TurnFits DEF SumsInv, CopiesFit

LEMMA FileKept ==
  ASSUME SumsInv, orders' = orders
  PROVE  BillMatchesItems'
BY DEF SumsInv, BillMatchesItems

LEMMA UpdateFits ==
  ASSUME HouseInv, SumsInv, NEW f \in Frame, Fits(f), UpdateOrder(f)
  PROVE  BillMatchesItems'
<1>1. \A o \in OrderIds : orders'[o] = orders[o] \/ orders'[o] = f.copy
  BY OrderWritten
<1> QED BY <1>1 DEF SumsInv, BillMatchesItems, Fits

LEMMA InsertFits ==
  ASSUME HouseInv, SumsInv, NEW f \in Frame, InsertOrder(f)
  PROVE  BillMatchesItems'
<1>1. \A o \in OrderIds : orders'[o] = orders[o] \/ orders'[o] = NewOrder(f.table)
  BY OrderInserted
<1>2. NewOrder(f.table).bill = Total(NewOrder(f.table).items)
  BY NewOrderType DEF Frame
<1> QED BY <1>1, <1>2 DEF SumsInv, BillMatchesItems

LEMMA RemoveFits ==
  ASSUME HouseInv, SumsInv, NEW f \in Frame, RemoveOrder(f)
  PROVE  BillMatchesItems'
<1>1. \A o \in OrderIds : orders'[o] = orders[o] \/ orders'[o] = Absent
  BY OrderRemoved
<1> QED BY <1>1 DEF SumsInv, BillMatchesItems

LEMMA AsksFits ==
  ASSUME HouseInv, SumsInv, NEW g \in Guests, GuestAsks(g)
  PROVE  SumsInv'
<1>0. g \in Threads /\ Fits(frame[g])
  BY DEF Threads, SumsInv, CopiesFit
<1>1. ASSUME NEW t \in TableIds, BookRead(g, t) PROVE SumsInv'
  <2>1. UNCHANGED db /\ \E f \in Frame : f.copy = frame[g].copy /\ Turn(g, "claim", f)
    BY <1>0, <1>1, BookReadForm
  <2> QED BY <1>0, <2>1, TurnFits, FileKept DEF SumsInv, Fits, db
<1>2. ASSUME NEW i \in ItemIds, NEW q \in Quantities, OrderRead(g, i, q) PROVE SumsInv'
  <2>1. /\ session[g] \in OrderIds /\ orders[session[g]] \in Order /\ UNCHANGED db
        /\ \E f \in Frame : f.copy = orders[session[g]] /\ Turn(g, "read_menu", f)
    BY <1>0, <1>2, OrderReadForm
  <2>2. orders[session[g]].bill = Total(orders[session[g]].items)
    BY <2>1, NoRecord DEF SumsInv, BillMatchesItems
  <2> QED BY <1>0, <2>1, <2>2, TurnFits, FileKept DEF SumsInv, Fits, db
<1>3. CASE BillRead(g)
  <2>1. UNCHANGED db /\ (Ends(g) \/ \E f \in Frame : Fits(f) /\ Turn(g, "bill", f))
    BY <1>0, <1>3, BillReadForm DEF Fits
  <2> QED BY <1>0, <2>1, TurnFits, EndFits, FileKept DEF SumsInv, db
<1>4. CASE Leave(g) \/ Connect(g)
  <2>1. UNCHANGED <<db, frame>>
    BY <1>4 DEF Leave, Connect
  <2> QED BY <2>1, FileKept DEF SumsInv, CopiesFit, db
<1> QED BY <1>1, <1>2, <1>3, <1>4 DEF GuestAsks

LEMMA OthersAskFits ==
  ASSUME HouseInv, SumsInv,
         (\E c \in Chefs : ChefAsks(c)) \/ (\E a \in Admins : AdminAsks(a))
  PROVE  SumsInv'
<1>1. ASSUME NEW c \in Chefs, NEW o \in OrderIds, NEW k, MarkRead(c, o, k) PROVE SumsInv'
  <2>1. c \in Threads
    BY DEF Threads
  <2>2. PICK f \in Frame : /\ f.copy.bill = orders[o].bill /\ Total(f.copy.items) = Total(orders[o].items)
                           /\ Turn(c, "mark", f) /\ orders[o] \in Order /\ UNCHANGED db
    BY <1>1, <2>1, MarkReadForm
  <2>3. orders[o].bill = Total(orders[o].items)
    BY <2>2, NoRecord DEF SumsInv, BillMatchesItems
  <2> QED BY <2>1, <2>2, <2>3, TurnFits, FileKept DEF SumsInv, Fits, db
<1>2. ASSUME NEW a \in Admins, AdminAsks(a) PROVE SumsInv'
  <2>1. ASSUME NEW o \in OrderIds, DeleteOrderRead(a, o) PROVE SumsInv'
    <3>1. a \in Threads
      BY DEF Threads
    <3>2. UNCHANGED db /\ \E f \in Frame : f.copy = frame[a].copy /\ Turn(a, "delete_order", f)
      BY <2>1, <3>1, DeleteReadForm
    <3> QED BY <3>1, <3>2, TurnFits, FileKept DEF SumsInv, CopiesFit, Fits, db
  <2>2. CASE \A o \in OrderIds : ~DeleteOrderRead(a, o)
    <3>1. UNCHANGED <<orders, frame, late>>
      BY <1>2, <2>2 DEF AdminAsks, AddTable, AddMenu, DeleteTable, DeleteMenu
    <3> QED BY <3>1, FileKept DEF SumsInv, CopiesFit
  <2> QED BY <2>1, <2>2
<1> QED BY <1>1, <1>2 DEF ChefAsks

LEMMA GoesOnFits ==
  ASSUME HouseInv, SumsInv, NEW th \in Threads, Continue(th) \/ CallFails(th)
  PROVE  SumsInv'
<1>0. frame[th] \in Frame /\ Fits(frame[th])
  BY DEF HouseInv, Handlers, SumsInv, CopiesFit
<1>1. CASE BookClaim(th) \/ BookInsertFails(th) \/ BookRollback(th) \/ BillFree(th)
  <2>1. UNCHANGED <<orders, late>> /\ (frame' = frame \/ Finish(th))
    BY <1>1 DEF BookClaim, BookInsertFails, BookRollback, BillFree, db
  <2> QED BY <2>1, FinishTurn, EndFits, FileKept DEF SumsInv, CopiesFit
<1>2. CASE BookInsert(th)
  <2>1. InsertOrder(frame[th]) /\ Finish(th) /\ late' = late
    BY <1>2 DEF BookInsert
  <2> QED BY <1>0, <2>1, InsertFits, FinishTurn, EndFits DEF SumsInv
<1>3. CASE OrderMenu(th)
  <2>1. UNCHANGED db
    BY <1>3, OrderMenuForm
  <2>2. ASSUME ~Ends(th) PROVE SumsInv'
    <3>1. PICK line \in Line, f \in Frame :
            /\ f.copy.items = Append(frame[th].copy.items, line)
            /\ f.copy.bill = frame[th].copy.bill + Cost(line) /\ Turn(th, "add_item", f)
      BY <1>3, <2>2, OrderMenuForm
    <3>2. frame[th].copy.items \in Seq(Line)
      BY <1>0 DEF Frame, Order
    <3>3. Fits(f)
      BY <1>0, <3>1, <3>2, TotalAppend DEF Fits
    <3> QED BY <2>1, <3>1, <3>3, TurnFits, FileKept DEF SumsInv, db
  <2> QED BY <2>1, <2>2, EndFits, FileKept DEF SumsInv, db
<1>4. CASE OrderUpdate(th) \/ MarkUpdate(th) \/ BillUpdate(th)
  <2>1. UpdateOrder(frame[th]) /\ (frame' = frame \/ Finish(th)) /\ late' = late
    BY <1>4 DEF OrderUpdate, MarkUpdate, BillUpdate
  <2> QED BY <1>0, <2>1, UpdateFits, FinishTurn, EndFits DEF SumsInv, CopiesFit
<1>5. CASE DeleteOrder(th)
  <2>1. RemoveOrder(frame[th]) /\ Finish(th) /\ late' = late
    BY <1>5 DEF DeleteOrder
  <2> QED BY <1>0, <2>1, RemoveFits, FinishTurn, EndFits DEF SumsInv
<1>6. CASE CallFails(th)
  <2>1. /\ orders' = orders
        /\ \A n \in FailureIds : late'[n] = late[n] \/ late'[n].frame = frame[th]
        /\ Turn(th, "rollback", frame[th]) \/ Ends(th)
    BY <1>6, FailureForm
  <2>2. \A u \in Threads : frame'[u] = frame[u] \/ frame'[u] = NoFrame
    BY <2>1 DEF Turn, Ends
  <2>3. CopiesFit'
    BY <1>0, <2>1, <2>2, NoFrameType DEF SumsInv, CopiesFit, Fits
  <2> QED BY <2>1, <2>3, FileKept DEF SumsInv
<1> QED BY <1>1, <1>2, <1>3, <1>4, <1>5, <1>6 DEF Continue

LEMMA LateFits ==
  ASSUME HouseInv, SumsInv, NEW n \in FailureIds, LateWrite(n)
  PROVE  SumsInv'
<1> DEFINE f == late[n].frame
<1>1. /\ f \in Frame /\ late'[n] = NoLate /\ frame' = frame
      /\ \A m \in FailureIds \ {n} : late'[m] = late[m]
  BY LateForm
<1>2. Fits(f)
  BY DEF SumsInv, CopiesFit
<1>3. CopiesFit'
  BY <1>1, NoFrameType DEF SumsInv, CopiesFit, Fits, NoLate
<1>4. orders' = orders \/ InsertOrder(f) \/ UpdateOrder(f) \/ RemoveOrder(f)
  BY DEF LateWrite
<1>5. BillMatchesItems'
  BY <1>1, <1>2, <1>4, FileKept, InsertFits, UpdateFits, RemoveFits
<1> QED BY <1>3, <1>5 DEF SumsInv

LEMMA SumsNext == ASSUME HouseInv, SumsInv, [Next]_vars PROVE SumsInv'
<1>1. CASE UNCHANGED vars
  BY <1>1 DEF vars, SumsInv, BillMatchesItems, CopiesFit
<1> QED BY <1>1, AsksFits, OthersAskFits, GoesOnFits, LateFits DEF Next

LEMMA SumsInit == Init => SumsInv
BY NoFrameType DEF Init, SumsInv, BillMatchesItems, CopiesFit, Fits, NoLate

\* The running total of an order is the sum over its items, whichever stale
\* copies the handlers of guests and chefs write back over each other, whatever
\* the menu costs meanwhile, and whenever a call that failed takes effect.
THEOREM TotalsFit == Spec => []BillMatchesItems
<1>1. HouseInv /\ SumsInv /\ [Next]_vars => SumsInv'
  BY SumsNext
<1>2. SumsInv => BillMatchesItems
  BY DEF SumsInv
<1> QED BY HouseInit, HouseNext, SumsInit, <1>1, <1>2, PTL DEF Spec

-----------------------------------------------------------------------------
(***************************************************************************)
(* Orders and their copies.  A guest's handler works on the order of its   *)
(* session, which no other session has.  A copy of an order, held by a     *)
(* handler or left behind by a failed call, names the table of the order;  *)
(* and while no bill has been overwritten, a billed copy that is not the   *)
(* bill itself has a billed order, or one that was deleted.                *)
(***************************************************************************)
Holding == {"insert", "rollback"}
Working == {"read_menu", "add_item", "bill", "free"}
Copying == Working \cup {"mark"}
Role(th, p) ==
  \/ p \in {"idle", "closed"}
  \/ th \in Guests /\ p \in {"claim"} \cup Holding \cup Working
  \/ th \in Chefs /\ p = "mark"
  \/ th \in Admins /\ p = "delete_order" /\ "delete_order" \in AdminCommands
Program(p, f, o) ==
  /\ p \in {"claim"} \cup Holding => o = NoOrder
  /\ p \in Working => o # NoOrder /\ f.order = o
Over(o) == orders[o] = Absent \/ orders[o].billed
Carries(call, f) ==
  /\ call \in Copying => f.order < used.orders /\ (orders[f.order] # Absent => f.copy.table = orders[f.order].table)
  /\ call \in {"bill", "free"} => f.copy.billed
  /\ call \in Copying \ {"bill"} /\ f.copy.billed /\ ~reopened => Over(f.order)

TableSlots == \A t \in TableIds : tables[t] # Absent => t < used.tables
OrderSlots == \A o \in OrderIds : orders[o] # Absent => o < used.orders
Sessions == \A g \in Guests : session[g] # NoOrder => session[g] < used.orders
LateInv ==
  \A n \in FailureIds : late[n].call # "none" => n <= failures /\ Carries(late[n].call, late[n].frame)
FloorInv ==
  /\ TableSlots /\ OrderSlots /\ Sessions /\ OwnOrder /\ LateInv
  /\ \A th \in Threads : Role(th, pc[th]) /\ Carries(pc[th], frame[th])
  /\ \A g \in Guests : Program(pc[g], frame[g], session[g])

\* What a step may do to the orders.
OrdersMove ==
  /\ used.orders <= used'.orders /\ used.tables <= used'.tables /\ (reopened => reopened')
  /\ \A o \in OrderIds : o < used.orders /\ orders'[o] # Absent =>
       /\ orders[o] # Absent /\ orders'[o].table = orders[o].table
       /\ orders[o].billed /\ ~reopened' => orders'[o].billed

LEMMA UsedNat == HouseInv => used.orders \in Nat /\ used.tables \in Nat /\ failures \in Nat
BY RestaurantAssumption DEF HouseInv, Files, Limits

LEMMA KeepMoves ==
  ASSUME HouseInv, FloorInv, UNCHANGED <<orders, used, reopened>>
  PROVE  OrdersMove /\ OrderSlots'
BY UsedNat DEF OrdersMove, OrderSlots, FloorInv

LEMMA UpdateMoves ==
  ASSUME HouseInv, FloorInv, NEW f \in Frame, UpdateOrder(f), used' = used,
         NEW call \in Copying, Carries(call, f)
  PROVE  OrdersMove /\ OrderSlots'
<1>1. /\ \A o \in OrderIds : o # f.order \/ orders[o] = Absent => orders'[o] = orders[o]
      /\ orders[f.order] # Absent => orders'[f.order] = f.copy
      /\ f.order \in OrderIds
      /\ reopened' = (reopened \/ (orders[f.order] # Absent /\ orders[f.order].billed /\ ~f.copy.billed))
  BY OrderWritten
<1>2. orders[f.order] # Absent => f.copy.table = orders[f.order].table
  BY DEF Carries
<1>3. OrderSlots'
  BY <1>1 DEF OrderSlots, FloorInv
<1>4. /\ reopened => reopened'
      /\ orders[f.order] # Absent /\ orders[f.order].billed /\ ~reopened' => f.copy.billed
  BY <1>1, Zenon
<1>5. OrdersMove
  BY <1>1, <1>2, <1>4, UsedNat DEF OrdersMove
<1> QED BY <1>3, <1>5

LEMMA InsertMoves ==
  ASSUME HouseInv, FloorInv, NEW f \in Frame, InsertOrder(f), reopened' = reopened
  PROVE  OrdersMove /\ OrderSlots' /\ used'.orders = used.orders + 1
<1>1. /\ used'.orders = used.orders + 1 /\ used'.tables = used.tables
      /\ \A o \in OrderIds \ {used.orders} : orders'[o] = orders[o]
  BY OrderInserted
<1>2. OrderSlots'
  BY <1>1, UsedNat DEF OrderSlots, FloorInv, OrderIds
<1>3. OrdersMove
  BY <1>1, UsedNat DEF OrdersMove
<1> QED BY <1>1, <1>2, <1>3

LEMMA RemoveMoves ==
  ASSUME HouseInv, FloorInv, NEW f \in Frame, RemoveOrder(f), UNCHANGED <<used, reopened>>
  PROVE  OrdersMove /\ OrderSlots'
<1>1. orders'[f.order] = Absent /\ \A o \in OrderIds \ {f.order} : orders'[o] = orders[o]
  BY OrderRemoved
<1> QED BY <1>1, UsedNat DEF OrdersMove, OrderSlots, FloorInv

LEMMA CarriesKept ==
  ASSUME HouseInv, HouseInv', OrdersMove, NEW call, NEW f \in Frame, Carries(call, f)
  PROVE  Carries(call, f)'
<1>1. f.order \in OrderIds
  BY DEF Frame
<1>2. used.orders \in Nat /\ used'.orders \in Nat /\ used.orders <= used'.orders /\ f.order \in Nat
  BY <1>1, RestaurantAssumption DEF HouseInv, Files, Limits, OrdersMove, OrderIds
<1>3. ASSUME call \in Copying PROVE f.order < used.orders
  BY <1>3 DEF Carries
<1>4. ASSUME call \in Copying, orders'[f.order] # Absent
      PROVE  /\ orders[f.order] # Absent /\ orders'[f.order].table = orders[f.order].table
             /\ orders[f.order].billed /\ ~reopened' => orders'[f.order].billed
  BY <1>1, <1>3, <1>4 DEF OrdersMove
<1>5. call \in Copying => f.order < used'.orders
  BY <1>2, <1>3
<1>6. ASSUME call \in Copying, orders'[f.order] # Absent PROVE f.copy.table = orders'[f.order].table
  BY <1>4, <1>6 DEF Carries
<1>7. ASSUME call \in Copying \ {"bill"}, f.copy.billed, ~reopened' PROVE Over(f.order)'
  <2>1. ~reopened
    BY <1>7 DEF OrdersMove
  <2>2. Over(f.order)
    BY <1>7, <2>1 DEF Carries
  <2> QED BY <1>4, <1>7, <2>2 DEF Over
<1> QED BY <1>5, <1>6, <1>7 DEF Carries

LEMMA LateKept ==
  ASSUME HouseInv, HouseInv', FloorInv, OrdersMove, late' = late, failures' = failures
  PROVE  LateInv'
<1>1. \A n \in FailureIds : late[n].frame \in Frame
  BY DEF HouseInv, Files
<1> QED BY <1>1, CarriesKept DEF LateInv, FloorInv

LEMMA CarriesOn ==
  ASSUME HouseInv, HouseInv', FloorInv, OrdersMove, NEW u \in Threads, pc'[u] = pc[u], frame'[u] = frame[u]
  PROVE  Carries(pc[u], frame[u])'
<1> DEFINE q == pc[u]
           e == frame[u]
<1>1. Carries(q, e) /\ e \in Frame /\ pc'[u] = q /\ frame'[u] = e
  BY DEF FloorInv, HouseInv, Handlers
<1>2. ASSUME NEW x, NEW y \in Frame, x = q, y = e PROVE Carries(x, y)'
  BY <1>1, <1>2, CarriesKept
<1>3. ASSUME NEW x, NEW y \in Frame, x = q, y = e PROVE Carries(pc[u], frame[u])'
  BY <1>1, <1>2, <1>3 DEF Carries, Over
<1> QED BY <1>1, <1>3

LEMMA FloorTurn ==
  ASSUME HouseInv, HouseInv', FloorInv, OrdersMove, TableSlots', OrderSlots', LateInv',
         NEW th \in Threads, NEW p, NEW f, Turn(th, p, f), Role(th, p), Carries(p, f)',
         \A u \in Threads \ {th} : session'[u] = session[u],
         th \in Guests => /\ Program(p, f, session'[th])
                          /\ \/ session'[th] \in {NoOrder, session[th]}
                             \/ session'[th] = used.orders /\ used'.orders = used.orders + 1
  PROVE  FloorInv'
<1>1. \A u \in Threads : Role(u, pc'[u])
  BY DEF Turn, FloorInv
<1>2. (\A u \in Threads : Carries(pc[u], frame[u]))'
  <2> SUFFICES ASSUME NEW u \in Threads PROVE Carries(pc[u], frame[u])'
    OBVIOUS
  <2>1. CASE u = th
    <3>1. pc'[u] = p /\ frame'[u] = f
      BY <2>1 DEF Turn
    <3> QED BY <3>1 DEF Carries, Over
  <2>2. CASE u # th
    BY <2>2, CarriesOn DEF Turn
  <2> QED BY <2>1, <2>2
<1>3. \A g \in Guests : Program(pc'[g], frame'[g], session'[g])
  BY DEF Turn, FloorInv, Threads
<1>4. \A g \in Guests : session[g] = NoOrder \/ (session[g] \in Nat /\ session[g] < used.orders)
  <2>1. \A g \in Guests : session[g] = NoOrder \/ session[g] \in Nat
    BY RestaurantAssumption DEF HouseInv, Handlers, OrderIds, Threads
  <2> QED BY <2>1 DEF FloorInv, Sessions
<1>5. used.orders \in Nat /\ used'.orders \in Nat /\ used.orders <= used'.orders
  BY UsedNat, RestaurantAssumption DEF HouseInv, Files, Limits, OrdersMove
<1>6. Sessions'
  BY <1>4, <1>5 DEF Sessions, Threads
<1>7. OwnOrder'
  <2> SUFFICES ASSUME NEW g \in Guests, NEW h \in Guests, g # h, session'[g] # NoOrder
               PROVE  session'[g] # session'[h]
    BY DEF OwnOrder
  <2>1. session[g] # NoOrder => session[g] # session[h]
    BY DEF FloorInv, OwnOrder
  <2>2. session[h] # NoOrder => session[h] # session[g]
    BY DEF FloorInv, OwnOrder
  <2>3. session[g] # used.orders /\ session[h] # used.orders
    BY <1>4, <1>5 DEF NoOrder
  <2>4. \A u \in {g, h} : u # th => session'[u] = session[u]
    BY DEF Threads
  <2> QED BY <2>1, <2>2, <2>3, <2>4
<1> QED BY <1>1, <1>2, <1>3, <1>6, <1>7 DEF FloorInv

\* A step that leaves the handlers.
LEMMA FloorStays ==
  ASSUME HouseInv, HouseInv', FloorInv, OrdersMove, TableSlots', OrderSlots', LateInv',
         UNCHANGED <<pc, frame, session>>
  PROVE  FloorInv'
<1>1. (\A u \in Threads : Carries(pc[u], frame[u]))'
  BY CarriesOn
<1>2. Sessions'
  <2>1. \A g \in Guests : session[g] = NoOrder \/ session[g] \in Nat
    BY RestaurantAssumption DEF HouseInv, Handlers, OrderIds, Threads
  <2>2. used.orders \in Nat /\ used'.orders \in Nat /\ used.orders <= used'.orders
    BY UsedNat, RestaurantAssumption DEF HouseInv, Files, Limits, OrdersMove
  <2> QED BY <2>1, <2>2 DEF FloorInv, Sessions
<1>3. OwnOrder'
  BY DEF FloorInv, OwnOrder
<1> QED BY <1>1, <1>2, <1>3 DEF FloorInv

\* A request ends.
LEMMA FloorEnds ==
  ASSUME HouseInv, HouseInv', FloorInv, OrdersMove, TableSlots', OrderSlots', LateInv',
         NEW th \in Threads, Ends(th),
         \A u \in Threads \ {th} : session'[u] = session[u],
         \/ session'[th] \in {NoOrder, session[th]}
         \/ session'[th] = used.orders /\ used'.orders = used.orders + 1
  PROVE  FloorInv'
<1>1. PICK p \in {"idle", "closed"} : Turn(th, p, NoFrame)
  BY DEF Ends
<1>2. Role(th, p) /\ Program(p, NoFrame, session'[th]) /\ Carries(p, NoFrame)'
  BY DEF Role, Program, Carries, Copying, Working, Holding
<1> QED BY <1>1, <1>2, FloorTurn

\* A thread goes on with the frame it has.
LEMMA FloorGoesOn ==
  ASSUME HouseInv, HouseInv', FloorInv, OrdersMove, TableSlots', OrderSlots', LateInv',
         NEW th \in Threads, NEW p, Turn(th, p, frame[th]), Role(th, p), session' = session,
         p # "free" => p \notin Copying,
         p = "free" => pc[th] = "bill" /\ Over(frame[th].order)',
         th \in Guests => Program(p, frame[th], session[th])
  PROVE  FloorInv'
<1>1. ASSUME NEW f \in Frame, f = frame[th] PROVE FloorInv'
  <2>1. CASE p = "free"
    <3>1. Carries("bill", f)
      BY <1>1, <2>1 DEF FloorInv
    <3>2. Carries("bill", f)'
      BY <3>1, CarriesKept
    <3>3. Over(f.order)'
      BY <1>1, <2>1 DEF Over, Turn
    <3>4. Carries(p, f)'
      BY <2>1, <3>2, <3>3 DEF Carries, Copying, Working
    <3> QED BY <1>1, <3>4, FloorTurn
  <2>2. CASE p # "free"
    <3>1. Carries(p, f)'
      BY <2>2 DEF Carries, Copying, Working
    <3> QED BY <1>1, <3>1, FloorTurn
  <2> QED BY <2>1, <2>2
<1> QED BY <1>1 DEF HouseInv, Handlers

\* A thread goes on with the files as they are.
LEMMA FloorQuiet ==
  ASSUME HouseInv, HouseInv', FloorInv, UNCHANGED db, NEW th \in Threads,
         \A u \in Threads \ {th} : session'[u] = session[u], session'[th] \in {NoOrder, session[th]},
         Ends(th) \/ \E p \in Points, f \in Frame :
                       /\ Turn(th, p, f) /\ Role(th, p) /\ Carries(p, f)
                       /\ th \in Guests => Program(p, f, session'[th])
  PROVE  FloorInv' /\ OrdersMove
<1>1. OrdersMove /\ OrderSlots' /\ TableSlots' /\ LateInv'
  BY KeepMoves, LateKept DEF db, FloorInv, TableSlots
<1>2. CASE Ends(th)
  BY <1>1, <1>2, FloorEnds
<1>3. ASSUME NEW p \in Points, NEW f \in Frame, Turn(th, p, f), Role(th, p), Carries(p, f),
             th \in Guests => Program(p, f, session'[th])
      PROVE  FloorInv' /\ OrdersMove
  <2>1. Carries(p, f)'
    BY <1>1, <1>3, CarriesKept
  <2> QED BY <1>1, <1>3, <2>1, FloorTurn
<1> QED BY <1>2, <1>3

-----------------------------------------------------------------------------
LEMMA AsksFloor ==
  ASSUME HouseInv, HouseInv', FloorInv, NEW g \in Guests, GuestAsks(g)
  PROVE  FloorInv' /\ OrdersMove
<1>0. g \in Threads /\ frame[g] \in Frame /\ Carries(pc[g], frame[g])
  BY DEF Threads, HouseInv, Handlers, FloorInv
<1>1. ASSUME NEW t \in TableIds, BookRead(g, t) PROVE FloorInv' /\ OrdersMove
  <2>1. /\ session[g] = NoOrder /\ UNCHANGED <<db, session>>
        /\ \E f \in Frame : Turn(g, "claim", f)
    BY <1>0, <1>1, BookReadForm
  <2>2. "claim" \in Points /\ Role(g, "claim")
    BY DEF Points, Writing, Role
  <2>3. \A f : Carries("claim", f) /\ Program("claim", f, NoOrder)
    BY DEF Carries, Program, Copying, Working
  <2> QED BY <1>0, <2>1, <2>2, <2>3, FloorQuiet
<1>2. ASSUME NEW i \in ItemIds, NEW q \in Quantities, OrderRead(g, i, q) PROVE FloorInv' /\ OrdersMove
  <2>1. /\ session[g] \in OrderIds /\ orders[session[g]] \in Order /\ UNCHANGED <<db, session>>
        /\ \E f \in Frame : f.order = session[g] /\ f.copy = orders[session[g]] /\ Turn(g, "read_menu", f)
    BY <1>0, <1>2, OrderReadForm
  <2>2. session[g] # NoOrder /\ session[g] < used.orders
    BY <2>1 DEF FloorInv, Sessions, NoOrder, OrderIds
  <2>3. \A f \in Frame : f.order = session[g] /\ f.copy = orders[session[g]] =>
                          Carries("read_menu", f) /\ Program("read_menu", f, session[g])
    BY <2>2 DEF Carries, Program, Holding, Over
  <2>4. "read_menu" \in Points /\ Role(g, "read_menu")
    BY DEF Points, Role, Working
  <2> QED BY <1>0, <2>1, <2>3, <2>4, FloorQuiet
<1>3. CASE BillRead(g)
  <2>1. /\ session[g] \in OrderIds /\ UNCHANGED <<db, session>>
        /\ Ends(g) \/ \E f \in Frame : /\ f.order = session[g] /\ f.copy.table = orders[session[g]].table
                                        /\ f.copy.billed /\ Turn(g, "bill", f)
    BY <1>0, <1>3, BillReadForm
  <2>2. session[g] # NoOrder /\ session[g] < used.orders
    BY <2>1 DEF FloorInv, Sessions, NoOrder, OrderIds
  <2>3. \A f \in Frame : f.order = session[g] /\ f.copy.table = orders[session[g]].table /\ f.copy.billed =>
                          Carries("bill", f) /\ Program("bill", f, session[g])
    BY <2>2 DEF Carries, Program, Holding
  <2>4. "bill" \in Points /\ Role(g, "bill")
    BY DEF Points, Writing, Role, Working
  <2> QED BY <1>0, <2>1, <2>3, <2>4, FloorQuiet
<1>4. CASE Leave(g)
  <2>1. Turn(g, "closed", frame[g]) /\ UNCHANGED <<db, session>>
    BY <1>0, <1>4, GotoTurn DEF Leave, Points
  <2>2. "closed" \in Points /\ Role(g, "closed") /\ Carries("closed", frame[g])
        /\ Program("closed", frame[g], session[g])
    BY DEF Points, Role, Carries, Program, Copying, Working, Holding
  <2> QED BY <1>0, <2>1, <2>2, FloorQuiet
<1>5. CASE Connect(g)
  <2>1. Turn(g, "idle", frame[g]) /\ UNCHANGED db /\ session' = [session EXCEPT ![g] = NoOrder]
    BY <1>0, <1>5, GotoTurn DEF Connect, Points
  <2>2. session'[g] = NoOrder /\ \A u \in Threads \ {g} : session'[u] = session[u]
    BY <1>0, <2>1 DEF HouseInv, Handlers
  <2>3. "idle" \in Points /\ Role(g, "idle") /\ Carries("idle", frame[g])
        /\ Program("idle", frame[g], session'[g])
    BY DEF Points, Role, Carries, Program, Copying, Working, Holding
  <2> QED BY <1>0, <2>1, <2>2, <2>3, FloorQuiet
<1> QED BY <1>1, <1>2, <1>3, <1>4, <1>5 DEF GuestAsks

LEMMA OthersAskFloor ==
  ASSUME HouseInv, HouseInv', FloorInv,
         (\E c \in Chefs : ChefAsks(c)) \/ (\E a \in Admins : AdminAsks(a))
  PROVE  FloorInv' /\ OrdersMove
<1>1. ASSUME NEW c \in Chefs, NEW o \in OrderIds, NEW k, MarkRead(c, o, k) PROVE FloorInv' /\ OrdersMove
  <2>1. c \in Threads /\ c \notin Guests
    BY RestaurantAssumption DEF Threads
  <2>2. PICK f \in Frame : /\ f.order = o /\ f.copy.table = orders[o].table
                           /\ f.copy.billed = orders[o].billed /\ orders[o] \in Order
                           /\ Turn(c, "mark", f) /\ UNCHANGED <<db, session>>
    BY <1>1, <2>1, MarkReadForm
  <2>3. o < used.orders
    BY <2>2, NoRecord DEF FloorInv, OrderSlots
  <2>4. "mark" \in Points /\ Role(c, "mark") /\ Carries("mark", f)
    BY <2>2, <2>3 DEF Points, Writing, Role, Carries, Copying, Over
  <2> QED BY <2>1, <2>2, <2>4, FloorQuiet
<1>2. ASSUME NEW a \in Admins, NEW o \in OrderIds, DeleteOrderRead(a, o) PROVE FloorInv' /\ OrdersMove
  <2>1. a \in Threads /\ a \notin Guests
    BY RestaurantAssumption DEF Threads
  <2>2. /\ "delete_order" \in AdminCommands /\ UNCHANGED <<db, session>>
        /\ \E f \in Frame : Turn(a, "delete_order", f)
    BY <1>2, <2>1, DeleteReadForm
  <2>3. "delete_order" \in Points /\ Role(a, "delete_order") /\ \A f : Carries("delete_order", f)
    BY <2>2 DEF Points, Writing, Role, Carries, Copying, Working
  <2> QED BY <2>1, <2>2, <2>3, FloorQuiet
<1>3. ASSUME NEW a \in Admins, AdminAsks(a), \A o \in OrderIds : ~DeleteOrderRead(a, o) PROVE FloorInv' /\ OrdersMove
  <2>1. UNCHANGED <<orders, pc, frame, session, late, failures, reopened>>
    BY <1>3 DEF AdminAsks, AddTable, AddMenu, DeleteTable, DeleteMenu
  <2>2. /\ used'.orders = used.orders /\ used.tables <= used'.tables
        /\ \A t \in TableIds : tables'[t] # Absent => tables[t] # Absent \/ (t = used.tables /\ t < used'.tables)
    <3>0. used \in Limits /\ used.tables \in Nat /\ tables \in [TableIds -> Table \cup {Absent}]
      BY UsedNat DEF HouseInv, Files
    <3>1. ASSUME NEW n \in Capacities, AddTable(a, n)
          PROVE  /\ used' = [used EXCEPT !.tables = @ + 1]
                 /\ tables' = [tables EXCEPT ![used.tables] = [capacity |-> n, occupied |-> FALSE]]
      BY <3>1 DEF AddTable
    <3>2. ASSUME NEW q \in Prices, AddMenu(a, q) PROVE used' = [used EXCEPT !.menu = @ + 1] /\ tables' = tables
      BY <3>2 DEF AddMenu
    <3>3. ASSUME NEW t \in TableIds, DeleteTable(a, t) PROVE used' = used /\ tables' = [tables EXCEPT ![t] = Absent]
      BY <3>3 DEF DeleteTable
    <3>4. ASSUME NEW i \in ItemIds, DeleteMenu(a, i) PROVE used' = used /\ tables' = tables
      BY <3>4 DEF DeleteMenu
    <3>5. \/ /\ used' = [used EXCEPT !.tables = @ + 1]
             /\ \E r : tables' = [tables EXCEPT ![used.tables] = r]
          \/ used' = [used EXCEPT !.menu = @ + 1] /\ tables' = tables
          \/ used' = used /\ \E t : tables' = [tables EXCEPT ![t] = Absent]
          \/ used' = used /\ tables' = tables
      BY <1>3, <3>1, <3>2, <3>3, <3>4 DEF AdminAsks
    <3> QED BY <3>0, <3>5 DEF Limits
  <2>3. OrdersMove
    BY <2>1, <2>2, UsedNat DEF OrdersMove
  <2>4. OrderSlots' /\ TableSlots'
    <3>1. used'.tables \in Nat /\ used'.orders \in Nat
      BY RestaurantAssumption DEF HouseInv, Files, Limits
    <3>2. OrderSlots'
      BY <2>1, <2>2 DEF OrderSlots, FloorInv
    <3>3. TableSlots'
      BY <2>2, <3>1, UsedNat DEF TableSlots, FloorInv, TableIds
    <3> QED BY <3>2, <3>3
  <2> QED BY <2>1, <2>3, <2>4, LateKept, FloorStays
<1> QED BY <1>1, <1>2, <1>3 DEF ChefAsks

LEMMA GoesOnFloor ==
  ASSUME HouseInv, HouseInv', FloorInv, NEW th \in Threads, Continue(th) \/ CallFails(th)
  PROVE  FloorInv' /\ OrdersMove
<1>0. /\ frame[th] \in Frame /\ frame[th].table \in TableIds /\ frame[th].capacity \in Capacities \cup {0}
      /\ frame[th].copy.table \in TableIds
      /\ Role(th, pc[th]) /\ Carries(pc[th], frame[th])
      /\ th \in Guests => Program(pc[th], frame[th], session[th])
  BY DEF HouseInv, Handlers, FloorInv, Frame, Order
<1>1. CASE BookClaim(th)
  <2>1. /\ pc[th] = "claim" /\ FindAndUpdateTable(frame[th].table, FALSE, TRUE, frame[th].capacity)
        /\ UNCHANGED <<menu, orders, used, session, leaving, failures, late, reopened>>
        /\ Finish(th) \/ (Goto(th, "insert") /\ frame' = frame)
    BY <1>1 DEF BookClaim
  <2>2. OrdersMove /\ OrderSlots' /\ LateInv'
    BY <2>1, KeepMoves, LateKept
  <2>3. TableSlots'
    BY <1>0, <2>1, TableWritten DEF FloorInv, TableSlots
  <2>4. Role(th, "insert") /\ (th \in Guests => Program("insert", frame[th], session[th])) /\ "insert" \notin Copying
    BY <1>0, <2>1 DEF Role, Copying, Working, Program, Holding
  <2>5. Ends(th) \/ Turn(th, "insert", frame[th])
    BY <2>1, FinishTurn, GotoTurn DEF Points, Writing
  <2>6. CASE Ends(th)
    BY <2>1, <2>2, <2>3, <2>6, FloorEnds
  <2>7. CASE Turn(th, "insert", frame[th])
    BY <2>1, <2>2, <2>3, <2>4, <2>7, FloorGoesOn
  <2> QED BY <2>5, <2>6, <2>7
<1>2. CASE BookInsert(th)
  <2>1. /\ InsertOrder(frame[th]) /\ session' = [session EXCEPT ![th] = used.orders] /\ Finish(th)
        /\ UNCHANGED <<tables, failures, late, reopened>>
    BY <1>2 DEF BookInsert
  <2>2. OrdersMove /\ OrderSlots' /\ used'.orders = used.orders + 1 /\ used'.tables = used.tables
    BY <1>0, <2>1, InsertMoves, OrderInserted
  <2>3. TableSlots' /\ LateInv'
    BY <2>1, <2>2, LateKept DEF TableSlots, FloorInv
  <2>4. session'[th] = used.orders /\ \A u \in Threads \ {th} : session'[u] = session[u]
    BY <2>1 DEF HouseInv, Handlers
  <2> QED BY <2>1, <2>2, <2>3, <2>4, FinishTurn, FloorEnds
<1>3. CASE BookInsertFails(th)
  <2>1. pc[th] = "insert" /\ Turn(th, "rollback", frame[th]) /\ UNCHANGED <<db, session>>
    BY <1>3, GotoTurn DEF BookInsertFails, Points, Writing
  <2>2. /\ "rollback" \in Points /\ Role(th, "rollback") /\ Carries("rollback", frame[th])
        /\ th \in Guests => Program("rollback", frame[th], session[th])
    BY <1>0, <2>1 DEF Points, Writing, Role, Carries, Copying, Working, Program, Holding
  <2> QED BY <1>0, <2>1, <2>2, FloorQuiet
<1>4. CASE BookRollback(th) \/ BillFree(th)
  <2>1. /\ \/ FindAndUpdateTable(frame[th].table, TRUE, FALSE, frame[th].capacity)
           \/ FindAndUpdateTable(frame[th].copy.table, TRUE, FALSE, 0)
        /\ UNCHANGED <<orders, used, session, failures, late, reopened>> /\ Finish(th)
    BY <1>4 DEF BookRollback, BillFree
  <2>2. OrdersMove /\ OrderSlots' /\ LateInv'
    BY <2>1, KeepMoves, LateKept
  <2>3. TableSlots'
    BY <1>0, <2>1, TableWritten DEF FloorInv, TableSlots
  <2> QED BY <2>1, <2>2, <2>3, FinishTurn, FloorEnds
<1>5. CASE OrderMenu(th)
  <2>1. /\ pc[th] = "read_menu" /\ UNCHANGED <<db, session>>
        /\ \/ Ends(th)
           \/ \E f \in Frame : /\ f.order = frame[th].order /\ f.copy.table = frame[th].copy.table
                               /\ f.copy.billed = frame[th].copy.billed /\ Turn(th, "add_item", f)
    BY <1>5, OrderMenuForm
  <2>2. \A f \in Frame : f.order = frame[th].order /\ f.copy.table = frame[th].copy.table
                           /\ f.copy.billed = frame[th].copy.billed =>
                         Carries("add_item", f) /\ (th \in Guests => Program("add_item", f, session[th]))
    BY <1>0, <2>1 DEF Carries, Copying, Working, Program, Holding
  <2>3. "add_item" \in Points /\ Role(th, "add_item")
    BY <1>0, <2>1 DEF Points, Writing, Role, Holding, Working
  <2> QED BY <2>1, <2>2, <2>3, FloorQuiet
<1>6. CASE OrderUpdate(th) \/ MarkUpdate(th) \/ BillUpdate(th)
  <2>1. /\ pc[th] \in {"add_item", "mark", "bill"} /\ UpdateOrder(frame[th])
        /\ UNCHANGED <<tables, used, session, failures, late>>
        /\ \/ Finish(th)
           \/ pc[th] = "bill" /\ orders[frame[th].order] # Absent /\ Goto(th, "free") /\ frame' = frame
    BY <1>6 DEF OrderUpdate, MarkUpdate, BillUpdate
  <2>2. pc[th] \in Copying
    BY <2>1 DEF Copying, Working
  <2>3. OrdersMove /\ OrderSlots'
    BY <1>0, <2>1, <2>2, UpdateMoves
  <2>4. TableSlots' /\ LateInv'
    BY <2>1, <2>3, LateKept DEF TableSlots, FloorInv
  <2>5. CASE Finish(th)
    BY <2>1, <2>3, <2>4, <2>5, FinishTurn, FloorEnds
  <2>6. CASE pc[th] = "bill" /\ orders[frame[th].order] # Absent /\ Goto(th, "free") /\ frame' = frame
    <3>1. Turn(th, "free", frame[th])
      BY <2>6, GotoTurn DEF Points, Writing
    <3>2. Role(th, "free") /\ (th \in Guests => Program("free", frame[th], session[th]))
      BY <1>0, <2>6 DEF Role, Program, Working, Holding
    <3>3. orders'[frame[th].order] = frame[th].copy /\ frame[th].copy.billed /\ frame' = frame
      BY <1>0, <2>1, <2>6, OrderWritten DEF Carries
    <3>4. Over(frame[th].order)'
      BY <3>3 DEF Over
    <3> QED BY <2>1, <2>3, <2>4, <2>6, <3>1, <3>2, <3>4, FloorGoesOn
  <2> QED BY <2>1, <2>5, <2>6
<1>7. CASE DeleteOrder(th)
  <2>1. /\ RemoveOrder(frame[th]) /\ UNCHANGED <<tables, used, session, failures, late, reopened>> /\ Finish(th)
    BY <1>7 DEF DeleteOrder
  <2>2. OrdersMove /\ OrderSlots'
    BY <1>0, <2>1, RemoveMoves
  <2>3. TableSlots' /\ LateInv'
    BY <2>1, <2>2, LateKept DEF TableSlots, FloorInv
  <2> QED BY <2>1, <2>2, <2>3, FinishTurn, FloorEnds
<1>8. CASE CallFails(th)
  <2>1. /\ failures' = failures + 1 /\ UNCHANGED <<tables, orders, used, session, reopened>>
        /\ \A n \in FailureIds :
              \/ late'[n] = late[n]
              \/ n = failures + 1 /\ late'[n].call = pc[th] /\ late'[n].frame = frame[th]
        /\ (pc[th] = "insert" /\ Turn(th, "rollback", frame[th])) \/ Ends(th)
    BY <1>8, FailureForm
  <2>2. OrdersMove /\ OrderSlots' /\ TableSlots'
    BY <2>1, KeepMoves DEF FloorInv, TableSlots
  <2>3. ASSUME NEW n \in FailureIds, late'[n].call # "none"
        PROVE  n <= failures' /\ Carries(late[n].call, late[n].frame)'
    <3>0. failures \in Nat /\ n \in Nat /\ late[n].frame \in Frame
      BY UsedNat DEF FailureIds, HouseInv, Files
    <3>1. CASE late'[n] = late[n]
      <4>1. n <= failures /\ Carries(late[n].call, late[n].frame)
        BY <2>3, <3>1 DEF FloorInv, LateInv
      <4>2. ASSUME NEW x, NEW y \in Frame, x = late[n].call, y = late[n].frame PROVE Carries(late[n].call, late[n].frame)'
        <5>1. Carries(x, y)'
          BY <2>2, <4>1, <4>2, CarriesKept
        <5> QED BY <3>1, <4>2, <5>1 DEF Carries, Over
      <4> QED BY <2>1, <3>0, <4>1, <4>2
    <3>2. CASE n = failures + 1 /\ late'[n].call = pc[th] /\ late'[n].frame = frame[th]
      <4>1. ASSUME NEW x, NEW y \in Frame, x = pc[th], y = frame[th] PROVE Carries(late[n].call, late[n].frame)'
        <5>1. Carries(x, y)'
          BY <1>0, <2>2, <4>1, CarriesKept
        <5> QED BY <3>2, <4>1, <5>1 DEF Carries, Over
      <4> QED BY <1>0, <2>1, <3>0, <3>2, <4>1
    <3> QED BY <2>1, <3>1, <3>2
  <2>4. LateInv'
    BY <2>3 DEF LateInv
  <2>5. CASE pc[th] = "insert" /\ Turn(th, "rollback", frame[th])
    <3>1. /\ Role(th, "rollback") /\ "rollback" \notin Copying
          /\ th \in Guests => Program("rollback", frame[th], session[th])
      BY <1>0, <2>5 DEF Role, Copying, Working, Program, Holding
    <3> QED BY <2>1, <2>2, <2>4, <2>5, <3>1, FloorGoesOn
  <2>6. CASE Ends(th)
    BY <2>1, <2>2, <2>4, <2>6, FloorEnds
  <2> QED BY <2>1, <2>5, <2>6
<1> QED BY <1>1, <1>2, <1>3, <1>4, <1>5, <1>6, <1>7, <1>8 DEF Continue

LEMMA LateFloor ==
  ASSUME HouseInv, HouseInv', FloorInv, NEW n \in FailureIds, LateWrite(n)
  PROVE  FloorInv' /\ OrdersMove
<1> DEFINE f == late[n].frame
           call == late[n].call
<1>0. /\ f \in Frame /\ late'[n] = NoLate /\ f.table \in TableIds /\ f.capacity \in Capacities \cup {0}
      /\ f.copy.table \in TableIds
      /\ \A m \in FailureIds \ {n} : late'[m] = late[m]
      /\ UNCHANGED <<pc, session, frame, failures>>
  BY LateForm DEF Frame, Order
<1>1. call # "none" => Carries(call, f)
  BY DEF FloorInv, LateInv
<1>2. OrdersMove /\ OrderSlots' /\ TableSlots'
  <2>1. CASE /\ \/ FindAndUpdateTable(f.table, FALSE, TRUE, f.capacity)
                \/ FindAndUpdateTable(f.table, TRUE, FALSE, f.capacity)
                \/ FindAndUpdateTable(f.copy.table, TRUE, FALSE, 0)
             /\ UNCHANGED <<orders, used, reopened>>
    <3>1. TableSlots'
      BY <1>0, <2>1, TableWritten DEF FloorInv, TableSlots
    <3> QED BY <2>1, <3>1, KeepMoves
  <2>2. CASE InsertOrder(f) /\ UNCHANGED <<tables, reopened>>
    <3>1. OrdersMove /\ OrderSlots' /\ used'.tables = used.tables
      BY <1>0, <2>2, InsertMoves, OrderInserted
    <3> QED BY <2>2, <3>1 DEF FloorInv, TableSlots
  <2>3. CASE call \in {"add_item", "bill", "mark"} /\ UpdateOrder(f) /\ UNCHANGED <<tables, used>>
    <3>1. call \in Copying /\ Carries(call, f)
      BY <1>1, <2>3 DEF Copying, Working
    <3>2. OrdersMove /\ OrderSlots'
      BY <1>0, <2>3, <3>1, UpdateMoves
    <3> QED BY <2>3, <3>2 DEF FloorInv, TableSlots
  <2>4. CASE RemoveOrder(f) /\ UNCHANGED <<tables, used, reopened>>
    <3>1. OrdersMove /\ OrderSlots'
      BY <1>0, <2>4, RemoveMoves
    <3> QED BY <2>4, <3>1 DEF FloorInv, TableSlots
  <2> QED BY <2>1, <2>2, <2>3, <2>4 DEF LateWrite
<1>3. ASSUME NEW m \in FailureIds, late'[m].call # "none"
      PROVE  m <= failures' /\ Carries(late[m].call, late[m].frame)'
  <2>1. m # n /\ late'[m] = late[m]
    BY <1>0, <1>3 DEF NoLate
  <2>2. m <= failures /\ Carries(late[m].call, late[m].frame) /\ late[m].frame \in Frame
    BY <1>3, <2>1 DEF FloorInv, LateInv, HouseInv, Files
  <2>3. ASSUME NEW x, NEW y \in Frame, x = late[m].call, y = late[m].frame PROVE Carries(late[m].call, late[m].frame)'
    <3>1. Carries(x, y)'
      BY <1>2, <2>2, <2>3, CarriesKept
    <3> QED BY <2>1, <2>3, <3>1 DEF Carries, Over
  <2> QED BY <1>0, <2>2, <2>3
<1>4. LateInv'
  BY <1>3 DEF LateInv
<1> QED BY <1>0, <1>2, <1>4, FloorStays

LEMMA FloorNext == HouseInv /\ HouseInv' /\ FloorInv /\ [Next]_vars => FloorInv' /\ OrdersMove
<1> SUFFICES ASSUME HouseInv, HouseInv', FloorInv, [Next]_vars PROVE FloorInv' /\ OrdersMove
  OBVIOUS
<1>1. CASE UNCHANGED vars
  <2>1. UNCHANGED <<pc, frame, session, db>>
    BY <1>1 DEF vars, db
  <2>2. OrdersMove /\ OrderSlots' /\ TableSlots' /\ LateInv'
    BY <2>1, KeepMoves, LateKept DEF db, FloorInv, TableSlots
  <2> QED BY <2>1, <2>2, FloorStays
<1> QED BY <1>1, AsksFloor, OthersAskFloor, GoesOnFloor, LateFloor DEF Next

LEMMA FloorInit == Init => FloorInv
<1> SUFFICES ASSUME Init PROVE FloorInv
  OBVIOUS
<1>1. TableSlots /\ OrderSlots
  BY DEF Init, TableSlots, OrderSlots
<1>2. \A th \in Threads : pc[th] = "idle" /\ session[th] = NoOrder
  BY DEF Init
<1>3. Sessions /\ OwnOrder
  BY <1>2 DEF Sessions, OwnOrder, Threads
<1>4. LateInv
  BY DEF Init, LateInv, NoLate
<1>5. \A th \in Threads : Role(th, pc[th]) /\ Carries(pc[th], frame[th])
  BY <1>2 DEF Role, Carries, Copying, Working
<1>6. \A g \in Guests : Program(pc[g], frame[g], session[g])
  BY <1>2 DEF Program, Working, Holding, Threads
<1> QED BY <1>1, <1>3, <1>4, <1>5, <1>6 DEF FloorInv

\* Two guests' sessions never name one order, whatever the handlers of chefs and
\* admins do and whichever calls fail.
THEOREM SessionsApart == Spec => []OwnOrder
<1>1. HouseInv /\ FloorInv /\ [Next]_vars => FloorInv'
  BY HouseNext, FloorNext
<1>2. FloorInv => OwnOrder
  BY DEF FloorInv
<1> QED BY HouseInit, HouseNext, FloorInit, <1>1, <1>2, PTL DEF Spec


-----------------------------------------------------------------------------
(***************************************************************************)
(* Bills.  Once every copy of a billed order that is still to be written   *)
(* is itself billed, a handler that reads the order gets a billed copy,    *)
(* and one that adds an item or a mark to its copy keeps it billed.        *)
(***************************************************************************)
Fresh(call, f, o) == call \in {"read_menu", "add_item", "mark"} /\ f.order = o => f.copy.billed
AllFresh(o) == /\ \A th \in Threads : Fresh(pc[th], frame[th], o)
               /\ \A n \in FailureIds : Fresh(late[n].call, late[n].frame, o)
BilledAt(o) == orders[o] # Absent => orders[o].billed

LEMMA FinalIs ==
  ASSUME HouseInv, NEW o \in OrderIds
  PROVE  Final(o) <=> orders[o] # Absent /\ orders[o].billed /\ AllFresh(o)
<1>1. \A n \in FailureIds : late[n].call # "read_menu"
  BY DEF HouseInv, Files, Writing
<1> QED BY <1>1 DEF Final, Stale, AllFresh, Fresh

LEMMA FinalAfter ==
  ASSUME NEW o \in OrderIds, BilledAt(o)', AllFresh(o)'
  PROVE  orders'[o] = Absent \/ Final(o)'
BY DEF Final, Stale, AllFresh, Fresh, BilledAt

\* One handler moves, to a copy that is fresh; no call is left behind.
LEMMA FreshTurn ==
  ASSUME NEW o \in OrderIds, AllFresh(o), late' = late,
         NEW th \in Threads, NEW p, NEW f, Turn(th, p, f), Fresh(p, f, o)
  PROVE  AllFresh(o)'
BY DEF AllFresh, Fresh, Turn

LEMMA FreshEnd ==
  ASSUME NEW o \in OrderIds, AllFresh(o), late' = late, NEW th \in Threads, Ends(th)
  PROVE  AllFresh(o)'
BY FreshTurn DEF Ends, Fresh

LEMMA BilledWritten ==
  ASSUME HouseInv, NEW o \in OrderIds, orders[o] # Absent, orders[o].billed, NEW f \in Frame,
         UpdateOrder(f), f.order = o => f.copy.billed
  PROVE  BilledAt(o)'
BY OrderWritten DEF BilledAt

LEMMA AsksBilled ==
  ASSUME HouseInv, NEW o \in OrderIds, Final(o), NEW g \in Guests, GuestAsks(g)
  PROVE  BilledAt(o)' /\ AllFresh(o)'
<1>0. g \in Threads /\ frame[g] \in Frame /\ orders[o] # Absent /\ orders[o].billed /\ AllFresh(o)
  BY FinalIs DEF Threads, HouseInv, Handlers
<1>1. ASSUME NEW t \in TableIds, BookRead(g, t) PROVE UNCHANGED db /\ AllFresh(o)'
  <2>1. UNCHANGED db /\ \E f \in Frame : Turn(g, "claim", f)
    BY <1>0, <1>1, BookReadForm
  <2> QED BY <1>0, <2>1, FreshTurn DEF db, Fresh
<1>2. ASSUME NEW i \in ItemIds, NEW q \in Quantities, OrderRead(g, i, q) PROVE UNCHANGED db /\ AllFresh(o)'
  <2>1. PICK f \in Frame : /\ f.order = session[g] /\ f.copy = orders[session[g]] /\ Turn(g, "read_menu", f)
                           /\ UNCHANGED db
    BY <1>0, <1>2, OrderReadForm
  <2>2. Fresh("read_menu", f, o)
    BY <1>0, <2>1 DEF Fresh
  <2> QED BY <1>0, <2>1, <2>2, FreshTurn DEF db
<1>3. CASE BillRead(g)
  <2>1. UNCHANGED db /\ (Ends(g) \/ \E f \in Frame : Turn(g, "bill", f))
    BY <1>0, <1>3, BillReadForm
  <2>2. AllFresh(o)'
    BY <1>0, <2>1, FreshTurn, FreshEnd DEF db, Fresh
  <2> QED BY <1>0, <2>1, <2>2 DEF db, BilledAt
<1>4. CASE Leave(g) \/ Connect(g)
  <2>1. UNCHANGED db /\ \E p \in {"idle", "closed"} : Turn(g, p, frame[g])
    BY <1>0, <1>4, GotoTurn DEF Leave, Connect, Points
  <2>2. AllFresh(o)'
    BY <1>0, <2>1, FreshTurn DEF db, Fresh
  <2> QED BY <1>0, <2>1, <2>2 DEF db, BilledAt
<1> QED BY <1>0, <1>1, <1>2, <1>3, <1>4 DEF GuestAsks, db, BilledAt

LEMMA OthersAskBilled ==
  ASSUME HouseInv, FloorInv, NEW o \in OrderIds, Final(o),
         (\E c \in Chefs : ChefAsks(c)) \/ (\E a \in Admins : AdminAsks(a))
  PROVE  BilledAt(o)' /\ AllFresh(o)'
<1>0. orders[o] # Absent /\ orders[o].billed /\ AllFresh(o)
  BY FinalIs
<1>1. ASSUME NEW c \in Chefs, NEW q \in OrderIds, NEW k, MarkRead(c, q, k) PROVE orders' = orders /\ AllFresh(o)'
  <2>1. PICK f \in Frame : /\ f.order = q /\ f.copy.billed = orders[q].billed /\ Turn(c, "mark", f)
                           /\ UNCHANGED db /\ c \in Threads
    BY <1>1, MarkReadForm DEF Threads
  <2>2. Fresh("mark", f, o)
    BY <1>0, <2>1 DEF Fresh
  <2> QED BY <1>0, <2>1, <2>2, FreshTurn DEF db
<1>2. ASSUME NEW a \in Admins, NEW q \in OrderIds, DeleteOrderRead(a, q) PROVE orders' = orders /\ AllFresh(o)'
  <2>1. a \in Threads /\ UNCHANGED db /\ \E f \in Frame : Turn(a, "delete_order", f)
    BY <1>2, DeleteReadForm DEF Threads
  <2> QED BY <1>0, <2>1, FreshTurn DEF db, Fresh
<1>3. ASSUME NEW a \in Admins, AdminAsks(a), \A q \in OrderIds : ~DeleteOrderRead(a, q)
      PROVE  orders' = orders /\ AllFresh(o)'
  <2>1. UNCHANGED <<orders, pc, frame, late>>
    BY <1>3 DEF AdminAsks, AddTable, AddMenu, DeleteTable, DeleteMenu
  <2> QED BY <1>0, <2>1 DEF AllFresh, Fresh
<1> QED BY <1>0, <1>1, <1>2, <1>3 DEF ChefAsks, BilledAt

LEMMA GoesOnBilled ==
  ASSUME HouseInv, FloorInv, NEW o \in OrderIds, Final(o), NEW th \in Threads, Continue(th) \/ CallFails(th)
  PROVE  BilledAt(o)' /\ AllFresh(o)'
<1>0. /\ orders[o] # Absent /\ orders[o].billed /\ AllFresh(o) /\ o < used.orders
      /\ frame[th] \in Frame /\ Carries(pc[th], frame[th]) /\ Fresh(pc[th], frame[th], o)
  <2>1. orders[o] # Absent /\ orders[o].billed /\ AllFresh(o)
    BY FinalIs
  <2> QED BY <2>1 DEF FloorInv, OrderSlots, HouseInv, Handlers, AllFresh
<1>1. CASE \/ BookClaim(th) \/ BookInsertFails(th) \/ BookRollback(th) \/ BillFree(th)
  <2>1. /\ UNCHANGED <<orders, late>>
        /\ Finish(th) \/ \E p \in {"insert", "rollback"} : Goto(th, p) /\ frame' = frame
    BY <1>1 DEF BookClaim, BookInsertFails, BookRollback, BillFree, db
  <2>2. Ends(th) \/ \E p \in {"insert", "rollback"} : Turn(th, p, frame[th])
    BY <2>1, FinishTurn, GotoTurn DEF Points, Writing
  <2>3. AllFresh(o)'
    BY <1>0, <2>1, <2>2, FreshTurn, FreshEnd DEF Fresh
  <2> QED BY <1>0, <2>1, <2>3 DEF BilledAt
<1>2. CASE BookInsert(th)
  <2>1. InsertOrder(frame[th]) /\ late' = late /\ Finish(th)
    BY <1>2 DEF BookInsert
  <2>2. orders'[o] = orders[o]
    BY <1>0, <2>1, OrderInserted, UsedNat
  <2> QED BY <1>0, <2>1, <2>2, FinishTurn, FreshEnd DEF BilledAt
<1>3. CASE OrderMenu(th)
  <2>1. /\ pc[th] = "read_menu" /\ UNCHANGED db
        /\ \/ Ends(th)
           \/ \E f \in Frame : /\ f.order = frame[th].order /\ f.copy.billed = frame[th].copy.billed
                               /\ Turn(th, "add_item", f)
    BY <1>3, OrderMenuForm
  <2>2. AllFresh(o)'
    BY <1>0, <2>1, FreshTurn, FreshEnd DEF db, Fresh
  <2> QED BY <1>0, <2>1, <2>2 DEF BilledAt, db
<1>4. CASE OrderUpdate(th) \/ MarkUpdate(th) \/ BillUpdate(th)
  <2>1. /\ pc[th] \in {"add_item", "mark", "bill"} /\ UpdateOrder(frame[th]) /\ late' = late
        /\ Finish(th) \/ (Goto(th, "free") /\ frame' = frame)
    BY <1>4 DEF OrderUpdate, MarkUpdate, BillUpdate
  <2>2. frame[th].order = o => frame[th].copy.billed
    BY <1>0, <2>1 DEF Fresh, Carries
  <2>3. Ends(th) \/ Turn(th, "free", frame[th])
    BY <2>1, FinishTurn, GotoTurn DEF Points, Writing
  <2>4. AllFresh(o)'
    BY <1>0, <2>1, <2>3, FreshTurn, FreshEnd DEF Fresh
  <2> QED BY <1>0, <2>1, <2>2, <2>4, BilledWritten
<1>5. CASE DeleteOrder(th)
  <2>1. RemoveOrder(frame[th]) /\ late' = late /\ Finish(th)
    BY <1>5 DEF DeleteOrder
  <2> QED BY <1>0, <2>1, OrderRemoved, FinishTurn, FreshEnd DEF BilledAt
<1>6. CASE CallFails(th)
  <2>1. /\ orders' = orders
        /\ \A n \in FailureIds :
              late'[n] = late[n] \/ (late'[n].call = pc[th] /\ late'[n].frame = frame[th])
        /\ Ends(th) \/ Turn(th, "rollback", frame[th])
    BY <1>6, FailureForm
  <2>2. \A u \in Threads : Fresh(pc'[u], frame'[u], o)
    BY <1>0, <2>1 DEF Ends, Turn, Fresh, AllFresh
  <2>3. \A n \in FailureIds : Fresh(late'[n].call, late'[n].frame, o)
    BY <1>0, <2>1 DEF Fresh, AllFresh
  <2> QED BY <1>0, <2>1, <2>2, <2>3 DEF BilledAt, AllFresh, Fresh
<1> QED BY <1>1, <1>2, <1>3, <1>4, <1>5, <1>6 DEF Continue

LEMMA LateBilled ==
  ASSUME HouseInv, FloorInv, NEW o \in OrderIds, Final(o), NEW n \in FailureIds, LateWrite(n)
  PROVE  BilledAt(o)' /\ AllFresh(o)'
<1> DEFINE f == late[n].frame
           call == late[n].call
<1>0. /\ orders[o] # Absent /\ orders[o].billed /\ AllFresh(o) /\ o < used.orders /\ Fresh(call, f, o)
  <2>1. orders[o] # Absent /\ orders[o].billed /\ AllFresh(o)
    BY FinalIs
  <2> QED BY <2>1 DEF FloorInv, OrderSlots, AllFresh
<1>1. /\ f \in Frame /\ late'[n] = NoLate /\ \A m \in FailureIds \ {n} : late'[m] = late[m]
      /\ UNCHANGED <<pc, frame>>
  BY LateForm
<1>2. call # "none" => Carries(call, f)
  BY DEF FloorInv, LateInv
<1>3. AllFresh(o)'
  BY <1>0, <1>1 DEF AllFresh, Fresh, NoLate
<1>4. BilledAt(o)'
  <2>1. CASE orders' = orders
    BY <1>0, <2>1 DEF BilledAt
  <2>2. CASE InsertOrder(f)
    BY <1>0, <1>1, <2>2, OrderInserted, UsedNat DEF BilledAt
  <2>3. CASE call \in {"add_item", "bill", "mark"} /\ UpdateOrder(f)
    <3>1. f.order = o => f.copy.billed
      BY <1>0, <1>2, <2>3 DEF Fresh, Carries
    <3> QED BY <1>0, <1>1, <2>3, <3>1, BilledWritten
  <2>4. CASE RemoveOrder(f)
    BY <1>0, <1>1, <2>4, OrderRemoved DEF BilledAt
  <2> QED BY <2>1, <2>2, <2>3, <2>4 DEF LateWrite
<1> QED BY <1>3, <1>4

\* A bill stays: once every copy that was read before it has been written or
\* dropped, nothing a guest still orders, a chef marks or a failed call leaves
\* behind takes an order back to unbilled, and no stale copy of it comes to be.
THEOREM BillsStay == Spec => BilledStaysBilled
<1>1. HouseInv /\ FloorInv /\ [Next]_vars
        => [\A o \in OrderIds : Final(o) => orders'[o] = Absent \/ Final(o)']_vars
  <2> SUFFICES ASSUME HouseInv, FloorInv, Next, NEW o \in OrderIds, Final(o)
               PROVE  orders'[o] = Absent \/ Final(o)'
    OBVIOUS
  <2>1. BilledAt(o)' /\ AllFresh(o)'
    BY AsksBilled, OthersAskBilled, GoesOnBilled, LateBilled DEF Next
  <2> QED BY <2>1, FinalAfter
<1>2. HouseInv /\ FloorInv /\ [Next]_vars => FloorInv'
  BY HouseNext, FloorNext
<1> QED BY HouseInit, HouseNext, FloorInit, <1>1, <1>2, PTL DEF Spec, BilledStaysBilled

-----------------------------------------------------------------------------
(***************************************************************************)
(* Tables.  A table is held by the guest that answers for it, or by a      *)
(* failed call that may still release it.  As long as no bill has been     *)
(* overwritten, a held table has been added and is not free, and has one   *)
(* holder: so a release, be it late, frees only a table that nobody else   *)
(* answers for, and a claim takes only a table that nobody holds.          *)
(***************************************************************************)
Releases(n, t) == \/ late[n].call = "rollback" /\ late[n].frame.table = t
                  \/ late[n].call = "free" /\ late[n].frame.copy.table = t
Holders == ({"guest"} \X Guests) \cup ({"late"} \X FailureIds)
Holds(x, t) == \/ x[1] = "guest" /\ AnswersFor(x[2], t)
               \/ x[1] = "late" /\ Releases(x[2], t)
Kept(t) == t < used.tables /\ ~Matches(t, FALSE)
HoldInv ==
  ~reopened => \A x \in Holders, t \in TableIds :
    Holds(x, t) => Kept(t) /\ \A y \in Holders : Holds(y, t) => y = x

LEMMA HoldersAre == \A x \in Holders : \/ x[1] = "guest" /\ x[2] \in Guests /\ x = <<"guest", x[2]>>
                                       \/ x[1] = "late" /\ x[2] \in FailureIds /\ x = <<"late", x[2]>>
BY DEF Holders

\* At most one holder, x0, comes to hold a table, which nobody held.
LEMMA HoldNext ==
  ASSUME HoldInv, ~reopened, NEW x0,
         \A x \in Holders, t \in TableIds : Holds(x, t)' =>
            Holds(x, t) \/ (x = x0 /\ Kept(t)' /\ \A y \in Holders : ~Holds(y, t)),
         \A t \in TableIds : Kept(t) => Kept(t)' \/ \A x \in Holders : ~Holds(x, t)'
  PROVE  HoldInv'
<1> SUFFICES ASSUME NEW x \in Holders, NEW t \in TableIds, Holds(x, t)'
             PROVE  Kept(t)' /\ \A y \in Holders : Holds(y, t)' => y = x
  BY DEF HoldInv
<1>1. Holds(x, t) \/ (x = x0 /\ Kept(t)' /\ \A y \in Holders : ~Holds(y, t))
  OBVIOUS
<1>2. Kept(t)'
  BY <1>1 DEF HoldInv
<1>3. ASSUME NEW y \in Holders, Holds(y, t)' PROVE y = x
  <2>1. Holds(y, t) \/ (y = x0 /\ \A z \in Holders : ~Holds(z, t))
    BY <1>3
  <2> QED BY <1>1, <2>1 DEF HoldInv
<1> QED BY <1>2, <1>3

\* What a guest's session is worth.
LEMMA UnpaidBefore ==
  ASSUME HouseInv, FloorInv, OrdersMove, ~reopened', NEW g \in Guests,
         session'[g] \in {NoOrder, session[g]}, Unpaid(g)'
  PROVE  /\ session'[g] = session[g] /\ Unpaid(g) /\ session[g] \in OrderIds
         /\ orders'[session'[g]].table = orders[session[g]].table
<1>1. session'[g] = session[g] /\ session[g] # NoOrder /\ orders'[session[g]] # Absent /\ ~orders'[session[g]].billed
  BY DEF Unpaid
<1>2. session[g] \in OrderIds /\ session[g] < used.orders
  BY <1>1 DEF HouseInv, Handlers, FloorInv, Sessions, Threads
<1>3. orders[session[g]] # Absent /\ ~orders[session[g]].billed
      /\ orders'[session[g]].table = orders[session[g]].table
  BY <1>1, <1>2 DEF OrdersMove
<1> QED BY <1>1, <1>2, <1>3 DEF Unpaid

LEMMA StillAnswers ==
  ASSUME HouseInv, FloorInv, OrdersMove, ~reopened', NEW g \in Guests, NEW t \in TableIds, AnswersFor(g, t)',
         session'[g] \in {NoOrder, session[g]},
         (pc'[g] = pc[g] /\ frame'[g] = frame[g]) \/ pc'[g] \notin Holding \cup {"bill", "free"}
  PROVE  AnswersFor(g, t)
BY UnpaidBefore DEF AnswersFor, Holding

\* A thread moves, and comes to answer for no table; a table that comes free is
\* one it has answered for till now.
LEMMA HoldThread ==
  ASSUME HouseInv, FloorInv, OrdersMove, HoldInv, ~reopened', late' = late, NEW th \in Threads,
         \A u \in Threads \ {th} : pc'[u] = pc[u] /\ frame'[u] = frame[u] /\ session'[u] = session[u],
         \A t \in TableIds : th \in Guests /\ AnswersFor(th, t)' => AnswersFor(th, t),
         \A t \in TableIds : Kept(t) => Kept(t)' \/ (th \in Guests /\ AnswersFor(th, t) /\ ~AnswersFor(th, t)')
  PROVE  HoldInv'
<1>1. ~reopened
  BY DEF OrdersMove
<1>2. \A g \in Guests, t \in TableIds : AnswersFor(g, t)' => AnswersFor(g, t)
  <2> SUFFICES ASSUME NEW g \in Guests, NEW t \in TableIds, AnswersFor(g, t)' PROVE AnswersFor(g, t)
    OBVIOUS
  <2>1. CASE g # th
    BY <2>1, StillAnswers DEF Threads
  <2> QED BY <2>1
<1>3. \A x \in Holders, t \in TableIds : Holds(x, t)' => Holds(x, t)
  BY <1>2, HoldersAre DEF Holds, Releases
<1>4. ASSUME NEW t \in TableIds, Kept(t) PROVE Kept(t)' \/ \A x \in Holders : ~Holds(x, t)'
  <2>1. CASE th \in Guests /\ AnswersFor(th, t) /\ ~AnswersFor(th, t)'
    <3>1. <<"guest", th>> \in Holders /\ Holds(<<"guest", th>>, t) /\ ~Holds(<<"guest", th>>, t)'
      BY <2>1 DEF Holders, Holds
    <3>2. \A x \in Holders : Holds(x, t) => x = <<"guest", th>>
      BY <1>1, <3>1 DEF HoldInv
    <3> QED BY <1>3, <3>1, <3>2
  <2> QED BY <1>4, <2>1
<1> QED BY <1>1, <1>3, <1>4, HoldNext

LEMMA KeptFiles ==
  ASSUME UNCHANGED <<tables, used>>, NEW t \in TableIds, Kept(t)
  PROVE  Kept(t)'
BY DEF Kept, Matches

LEMMA KeptTaken ==
  ASSUME HouseInv, NEW u \in TableIds, NEW cap \in Capacities \cup {0}, FindAndUpdateTable(u, FALSE, TRUE, cap),
         used' = used, NEW t \in TableIds, Kept(t)
  PROVE  Kept(t)'
BY TableWritten DEF Kept, Matches

LEMMA KeptFreed ==
  ASSUME HouseInv, NEW u \in TableIds, NEW cap \in Capacities \cup {0}, FindAndUpdateTable(u, TRUE, FALSE, cap),
         used' = used, NEW t \in TableIds, Kept(t)
  PROVE  Kept(t)' \/ t = u
BY TableWritten DEF Kept, Matches

-----------------------------------------------------------------------------
LEMMA AsksHold ==
  ASSUME HouseInv, FloorInv, OrdersMove, HoldInv, ~reopened', NEW g \in Guests, GuestAsks(g)
  PROVE  HoldInv'
<1>0. g \in Threads
  BY DEF Threads
<1>1. UNCHANGED db /\ \A u \in Threads \ {g} : pc'[u] = pc[u] /\ frame'[u] = frame[u] /\ session'[u] = session[u]
  <2>1. ASSUME NEW t \in TableIds, BookRead(g, t) PROVE UNCHANGED <<db, session>> /\ \E p, f : Turn(g, p, f)
    BY <1>0, <2>1, BookReadForm
  <2>2. ASSUME NEW i \in ItemIds, NEW q \in Quantities, OrderRead(g, i, q)
        PROVE  UNCHANGED <<db, session>> /\ \E p, f : Turn(g, p, f)
    BY <1>0, <2>2, OrderReadForm
  <2>3. CASE BillRead(g)
    BY <1>0, <2>3, BillReadForm DEF Ends, Turn
  <2>4. CASE Leave(g) \/ Connect(g)
    BY <1>0, <2>4 DEF Leave, Connect, Goto, HouseInv, Handlers
  <2> QED BY <2>1, <2>2, <2>3, <2>4 DEF GuestAsks, Turn
<1>2. ASSUME NEW t \in TableIds, AnswersFor(g, t)' PROVE AnswersFor(g, t)
  <2>1. ASSUME NEW u \in TableIds, BookRead(g, u) PROVE AnswersFor(g, t)
    <3>1. session' = session /\ pc'[g] = "claim"
      BY <1>0, <2>1, BookReadForm DEF Turn
    <3> QED BY <1>2, <3>1, StillAnswers DEF Holding
  <2>2. ASSUME NEW i \in ItemIds, NEW q \in Quantities, OrderRead(g, i, q) PROVE AnswersFor(g, t)
    <3>1. session' = session /\ pc'[g] = "read_menu"
      BY <1>0, <2>2, OrderReadForm DEF Turn
    <3> QED BY <1>2, <3>1, StillAnswers DEF Holding
  <2>3. CASE BillRead(g)
    <3>1. CASE Ends(g)
      <4>1. session' = session /\ pc'[g] \in {"idle", "closed"}
        BY <1>0, <2>3, <3>1, BillReadForm DEF Ends, Turn
      <4> QED BY <1>2, <4>1, StillAnswers DEF Holding
    <3>2. CASE ~Ends(g)
      <4>1. /\ session[g] \in OrderIds /\ orders[session[g]] \in Order /\ ~orders[session[g]].billed
            /\ pc'[g] = "bill" /\ frame'[g].copy.table = orders[session[g]].table /\ session' = session
        BY <1>0, <2>3, <3>2, BillReadForm DEF Turn
      <4>2. Unpaid(g)
        BY <4>1, NoRecord DEF Unpaid, OrderIds, NoOrder
      <4>3. Unpaid(g)' => orders'[session'[g]].table = orders[session[g]].table
        BY <4>1, UnpaidBefore
      <4> QED BY <1>2, <4>1, <4>2, <4>3 DEF AnswersFor
    <3> QED BY <3>1, <3>2
  <2>4. CASE Leave(g)
    <3>1. session' = session /\ pc'[g] = "closed"
      BY <1>0, <2>4 DEF Leave, Goto, HouseInv, Handlers
    <3> QED BY <1>2, <3>1, StillAnswers DEF Holding
  <2>5. CASE Connect(g)
    <3>1. session'[g] = NoOrder /\ pc'[g] = "idle"
      BY <1>0, <2>5 DEF Connect, Goto, HouseInv, Handlers
    <3> QED BY <1>2, <3>1, StillAnswers DEF Holding
  <2> QED BY <2>1, <2>2, <2>3, <2>4, <2>5 DEF GuestAsks
<1> QED BY <1>0, <1>1, <1>2, KeptFiles, HoldThread DEF db

LEMMA OthersAskHold ==
  ASSUME HouseInv, FloorInv, OrdersMove, HoldInv, ~reopened',
         (\E c \in Chefs : ChefAsks(c)) \/ (\E a \in Admins : AdminAsks(a))
  PROVE  HoldInv'
<1>1. ASSUME NEW th \in Threads, th \notin Guests, NEW p, NEW f, Turn(th, p, f), UNCHANGED <<db, session>>
      PROVE  HoldInv'
  BY <1>1, KeptFiles, HoldThread DEF Turn, db
<1>2. ASSUME NEW c \in Chefs, NEW o \in OrderIds, NEW k, MarkRead(c, o, k) PROVE HoldInv'
  <2>1. c \in Threads /\ c \notin Guests
    BY RestaurantAssumption DEF Threads
  <2> QED BY <1>1, <1>2, <2>1, MarkReadForm
<1>3. ASSUME NEW a \in Admins, NEW o \in OrderIds, DeleteOrderRead(a, o) PROVE HoldInv'
  <2>1. a \in Threads /\ a \notin Guests
    BY RestaurantAssumption DEF Threads
  <2> QED BY <1>1, <1>3, <2>1, DeleteReadForm
<1>4. ASSUME NEW a \in Admins, AdminAsks(a), \A o \in OrderIds : ~DeleteOrderRead(a, o) PROVE HoldInv'
  <2>1. a \in Threads /\ a \notin Guests
    BY RestaurantAssumption DEF Threads
  <2>2. UNCHANGED <<pc, frame, session, late>>
    BY <1>4 DEF AdminAsks, AddTable, AddMenu, DeleteTable, DeleteMenu
  <2>3. ASSUME NEW t \in TableIds, Kept(t) PROVE Kept(t)'
    <3>0. used \in Limits /\ used.tables \in Nat /\ tables \in [TableIds -> Table \cup {Absent}]
      BY UsedNat DEF HouseInv, Files
    <3>1. ASSUME NEW n \in Capacities, AddTable(a, n)
          PROVE  used'.tables = used.tables + 1 /\ (t # used.tables => tables'[t] = tables[t])
      BY <3>0, <3>1 DEF AddTable, Limits
    <3>2. ASSUME NEW q \in Prices, AddMenu(a, q) PROVE used'.tables = used.tables /\ tables' = tables
      BY <3>0, <3>2 DEF AddMenu, Limits
    <3>3. ASSUME NEW u \in TableIds, DeleteTable(a, u) PROVE used' = used /\ tables'[t] \in {tables[t], Absent}
      BY <3>0, <3>3 DEF DeleteTable
    <3>4. ASSUME NEW i \in ItemIds, DeleteMenu(a, i) PROVE used' = used /\ tables' = tables
      BY <3>4 DEF DeleteMenu
    <3>5. /\ used.tables <= used'.tables /\ used'.tables \in Nat
          /\ t # used.tables => tables'[t] \in {tables[t], Absent}
      BY <1>4, <3>0, <3>1, <3>2, <3>3, <3>4 DEF AdminAsks
    <3> QED BY <2>3, <3>0, <3>5 DEF Kept, Matches, TableIds
  <2> QED BY <2>1, <2>2, <2>3, HoldThread
<1> QED BY <1>2, <1>3, <1>4 DEF ChefAsks

LEMMA GoesOnHold ==
  ASSUME HouseInv, FloorInv, OrdersMove, HoldInv, ~reopened', NEW th \in Threads, Continue(th)
  PROVE  HoldInv'
<1>0. /\ ~reopened /\ frame[th] \in Frame /\ frame[th].table \in TableIds /\ frame[th].copy.table \in TableIds
      /\ frame[th].capacity \in Capacities \cup {0} /\ 0 \in Capacities \cup {0} /\ Role(th, pc[th])
      /\ th \in Guests => Program(pc[th], frame[th], session[th])
  BY DEF OrdersMove, HouseInv, Handlers, Frame, Order, FloorInv
<1>1. CASE BookClaim(th)
  <2>1. /\ pc[th] = "claim" /\ FindAndUpdateTable(frame[th].table, FALSE, TRUE, frame[th].capacity)
        /\ UNCHANGED <<orders, used, session, late, reopened>>
        /\ IF Matches(frame[th].table, FALSE) THEN Goto(th, "insert") /\ frame' = frame ELSE Finish(th)
    BY <1>1 DEF BookClaim
  <2>2. th \in Guests
    BY <1>0, <2>1 DEF Role
  <2>3. \A t \in TableIds : Kept(t) => Kept(t)'
    BY <1>0, <2>1, KeptTaken
  <2>4. CASE Matches(frame[th].table, FALSE)
    <3> DEFINE x0 == <<"guest", th>>
    <3>0. PICK t0 \in TableIds : t0 = frame[th].table
      BY <1>0
    <3>1. Turn(th, "insert", frame[th])
      BY <1>0, <2>1, <2>4, GotoTurn DEF Points, Writing
    <3>2. t0 < used.tables /\ tables'[t0].occupied = TRUE
      BY <1>0, <2>1, <2>4, <3>0, TableWritten DEF FloorInv, TableSlots, Matches
    <3>3. Kept(t0)'
      BY <2>1, <3>2 DEF Kept, Matches
    <3>4. \A x \in Holders : ~Holds(x, t0)
      BY <1>0, <2>4, <3>0 DEF HoldInv, Kept
    <3>5. ASSUME NEW x \in Holders, NEW t \in TableIds, Holds(x, t)'
          PROVE  Holds(x, t) \/ (x = x0 /\ Kept(t)' /\ \A y \in Holders : ~Holds(y, t))
      <4>1. CASE x[1] = "late"
        BY <2>1, <3>5, <4>1 DEF Holds, Releases
      <4>2. CASE x[1] = "guest" /\ x[2] # th
        <5>1. x[2] \in Guests /\ x[2] \in Threads \ {th} /\ AnswersFor(x[2], t)'
          BY <3>5, <4>2, HoldersAre DEF Holds, Threads
        <5>2. session'[x[2]] = session[x[2]] /\ pc'[x[2]] = pc[x[2]] /\ frame'[x[2]] = frame[x[2]]
          BY <2>1, <3>1, <5>1 DEF Turn
        <5> QED BY <4>2, <5>1, <5>2, StillAnswers DEF Holds
      <4>3. CASE x[1] = "guest" /\ x[2] = th
        <5>1. x = x0 /\ AnswersFor(th, t)' /\ pc'[th] = "insert" /\ frame'[th].table = t0
          BY <3>0, <3>1, <3>5, <4>3, HoldersAre DEF Holds, Turn
        <5>2. Unpaid(th)' => AnswersFor(th, t)
          <6>1. session[th] = NoOrder
            BY <1>0, <2>1, <2>2 DEF Program
          <6> QED BY <2>1, <6>1 DEF Unpaid
        <5>3. t = t0 \/ AnswersFor(th, t)
          BY <5>1, <5>2 DEF AnswersFor
        <5> QED BY <3>3, <3>4, <4>3, <5>1, <5>3 DEF Holds
      <4> QED BY <4>1, <4>2, <4>3, HoldersAre
    <3> HIDE DEF x0
    <3> QED BY <1>0, <2>3, <3>5, HoldNext
  <2>5. CASE ~Matches(frame[th].table, FALSE)
    <3>1. Ends(th)
      BY <2>1, <2>5, FinishTurn
    <3>2. pc'[th] \in {"idle", "closed"}
      BY <3>1 DEF Ends, Turn
    <3>3. \A t \in TableIds : AnswersFor(th, t)' => AnswersFor(th, t)
      BY <2>1, <2>2, <3>2, StillAnswers DEF Holding
    <3> QED BY <2>1, <2>3, <3>1, <3>3, HoldThread DEF Ends, Turn
  <2> QED BY <2>4, <2>5
<1>2. CASE BookInsert(th)
  <2>1. /\ pc[th] = "insert" /\ InsertOrder(frame[th]) /\ session' = [session EXCEPT ![th] = used.orders]
        /\ UNCHANGED <<tables, late, reopened>> /\ Finish(th)
    BY <1>2 DEF BookInsert
  <2>2. th \in Guests
    BY <1>0, <2>1 DEF Role, Working
  <2>3. Ends(th) /\ pc'[th] \in {"idle", "closed"}
    BY <2>1, FinishTurn DEF Ends, Turn
  <2>4. /\ used'.tables = used.tables /\ orders'[used.orders] = NewOrder(frame[th].table)
        /\ session'[th] = used.orders /\ \A u \in Threads \ {th} : session'[u] = session[u]
    BY <1>0, <2>1, OrderInserted DEF HouseInv, Handlers
  <2>5. \A t \in TableIds : AnswersFor(th, t)' => AnswersFor(th, t)
    BY <2>1, <2>3, <2>4 DEF AnswersFor, NewOrder
  <2>6. \A t \in TableIds : Kept(t) => Kept(t)'
    BY <2>1, <2>4 DEF Kept, Matches
  <2> QED BY <2>1, <2>3, <2>4, <2>5, <2>6, HoldThread DEF Ends, Turn
<1>3. CASE BookInsertFails(th)
  <2>1. pc[th] = "insert" /\ Turn(th, "rollback", frame[th]) /\ UNCHANGED <<db, session>>
    BY <1>3, GotoTurn DEF BookInsertFails, Points, Writing
  <2>2. ASSUME th \in Guests, NEW t \in TableIds, AnswersFor(th, t)' PROVE AnswersFor(th, t)
    <3>1. Unpaid(th)' => Unpaid(th) /\ orders'[session'[th]].table = orders[session[th]].table
      BY <2>1, <2>2 DEF db, Unpaid
    <3> QED BY <2>1, <2>2, <3>1 DEF AnswersFor, Turn
  <2> QED BY <2>1, <2>2, KeptFiles, HoldThread DEF Turn, db
<1>4. CASE BookRollback(th)
  <2>1. /\ pc[th] = "rollback" /\ FindAndUpdateTable(frame[th].table, TRUE, FALSE, frame[th].capacity) /\ Finish(th)
        /\ UNCHANGED <<orders, used, session, late, reopened>>
    BY <1>4 DEF BookRollback
  <2>2. th \in Guests /\ session[th] = NoOrder
    BY <1>0, <2>1 DEF Role, Working, Program, Holding
  <2>3. Ends(th) /\ pc'[th] \in {"idle", "closed"}
    BY <2>1, FinishTurn DEF Ends, Turn
  <2>4. \A t : ~AnswersFor(th, t)'
    BY <2>1, <2>2, <2>3 DEF AnswersFor, Unpaid
  <2>5. AnswersFor(th, frame[th].table)
    BY <2>1 DEF AnswersFor
  <2>6. \A t \in TableIds : Kept(t) => Kept(t)' \/ t = frame[th].table
    BY <1>0, <2>1, KeptFreed
  <2> QED BY <2>1, <2>2, <2>3, <2>4, <2>5, <2>6, HoldThread DEF Ends, Turn
<1>5. CASE OrderMenu(th) \/ OrderUpdate(th) \/ MarkUpdate(th) \/ DeleteOrder(th)
  <2>1. /\ UNCHANGED <<tables, used, session, late>>
        /\ \E p, f : Turn(th, p, f) /\ p \notin Holding \cup {"bill", "free"}
    <3>1. CASE OrderMenu(th)
      BY <3>1, OrderMenuForm DEF Ends, Holding, db
    <3>2. CASE OrderUpdate(th) \/ MarkUpdate(th) \/ DeleteOrder(th)
      <4>1. UNCHANGED <<tables, used, session, late>> /\ Finish(th)
        BY <3>2 DEF OrderUpdate, MarkUpdate, DeleteOrder
      <4> QED BY <4>1, FinishTurn DEF Ends, Holding
    <3> QED BY <1>5, <3>1, <3>2
  <2>2. \A t \in TableIds : th \in Guests /\ AnswersFor(th, t)' => AnswersFor(th, t)
    BY <2>1, StillAnswers DEF Turn
  <2> QED BY <2>1, <2>2, KeptFiles, HoldThread DEF Turn
<1>6. CASE BillUpdate(th)
  <2>1. /\ pc[th] = "bill" /\ UNCHANGED <<tables, used, session, late>>
        /\ Finish(th) \/ (Goto(th, "free") /\ frame' = frame)
    BY <1>6 DEF BillUpdate
  <2>2. CASE Finish(th)
    <3>1. Ends(th) /\ pc'[th] \in {"idle", "closed"}
      BY <2>2, FinishTurn DEF Ends, Turn
    <3>2. \A t \in TableIds : th \in Guests /\ AnswersFor(th, t)' => AnswersFor(th, t)
      BY <2>1, <3>1, StillAnswers DEF Holding
    <3> QED BY <2>1, <3>1, <3>2, KeptFiles, HoldThread DEF Ends, Turn
  <2>3. CASE Goto(th, "free") /\ frame' = frame
    <3>1. Turn(th, "free", frame[th])
      BY <2>3, GotoTurn DEF Points, Writing
    <3>2. ASSUME th \in Guests, NEW t \in TableIds, AnswersFor(th, t)' PROVE AnswersFor(th, t)
      BY <2>1, <3>1, <3>2, UnpaidBefore DEF AnswersFor, Turn
    <3> QED BY <2>1, <3>1, <3>2, KeptFiles, HoldThread DEF Turn
  <2> QED BY <2>1, <2>2, <2>3
<1>7. CASE BillFree(th)
  <2>1. /\ pc[th] = "free" /\ FindAndUpdateTable(frame[th].copy.table, TRUE, FALSE, 0) /\ Finish(th)
        /\ UNCHANGED <<orders, used, session, late, reopened>>
    BY <1>7 DEF BillFree
  <2>2. th \in Guests /\ Over(session[th])
    BY <1>0, <2>1 DEF Role, FloorInv, Carries, Program, Copying, Working
  <2>3. Ends(th) /\ pc'[th] \in {"idle", "closed"}
    BY <2>1, FinishTurn DEF Ends, Turn
  <2>4. \A t : ~AnswersFor(th, t)'
    BY <2>1, <2>2, <2>3 DEF AnswersFor, Unpaid, Over
  <2>5. AnswersFor(th, frame[th].copy.table)
    BY <2>1 DEF AnswersFor
  <2>6. \A t \in TableIds : Kept(t) => Kept(t)' \/ t = frame[th].copy.table
    BY <1>0, <2>1, KeptFreed
  <2> QED BY <2>1, <2>2, <2>3, <2>4, <2>5, <2>6, HoldThread DEF Ends, Turn
<1> QED BY <1>1, <1>2, <1>3, <1>4, <1>5, <1>6, <1>7 DEF Continue

\* A failed release passes the table on from the guest to the call left behind.
LEMMA FailsHold ==
  ASSUME HouseInv, FloorInv, OrdersMove, HoldInv, ~reopened', NEW th \in Threads, CallFails(th)
  PROVE  HoldInv'
<1>0. ~reopened /\ failures \in Nat
  BY UsedNat DEF OrdersMove
<1>i. PICK n0 \in FailureIds : n0 = failures + 1
  BY FailureForm
<1>1. /\ pc[th] \notin {"idle", "closed"}
      /\ UNCHANGED <<tables, orders, used, session, reopened>>
      /\ \A n \in FailureIds : \/ late'[n] = late[n]
                               \/ n = n0 /\ late'[n].call = pc[th] /\ late'[n].frame = frame[th]
      /\ (pc[th] = "insert" /\ Turn(th, "rollback", frame[th])) \/ (pc[th] # "insert" /\ Ends(th))
  BY <1>i, FailureForm
<1>2. \A u \in Threads \ {th} : pc'[u] = pc[u] /\ frame'[u] = frame[u]
  BY <1>1 DEF Ends, Turn
<1>3. ASSUME NEW g \in Guests, NEW t \in TableIds, AnswersFor(g, t)' PROVE AnswersFor(g, t)
  <2>1. CASE g # th
    BY <1>1, <1>2, <1>3, <2>1, StillAnswers DEF Threads
  <2>2. CASE g = th /\ pc[th] = "insert" /\ Turn(th, "rollback", frame[th])
    <3>1. session[th] = NoOrder
      BY <2>2 DEF FloorInv, Program, Holding
    <3> QED BY <1>1, <1>3, <2>2, <3>1 DEF AnswersFor, Turn, Unpaid
  <2>3. CASE g = th /\ Ends(th)
    <3>1. pc'[g] \in {"idle", "closed"}
      BY <2>3 DEF Ends, Turn
    <3> QED BY <1>1, <1>3, <3>1, StillAnswers DEF Holding
  <2> QED BY <1>1, <2>1, <2>2, <2>3
<1>4. CASE late' = late
  <2>1. \A u \in Threads \ {th} : session'[u] = session[u]
    BY <1>1
  <2> QED BY <1>1, <1>2, <1>3, <1>4, <2>1, KeptFiles, HoldThread
<1>5. CASE pc[th] \in {"rollback", "free"} /\ late'[n0].call = pc[th] /\ late'[n0].frame = frame[th]
  <2>1. th \in Guests /\ pc'[th] \in {"idle", "closed"} /\ Unpaid(th)' = FALSE
    <3>1. th \in Guests
      BY <1>5 DEF FloorInv, Role
    <3>2. session[th] = NoOrder \/ Over(session[th])
      BY <1>0, <1>5, <3>1 DEF FloorInv, Carries, Program, Holding, Copying, Working, Threads
    <3>3. pc'[th] \in {"idle", "closed"}
      BY <1>1, <1>5 DEF Ends, Turn
    <3> QED BY <1>1, <3>1, <3>2, <3>3 DEF Unpaid, Over
  <2>2. \A t : ~AnswersFor(th, t)'
    BY <2>1 DEF AnswersFor
  <2>3. \A t : Releases(n0, t)' => AnswersFor(th, t)
    BY <1>5 DEF Releases, AnswersFor
  <2>4. \A n \in FailureIds \ {n0}, t \in TableIds : Releases(n, t)' => Releases(n, t)
    BY <1>1 DEF Releases
  <2> DEFINE before(x) == IF x = <<"late", n0>> THEN <<"guest", th>> ELSE x
  <2>5. ASSUME NEW x \in Holders, NEW t \in TableIds, Holds(x, t)'
        PROVE  before(x) \in Holders /\ Holds(before(x), t) /\ x # <<"guest", th>>
    <3>1. CASE x = <<"late", n0>>
      BY <2>1, <2>3, <2>5, <3>1 DEF Holds, Holders
    <3>2. CASE x # <<"late", n0>>
      <4>1. CASE x[1] = "late"
        <5>1. x[2] \in FailureIds \ {n0} /\ Releases(x[2], t)'
          BY <2>5, <3>2, <4>1, HoldersAre DEF Holds
        <5> QED BY <2>4, <3>2, <4>1, <5>1 DEF Holds
      <4>2. CASE x[1] = "guest"
        <5>1. x[2] \in Guests /\ AnswersFor(x[2], t)'
          BY <2>5, <4>2, HoldersAre DEF Holds
        <5>2. x # <<"guest", th>>
          BY <2>2, <5>1
        <5> QED BY <1>3, <3>2, <4>2, <5>1, <5>2 DEF Holds
      <4> QED BY <4>1, <4>2, HoldersAre
    <3> QED BY <3>1, <3>2
  <2> SUFFICES ASSUME NEW x \in Holders, NEW t \in TableIds, Holds(x, t)'
               PROVE  Kept(t)' /\ \A y \in Holders : Holds(y, t)' => y = x
    BY DEF HoldInv
  <2>6. before(x) \in Holders /\ Holds(before(x), t) /\ x # <<"guest", th>>
    BY <2>5
  <2>7. Kept(t)'
    BY <1>0, <1>1, <2>6, KeptFiles DEF HoldInv
  <2>8. ASSUME NEW y \in Holders, Holds(y, t)' PROVE y = x
    <3>1. before(y) \in Holders /\ Holds(before(y), t) /\ y # <<"guest", th>>
      BY <2>5, <2>8
    <3>2. before(y) = before(x)
      BY <1>0, <2>6, <3>1 DEF HoldInv
    <3> QED BY <2>6, <3>1, <3>2
  <2> QED BY <2>7, <2>8
<1>6. CASE pc[th] \notin {"rollback", "free"}
  <2>1. \A n \in FailureIds, t \in TableIds : Releases(n, t)' => Releases(n, t)
    BY <1>1, <1>6 DEF Releases
  <2>2. \A x \in Holders, t \in TableIds : Holds(x, t)' => Holds(x, t)
    BY <1>3, <2>1, HoldersAre DEF Holds
  <2>3. \A t \in TableIds : Kept(t) => Kept(t)'
    BY <1>1, KeptFiles
  <2> QED BY <1>0, <2>2, <2>3, HoldNext
<1>7. late' = late \/ (late'[n0].call = pc[th] /\ late'[n0].frame = frame[th])
  BY <1>i DEF CallFails, HouseInv, Files
<1> QED BY <1>4, <1>5, <1>6, <1>7

\* A call takes effect late: it takes a free table, frees the one it still holds,
\* or leaves the tables.
LEMMA LateHold ==
  ASSUME HouseInv, FloorInv, OrdersMove, HoldInv, ~reopened', NEW n \in FailureIds, LateWrite(n)
  PROVE  HoldInv'
<1> DEFINE f == late[n].frame
<1>0. ~reopened
  BY DEF OrdersMove
<1>1. /\ f \in Frame /\ f.table \in TableIds /\ f.capacity \in Capacities \cup {0} /\ f.copy.table \in TableIds
      /\ 0 \in Capacities \cup {0}
      /\ late'[n] = NoLate /\ \A m \in FailureIds \ {n} : late'[m] = late[m]
      /\ UNCHANGED <<pc, frame, session>>
  BY LateForm DEF Frame, Order
<1>2. \A t \in TableIds : ~Releases(n, t)' /\ \A m \in FailureIds \ {n} : Releases(m, t)' => Releases(m, t)
  BY <1>1 DEF Releases, NoLate
<1>3. \A x \in Holders, t \in TableIds : Holds(x, t)' => Holds(x, t) /\ x # <<"late", n>>
  BY <1>1, <1>2, HoldersAre, StillAnswers DEF Holds, Threads
<1>4. ASSUME NEW t \in TableIds, Kept(t) PROVE Kept(t)' \/ \A x \in Holders : ~Holds(x, t)'
  <2>1. CASE FindAndUpdateTable(f.table, FALSE, TRUE, f.capacity) /\ used' = used
    BY <1>1, <1>4, <2>1, KeptTaken
  <2>2. ASSUME NEW u \in TableIds, NEW cap \in Capacities \cup {0}, FindAndUpdateTable(u, TRUE, FALSE, cap),
               used' = used, Releases(n, u)
        PROVE  Kept(t)' \/ \A x \in Holders : ~Holds(x, t)'
    <3>1. CASE t = u
      <4>1. <<"late", n>> \in Holders /\ Holds(<<"late", n>>, t)
        BY <2>2, <3>1 DEF Holders, Holds
      <4>2. \A x \in Holders : Holds(x, t) => x = <<"late", n>>
        BY <1>0, <4>1 DEF HoldInv
      <4> QED BY <1>3, <4>2
    <3>2. CASE t # u
      BY <1>4, <2>2, <3>2, KeptFreed
    <3> QED BY <3>1, <3>2
  <2>3. CASE late[n].call = "rollback" /\ FindAndUpdateTable(f.table, TRUE, FALSE, f.capacity) /\ used' = used
    BY <1>1, <2>2, <2>3 DEF Releases
  <2>4. CASE late[n].call = "free" /\ FindAndUpdateTable(f.copy.table, TRUE, FALSE, 0) /\ used' = used
    BY <1>1, <2>2, <2>4 DEF Releases
  <2>5. CASE InsertOrder(f) /\ tables' = tables
    BY <1>1, <1>4, <2>5, OrderInserted DEF Kept, Matches
  <2>6. CASE UNCHANGED <<tables, used>>
    BY <1>4, <2>6, KeptFiles
  <2> QED BY <2>1, <2>3, <2>4, <2>5, <2>6 DEF LateWrite
<1> QED BY <1>0, <1>3, <1>4, HoldNext

LEMMA HoldStep == HouseInv /\ FloorInv /\ OrdersMove /\ HoldInv /\ [Next]_vars => HoldInv'
<1> SUFFICES ASSUME HouseInv, FloorInv, OrdersMove, HoldInv, [Next]_vars, ~reopened' PROVE HoldInv'
  BY DEF HoldInv
<1>1. CASE UNCHANGED vars
  BY <1>1 DEF vars, HoldInv, Holds, Kept, Matches, Releases, AnswersFor, Unpaid
<1> QED BY <1>1, AsksHold, OthersAskHold, GoesOnHold, FailsHold, LateHold DEF Next

LEMMA HoldInit == Init => HoldInv
BY HoldersAre DEF Init, HoldInv, Holds, Releases, AnswersFor, Unpaid, NoLate, Threads

LEMMA HoldSafe == HoldInv => NoDoubleBooking
<1> SUFFICES ASSUME HoldInv, ~reopened, NEW g \in Guests, NEW t \in TableIds, AnswersFor(g, t)
             PROVE  ~Matches(t, FALSE) /\ \A h \in Guests : AnswersFor(h, t) => h = g
  BY DEF NoDoubleBooking, OneGuestPerTable
<1>1. <<"guest", g>> \in Holders /\ Holds(<<"guest", g>>, t)
  BY DEF Holders, Holds
<1>2. \A h \in Guests : AnswersFor(h, t) => <<"guest", h>> \in Holders /\ Holds(<<"guest", h>>, t)
  BY DEF Holders, Holds
<1>3. ~Matches(t, FALSE) /\ \A y \in Holders : Holds(y, t) => y = <<"guest", g>>
  BY <1>1 DEF HoldInv, Kept
<1> QED BY <1>2, <1>3

\* Until a stale copy overwrites a bill, no table is given to two guests, and none
\* is offered while somebody answers for it, whatever the handlers of guests,
\* chefs and admins do at once, whichever calls fail, and whenever these take
\* effect after that.
THEOREM NoTableTwice == Spec => []NoDoubleBooking
<1>1. HouseInv /\ FloorInv /\ HoldInv /\ [Next]_vars => FloorInv' /\ HoldInv'
  BY HouseNext, FloorNext, HoldStep
<1> QED BY HouseInit, HouseNext, FloorInit, HoldInit, HoldSafe, <1>1, PTL DEF Spec

-----------------------------------------------------------------------------
(***************************************************************************)
(* Occupied tables.  While no call fails and no order is deleted, an       *)
(* occupied table has a guest that is on its way to free it, whom no other *)
(* handler can keep from it: its order is open, in the file and in every   *)
(* copy of it, until the guest's own handler writes the bill.  A guest     *)
(* that another one's stale copy has made unpaid again is not counted on.  *)
(***************************************************************************)
Open(o) ==
  /\ orders[o] # Absent /\ ~orders[o].billed
  /\ \A th \in Threads : pc[th] \in {"read_menu", "add_item", "mark"} /\ frame[th].order = o => ~frame[th].copy.billed
First(g, t) ==
  \/ pc[g] \in Holding /\ frame[g].table = t
  \/ pc[g] \in {"bill", "free"} /\ frame[g].copy.table = t
  \/ /\ pc[g] \in {"idle", "read_menu", "add_item"} /\ session[g] # NoOrder
     /\ Open(session[g]) /\ orders[session[g]].table = t
MannedInv ==
  failures = 0 =>
    /\ \A o \in OrderIds : o < used.orders => orders[o] # Absent
    /\ \A g \in Guests : leaving[g] => pc[g] \in {"bill", "free", "closed"}
    /\ \A t \in TableIds : Matches(t, TRUE) => \E g \in Guests : First(g, t)

LEMMA OpenTurn ==
  ASSUME NEW o \in OrderIds, Open(o), NEW th \in Threads, NEW p, NEW f, Turn(th, p, f),
         p \in {"read_menu", "add_item", "mark"} /\ f.order = o => ~f.copy.billed,
         orders'[o] # Absent /\ ~orders'[o].billed
  PROVE  Open(o)'
BY DEF Open, Turn

LEMMA OpenEnd ==
  ASSUME NEW o \in OrderIds, Open(o), NEW th \in Threads, Ends(th), orders'[o] # Absent /\ ~orders'[o].billed
  PROVE  Open(o)'
BY OpenTurn DEF Ends

\* A thread moves; the other guests that were on their way still are.
LEMMA MannedThread ==
  ASSUME HouseInv, FloorInv, OrdersMove, MannedInv, failures = 0, NEW th \in Threads,
         \A u \in Threads \ {th} : /\ pc'[u] = pc[u] /\ frame'[u] = frame[u]
                                   /\ session'[u] = session[u] /\ leaving'[u] = leaving[u],
         \A o \in OrderIds : o < used'.orders => orders'[o] # Absent,
         \A o \in OrderIds : Open(o) => Open(o)' \/ (th \in Guests /\ o = session[th]),
         th \in Guests /\ leaving'[th] => pc'[th] \in {"bill", "free", "closed"},
         \A t \in TableIds : Matches(t, TRUE)' =>
           \/ th \in Guests /\ First(th, t)'
           \/ Matches(t, TRUE) /\ (th \in Guests => ~First(th, t))
  PROVE  MannedInv'
<1>1. ASSUME NEW g \in Guests \ {th}, NEW t \in TableIds, First(g, t) PROVE First(g, t)'
  <2>1. pc'[g] = pc[g] /\ frame'[g] = frame[g] /\ session'[g] = session[g]
    BY DEF Threads
  <2>2. CASE /\ pc[g] \in {"idle", "read_menu", "add_item"} /\ session[g] # NoOrder
             /\ Open(session[g]) /\ orders[session[g]].table = t
    <3>1. PICK o \in OrderIds : o = session[g] /\ o < used.orders
      BY <2>2 DEF HouseInv, Handlers, FloorInv, Sessions, Threads
    <3>2. th \in Guests => session[th] # o
      BY <2>2, <3>1 DEF FloorInv, OwnOrder
    <3>3. Open(o)'
      BY <2>2, <3>1, <3>2
    <3>4. orders'[o].table = t
      BY <2>2, <3>1, <3>3 DEF OrdersMove, Open
    <3> QED BY <2>1, <2>2, <3>1, <3>3, <3>4 DEF First, Open
  <2> QED BY <1>1, <2>1, <2>2 DEF First
<1>2. ASSUME NEW t \in TableIds, Matches(t, TRUE)' PROVE \E g \in Guests : First(g, t)'
  <2>1. CASE th \in Guests /\ First(th, t)'
    BY <2>1
  <2>2. CASE Matches(t, TRUE) /\ (th \in Guests => ~First(th, t))
    <3>1. PICK g \in Guests : First(g, t)
      BY <2>2 DEF MannedInv
    <3> QED BY <1>1, <2>2, <3>1
  <2> QED BY <1>2, <2>1, <2>2
<1>3. \A g \in Guests : leaving'[g] => pc'[g] \in {"bill", "free", "closed"}
  BY DEF MannedInv, Threads
<1> QED BY <1>2, <1>3 DEF MannedInv

\* A thread goes from a point where it was on its way to free no table, with the
\* files as they are.
LEMMA MannedQuiet ==
  ASSUME HouseInv, FloorInv, OrdersMove, MannedInv, failures = 0, NEW th \in Threads, NEW p, NEW f, Turn(th, p, f),
         UNCHANGED <<tables, orders, used>>,
         \A u \in Threads \ {th} : session'[u] = session[u] /\ leaving'[u] = leaving[u],
         p \in {"read_menu", "add_item", "mark"} => ~Open(f.order) \/ ~f.copy.billed,
         th \in Guests /\ leaving'[th] => p \in {"bill", "free", "closed"},
         \A t \in TableIds : th \in Guests /\ First(th, t) => First(th, t)'
  PROVE  MannedInv'
<1>1. \A o \in OrderIds : Open(o) => Open(o)'
  BY OpenTurn DEF Open
<1>2. \A t \in TableIds : Matches(t, TRUE)' => Matches(t, TRUE)
  BY DEF Matches
<1>3. \A o \in OrderIds : o < used'.orders => orders'[o] # Absent
  BY DEF MannedInv
<1> QED BY <1>1, <1>2, <1>3, MannedThread DEF Turn

LEMMA AsksManned ==
  ASSUME HouseInv, FloorInv, OrdersMove, MannedInv, failures = 0, NEW g \in Guests, GuestAsks(g)
  PROVE  MannedInv'
<1>0. /\ g \in Threads /\ frame[g] \in Frame /\ (leaving[g] => pc[g] \in {"bill", "free", "closed"})
      /\ Program(pc[g], frame[g], session[g])
  BY DEF Threads, HouseInv, Handlers, MannedInv, FloorInv
<1>1. ASSUME NEW t \in TableIds, BookRead(g, t) PROVE MannedInv'
  <2>1. /\ pc[g] = "idle" /\ session[g] = NoOrder /\ UNCHANGED <<db, session, leaving>>
        /\ \E f \in Frame : Turn(g, "claim", f)
    BY <1>0, <1>1, BookReadForm
  <2>2. \A u : ~First(g, u)
    BY <2>1 DEF First, Holding
  <2> QED BY <1>0, <2>1, <2>2, MannedQuiet DEF db
<1>2. ASSUME NEW i \in ItemIds, NEW q \in Quantities, OrderRead(g, i, q) PROVE MannedInv'
  <2>1. PICK f \in Frame : /\ f.order = session[g] /\ f.copy = orders[session[g]] /\ Turn(g, "read_menu", f)
                           /\ pc[g] = "idle" /\ UNCHANGED <<db, session, leaving>>
    BY <1>0, <1>2, OrderReadForm
  <2>2. ~Open(f.order) \/ ~f.copy.billed
    BY <2>1 DEF Open
  <2>3. \A o \in OrderIds : Open(o) => Open(o)'
    BY <1>0, <2>1, OpenTurn DEF db, Open
  <2>4. ASSUME NEW u \in TableIds, First(g, u) PROVE First(g, u)'
    <3>1. Open(session[g]) /\ orders[session[g]].table = u /\ session[g] # NoOrder
      BY <2>1, <2>4 DEF First, Holding
    <3>2. PICK o \in OrderIds : o = session[g]
      BY <1>0, <3>1 DEF HouseInv, Handlers
    <3>3. Open(o)'
      BY <2>3, <3>1, <3>2
    <3> QED BY <2>1, <3>1, <3>2, <3>3 DEF First, Turn, Open, db
  <2> QED BY <1>0, <2>1, <2>2, <2>4, MannedQuiet DEF db
<1>3. CASE BillRead(g)
  <2>1. /\ pc[g] = "idle" /\ UNCHANGED <<db, session>> /\ \A u \in Threads \ {g} : leaving'[u] = leaving[u]
        /\ \/ /\ orders[session[g]] = Absent \/ orders[session[g]].billed
              /\ Ends(g)
           \/ \E f \in Frame : f.copy.table = orders[session[g]].table /\ Turn(g, "bill", f)
    BY <1>0, <1>3, BillReadForm
  <2>2. CASE (orders[session[g]] = Absent \/ orders[session[g]].billed) /\ Ends(g)
    <3>1. \A u : ~First(g, u)
      BY <2>1, <2>2 DEF First, Holding, Open
    <3> QED BY <1>0, <2>1, <2>2, <3>1, MannedQuiet DEF db, Ends
  <2>3. ASSUME NEW f \in Frame, f.copy.table = orders[session[g]].table, Turn(g, "bill", f) PROVE MannedInv'
    <3>1. \A u : First(g, u) => First(g, u)'
      BY <2>1, <2>3 DEF First, Holding, Turn
    <3> QED BY <1>0, <2>1, <2>3, <3>1, MannedQuiet DEF db
  <2> QED BY <2>1, <2>2, <2>3
<1>4. CASE Leave(g)
  <2>1. Turn(g, "closed", frame[g]) /\ pc[g] = "idle" /\ session[g] = NoOrder /\ UNCHANGED <<db, session, leaving>>
    BY <1>0, <1>4, GotoTurn DEF Leave, Points
  <2>2. \A u : ~First(g, u)
    BY <2>1 DEF First, Holding
  <2> QED BY <1>0, <2>1, <2>2, MannedQuiet DEF db
<1>5. CASE Connect(g)
  <2>1. /\ Turn(g, "idle", frame[g]) /\ pc[g] = "closed" /\ UNCHANGED db
        /\ session' = [session EXCEPT ![g] = NoOrder] /\ leaving' = [leaving EXCEPT ![g] = FALSE]
    BY <1>0, <1>5, GotoTurn DEF Connect, Points
  <2>2. ~leaving'[g] /\ \A u \in Threads \ {g} : session'[u] = session[u] /\ leaving'[u] = leaving[u]
    BY <1>0, <2>1 DEF HouseInv, Handlers
  <2>3. \A u : ~First(g, u)
    BY <2>1 DEF First, Holding
  <2> QED BY <1>0, <2>1, <2>2, <2>3, MannedQuiet DEF db
<1> QED BY <1>1, <1>2, <1>3, <1>4, <1>5 DEF GuestAsks

LEMMA OthersAskManned ==
  ASSUME HouseInv, FloorInv, OrdersMove, MannedInv, failures = 0,
         (\E c \in Chefs : ChefAsks(c)) \/ (\E a \in Admins : AdminAsks(a))
  PROVE  MannedInv'
<1>1. ASSUME NEW c \in Chefs, NEW o \in OrderIds, NEW k, MarkRead(c, o, k) PROVE MannedInv'
  <2>1. c \in Threads /\ c \notin Guests
    BY RestaurantAssumption DEF Threads
  <2>2. PICK f \in Frame : /\ f.order = o /\ f.copy.billed = orders[o].billed
                           /\ Turn(c, "mark", f) /\ UNCHANGED <<db, session, leaving>>
    BY <1>1, <2>1, MarkReadForm
  <2>3. ~Open(f.order) \/ ~f.copy.billed
    BY <2>2 DEF Open
  <2> QED BY <2>1, <2>2, <2>3, MannedQuiet DEF db
<1>2. ASSUME NEW a \in Admins, NEW o \in OrderIds, DeleteOrderRead(a, o) PROVE MannedInv'
  <2>1. a \in Threads /\ a \notin Guests
    BY RestaurantAssumption DEF Threads
  <2>2. UNCHANGED <<db, session, leaving>> /\ \E f \in Frame : Turn(a, "delete_order", f)
    BY <1>2, <2>1, DeleteReadForm
  <2> QED BY <2>1, <2>2, MannedQuiet DEF db
<1>3. ASSUME NEW a \in Admins, AdminAsks(a), \A o \in OrderIds : ~DeleteOrderRead(a, o) PROVE MannedInv'
  <2>1. a \in Threads /\ a \notin Guests
    BY RestaurantAssumption DEF Threads
  <2>2. UNCHANGED <<pc, frame, session, orders, leaving>>
    BY <1>3 DEF AdminAsks, AddTable, AddMenu, DeleteTable, DeleteMenu
  <2>3. used'.orders = used.orders /\ \A t \in TableIds : Matches(t, TRUE)' => Matches(t, TRUE)
    <3>0. used \in Limits /\ used.tables \in Nat /\ tables \in [TableIds -> Table \cup {Absent}]
      BY UsedNat DEF HouseInv, Files
    <3>1. ASSUME NEW n \in Capacities, AddTable(a, n)
          PROVE  /\ used'.orders = used.orders
                 /\ \A t \in TableIds : tables'[t] # tables[t] => ~tables'[t].occupied
      BY <3>0, <3>1 DEF AddTable, Limits
    <3>2. ASSUME NEW q \in Prices, AddMenu(a, q) PROVE used'.orders = used.orders /\ tables' = tables
      BY <3>0, <3>2 DEF AddMenu, Limits
    <3>3. ASSUME NEW u \in TableIds, DeleteTable(a, u)
          PROVE  used' = used /\ \A t \in TableIds : tables'[t] \in {tables[t], Absent}
      BY <3>0, <3>3 DEF DeleteTable
    <3>4. ASSUME NEW i \in ItemIds, DeleteMenu(a, i) PROVE used' = used /\ tables' = tables
      BY <3>4 DEF DeleteMenu
    <3> QED BY <1>3, <3>1, <3>2, <3>3, <3>4 DEF AdminAsks, Matches
  <2>4. \A o \in OrderIds : Open(o) => Open(o)'
    BY <2>2 DEF Open
  <2>5. \A o \in OrderIds : o < used'.orders => orders'[o] # Absent
    BY <2>2, <2>3 DEF MannedInv
  <2> QED BY <2>1, <2>2, <2>3, <2>4, <2>5, MannedThread
<1> QED BY <1>1, <1>2, <1>3 DEF ChefAsks

LEMMA GoesOnManned ==
  ASSUME "delete_order" \notin AdminCommands,
         HouseInv, FloorInv, OrdersMove, MannedInv, failures = 0, NEW th \in Threads, Continue(th)
  PROVE  MannedInv'
<1>0. /\ frame[th] \in Frame /\ frame[th].table \in TableIds /\ frame[th].copy.table \in TableIds
      /\ frame[th].capacity \in Capacities \cup {0} /\ 0 \in Capacities \cup {0}
      /\ frame[th].order \in OrderIds /\ Role(th, pc[th]) /\ Carries(pc[th], frame[th])
      /\ th \in Guests => /\ Program(pc[th], frame[th], session[th])
                          /\ leaving[th] => pc[th] \in {"bill", "free", "closed"}
  BY DEF HouseInv, Handlers, Frame, Order, FloorInv, MannedInv
<1>f. \A o \in OrderIds : o < used.orders => orders[o] # Absent
  BY DEF MannedInv
\* A table is written; the thread ends its request, or goes on to the insert.
<1>a. ASSUME orders' = orders, NEW p, NEW f, Turn(th, p, f), p \notin {"read_menu", "add_item", "mark"},
             UNCHANGED <<used, session, leaving>>, th \in Guests /\ leaving[th] => p \in {"free", "closed"},
             \A t \in TableIds : Matches(t, TRUE)' => \/ th \in Guests /\ First(th, t)'
                                                      \/ Matches(t, TRUE) /\ (th \in Guests => ~First(th, t))
      PROVE  MannedInv'
  <2>1. \A o \in OrderIds : Open(o) => Open(o)'
    BY <1>a, OpenTurn DEF Open
  <2> QED BY <1>a, <1>f, <2>1, MannedThread DEF Turn
<1>1. CASE BookClaim(th)
  <2>1. /\ pc[th] = "claim" /\ FindAndUpdateTable(frame[th].table, FALSE, TRUE, frame[th].capacity)
        /\ UNCHANGED <<orders, used, session, leaving>>
        /\ IF Matches(frame[th].table, FALSE) THEN Goto(th, "insert") /\ frame' = frame ELSE Finish(th)
    BY <1>1 DEF BookClaim
  <2>2. th \in Guests /\ \A t : ~First(th, t)
    BY <1>0, <2>1 DEF Role, First, Holding
  <2>3. \A t \in TableIds : Matches(t, TRUE)' =>
           Matches(t, TRUE) \/ (t = frame[th].table /\ Matches(frame[th].table, FALSE))
    BY <1>0, <2>1, TableWritten DEF Matches
  <2>4. CASE Matches(frame[th].table, FALSE)
    <3>1. Turn(th, "insert", frame[th])
      BY <2>1, <2>4, GotoTurn DEF Points, Writing
    <3>2. First(th, frame[th].table)'
      BY <2>1, <2>4, <3>1 DEF First, Turn, Holding
    <3>3. \A t \in TableIds : t = frame[th].table => First(th, t)'
      BY <2>1, <2>4, <3>1 DEF First, Turn, Holding
    <3>4. ~leaving[th]
      BY <1>0, <2>1, <2>2
    <3> QED BY <1>a, <2>1, <2>2, <2>3, <3>1, <3>3, <3>4
  <2>5. CASE ~Matches(frame[th].table, FALSE)
    <3>1. Ends(th)
      BY <2>1, <2>5, FinishTurn
    <3> QED BY <1>a, <2>1, <2>2, <2>3, <2>5, <3>1 DEF Ends
  <2> QED BY <2>4, <2>5
<1>2. CASE BookInsert(th)
  <2>1. /\ pc[th] = "insert" /\ InsertOrder(frame[th]) /\ session' = [session EXCEPT ![th] = used.orders]
        /\ UNCHANGED <<tables, leaving>> /\ Ends(th)
    BY <1>2, FinishTurn DEF BookInsert
  <2>2. th \in Guests /\ ~leaving[th] /\ session[th] = NoOrder
    BY <1>0, <2>1 DEF Role, Working, Program, Holding
  <2>3. PICK o \in OrderIds :
          /\ o = used.orders /\ orders'[o] = NewOrder(frame[th].table) /\ NewOrder(frame[th].table) \in Order
          /\ used'.orders = o + 1 /\ \A q \in OrderIds \ {o} : orders'[q] = orders[q]
    BY <1>0, <2>1, OrderInserted
  <2>4. session'[th] = o /\ \A u \in Threads \ {th} : session'[u] = session[u]
    BY <2>1, <2>3 DEF HouseInv, Handlers
  <2>5. Turn(th, "idle", NoFrame)
    <3>1. Goto(th, "idle") /\ frame' = [frame EXCEPT ![th] = NoFrame]
      BY <1>2, <2>1, <2>2 DEF BookInsert, Finish
    <3> QED BY <3>1, TurnIs, NoFrameType DEF Points
  <2>6. Open(o)'
    <3>1. orders'[o] # Absent /\ orders'[o].billed = FALSE /\ orders'[o].table = frame[th].table
      <4>1. orders'[o] # Absent
        BY <2>3, NoRecord
      <4> QED BY <2>3, <4>1 DEF NewOrder
    <3>2. \A u \in Threads : pc[u] \in Copying => frame[u].order # o
      <4>1. \A u \in Threads : pc[u] \in Copying => frame[u].order < o /\ frame[u].order \in Nat
        BY <2>3 DEF FloorInv, Carries, HouseInv, Handlers, Frame, OrderIds
      <4> QED BY <2>3, <4>1, UsedNat
    <3> QED BY <2>5, <3>1, <3>2 DEF Open, Turn, Copying, Working
  <2>7. ASSUME NEW t \in TableIds, First(th, t) PROVE First(th, t)'
    <3>1. t = frame[th].table
      BY <2>1, <2>7 DEF First
    <3>2. orders'[o].table = t
      BY <2>3, <3>1 DEF NewOrder
    <3> QED BY <2>3, <2>4, <2>5, <2>6, <3>2 DEF First, Turn, NoOrder, OrderIds, Open
  <2>8. \A q \in OrderIds : q < used'.orders => orders'[q] # Absent
    BY <1>f, <2>3, UsedNat, NoRecord DEF OrderIds
  <2>9. \A q \in OrderIds : Open(q) => Open(q)'
    <3>1. \A q \in OrderIds : Open(q) /\ q # o => Open(q)'
      BY <2>3, <2>5, OpenTurn DEF Open
    <3> QED BY <2>6, <3>1
  <2>10. \A t \in TableIds : Matches(t, TRUE)' => Matches(t, TRUE)
    BY <2>1 DEF Matches
  <2> QED BY <2>1, <2>2, <2>4, <2>5, <2>7, <2>8, <2>9, <2>10, MannedThread DEF Turn
<1>3. CASE BookInsertFails(th)
  <2>1. pc[th] = "insert" /\ Turn(th, "rollback", frame[th]) /\ UNCHANGED <<db, session, leaving>>
    BY <1>3, GotoTurn DEF BookInsertFails, Points, Writing
  <2>2. th \in Guests => ~leaving[th]
    BY <1>0, <2>1
  <2>3. \A t \in TableIds : First(th, t) => First(th, t)'
    BY <2>1 DEF First, Turn, Holding
  <2> QED BY <2>1, <2>2, <2>3, MannedQuiet DEF db
<1>4. CASE BookRollback(th) \/ BillFree(th)
  <2>1. PICK u \in TableIds, cap \in Capacities \cup {0} :
          /\ FindAndUpdateTable(u, TRUE, FALSE, cap) /\ UNCHANGED <<orders, used, session, leaving>> /\ Ends(th)
          /\ \/ pc[th] = "rollback" /\ u = frame[th].table
             \/ pc[th] = "free" /\ u = frame[th].copy.table
    BY <1>0, <1>4, FinishTurn DEF BookRollback, BillFree
  <2>2. \A t \in TableIds : Matches(t, TRUE)' => Matches(t, TRUE) /\ t # u
    BY <2>1, TableWritten DEF Matches
  <2>3. \A t \in TableIds : First(th, t) => t = u
    BY <2>1 DEF First, Holding
  <2> QED BY <1>a, <2>1, <2>2, <2>3 DEF Ends
<1>5. CASE OrderMenu(th)
  <2>0. pc[th] = "read_menu" /\ UNCHANGED <<db, session, leaving>>
    BY <1>5, OrderMenuForm
  <2>1. th \in Guests => ~leaving[th]
    BY <1>0, <2>0
  <2>2. ASSUME NEW p \in {"idle", "closed", "add_item"}, NEW f, Turn(th, p, f), th \in Guests => p # "closed",
               p = "add_item" => f.order = frame[th].order /\ f.copy.billed = frame[th].copy.billed
        PROVE  MannedInv'
    <3>1. p = "add_item" => ~Open(f.order) \/ ~f.copy.billed
      BY <2>0, <2>2 DEF Open
    <3>2. \A o \in OrderIds : Open(o) => Open(o)'
      BY <2>0, <2>2, <3>1, OpenTurn DEF Open, db
    <3>3. ASSUME th \in Guests, NEW t \in TableIds, First(th, t) PROVE First(th, t)'
      <4>1. Open(session[th]) /\ orders[session[th]].table = t /\ session[th] # NoOrder
        BY <2>0, <3>3 DEF First, Holding
      <4>2. PICK o \in OrderIds : o = session[th]
        BY <4>1 DEF HouseInv, Handlers
      <4>3. Open(o)'
        BY <3>2, <4>1, <4>2
      <4> QED BY <2>0, <2>2, <3>3, <4>1, <4>2, <4>3 DEF First, Turn, Open, db
    <3> QED BY <2>0, <2>1, <2>2, <3>1, <3>3, MannedQuiet DEF db
  <2>3. CASE Ends(th)
    <3>1. PICK p \in {"idle", "closed"} : Turn(th, p, NoFrame)
      BY <2>3 DEF Ends
    <3>2. CASE th \in Guests /\ p = "closed"
      <4>1. leaving'[th]
        BY <1>5, <3>1, <3>2 DEF OrderMenu, Finish, Goto, Turn, HouseInv, Handlers, Points
      <4> QED BY <2>0, <2>1, <3>2, <4>1
    <3> QED BY <2>2, <3>1, <3>2
  <2> QED BY <2>2, <2>3, <1>5, OrderMenuForm
<1>6. CASE OrderUpdate(th) \/ MarkUpdate(th)
  <2>1. pc[th] \in {"add_item", "mark"} /\ UpdateOrder(frame[th]) /\ UNCHANGED <<tables, used, session, leaving>> /\ Ends(th)
    BY <1>6, FinishTurn DEF OrderUpdate, MarkUpdate
  <2>2. \A o \in OrderIds : orders[o] # Absent => orders'[o] # Absent
    BY <1>0, <2>1, OrderWritten
  <2>3. ASSUME NEW o \in OrderIds, Open(o) PROVE Open(o)'
    <3>1. orders'[o] # Absent /\ ~orders'[o].billed
      BY <1>0, <2>1, <2>3, OrderWritten DEF Open
    <3> QED BY <2>1, <2>3, <3>1, OpenEnd
  <2>4. ASSUME th \in Guests, NEW t \in TableIds, First(th, t) PROVE First(th, t)'
    <3>1. Open(session[th]) /\ orders[session[th]].table = t /\ session[th] # NoOrder
      BY <2>1, <2>4 DEF First, Holding
    <3>2. PICK o \in OrderIds : o = session[th] /\ o < used.orders
      BY <2>4, <3>1 DEF HouseInv, Handlers, FloorInv, Sessions
    <3>3. Open(o)'
      BY <2>3, <3>1, <3>2
    <3>4. orders'[o].table = t
      BY <3>1, <3>2, <3>3 DEF OrdersMove, Open
    <3>5. ~leaving'[th]
      BY <1>0, <2>1, <2>4
    <3>6. pc'[th] = "idle"
      BY <1>6, <3>5 DEF OrderUpdate, MarkUpdate, Finish, Goto, HouseInv, Handlers
    <3> QED BY <2>1, <3>1, <3>2, <3>3, <3>4, <3>6 DEF First, Open
  <2>5. \A t \in TableIds : Matches(t, TRUE)' => Matches(t, TRUE)
    BY <2>1 DEF Matches
  <2>6. th \in Guests => ~leaving[th]
    BY <1>0, <2>1
  <2> QED BY <1>f, <2>1, <2>2, <2>3, <2>4, <2>5, <2>6, MannedThread DEF Ends, Turn
<1>7. CASE BillUpdate(th)
  <2>1. /\ pc[th] = "bill" /\ UpdateOrder(frame[th]) /\ UNCHANGED <<tables, used, session, leaving>>
        /\ IF orders[frame[th].order] = Absent THEN Finish(th) ELSE Goto(th, "free") /\ frame' = frame
    BY <1>7 DEF BillUpdate
  <2>2. th \in Guests /\ frame[th].order = session[th] /\ orders[frame[th].order] # Absent
    BY <1>0, <1>f, <2>1 DEF Role, Program, Carries, Copying, Working
  <2>3. Turn(th, "free", frame[th])
    BY <2>1, <2>2, GotoTurn DEF Points, Writing
  <2>4. \A o \in OrderIds : /\ orders[o] # Absent => orders'[o] # Absent
                            /\ o # session[th] => orders'[o] = orders[o]
    BY <1>0, <2>1, <2>2, OrderWritten
  <2>5. \A o \in OrderIds : Open(o) => Open(o)' \/ o = session[th]
    BY <2>3, <2>4, OpenTurn DEF Open
  <2>6. \A t \in TableIds : First(th, t) => First(th, t)'
    BY <2>1, <2>3 DEF First, Turn, Holding
  <2>7. \A t \in TableIds : Matches(t, TRUE)' => Matches(t, TRUE)
    BY <2>1 DEF Matches
  <2> QED BY <1>f, <2>1, <2>2, <2>3, <2>4, <2>5, <2>6, <2>7, MannedThread DEF Turn
<1>8. CASE DeleteOrder(th)
  BY <1>0, <1>8 DEF DeleteOrder, Role, Holding, Working
<1> QED BY <1>1, <1>2, <1>3, <1>4, <1>5, <1>6, <1>7, <1>8 DEF Continue

\* Without a failure there is nothing that could take effect late.
LEMMA NoFailure ==
  ASSUME HouseInv, FloorInv, Next, failures' = 0
  PROVE  failures = 0 /\ (\A th \in Threads : ~CallFails(th)) /\ \A n \in FailureIds : ~LateWrite(n)
<1>1. ASSUME NEW th \in Threads PROVE ~CallFails(th)
  BY UsedNat DEF CallFails
<1>2. ASSUME NEW n \in FailureIds, LateWrite(n) PROVE FALSE
  <2>1. late[n].call # "none" /\ failures = 0
    BY <1>2 DEF LateWrite
  <2>2. n <= 0 /\ n \in Nat \ {0}
    BY <2>1 DEF FloorInv, LateInv, FailureIds
  <2> QED BY <2>2
<1>3. failures = 0
  BY <1>1, <1>2 DEF Next, GuestAsks, ChefAsks, AdminAsks, Continue, BookRead, OrderRead, BillRead, Leave,
    Connect, MarkRead, AddTable, AddMenu, DeleteTable, DeleteMenu, DeleteOrderRead, BookClaim, BookInsert,
    BookInsertFails, BookRollback, OrderMenu, OrderUpdate, BillUpdate, BillFree, MarkUpdate, DeleteOrder, db
<1> QED BY <1>1, <1>2, <1>3

LEMMA MannedNext ==
  ASSUME "delete_order" \notin AdminCommands
  PROVE  HouseInv /\ FloorInv /\ OrdersMove /\ MannedInv /\ [Next]_vars => MannedInv'
<1> SUFFICES ASSUME HouseInv, FloorInv, OrdersMove, MannedInv, [Next]_vars, failures' = 0 PROVE MannedInv'
  BY DEF MannedInv
<1>1. CASE UNCHANGED vars
  BY <1>1 DEF vars, MannedInv, Matches, First, Open
<1>2. CASE Next
  BY <1>2, NoFailure, AsksManned, OthersAskManned, GoesOnManned DEF Next
<1> QED BY <1>1, <1>2

LEMMA MannedInit == Init => MannedInv
<1> SUFFICES ASSUME Init PROVE MannedInv
  OBVIOUS
<1>1. \A t \in TableIds : ~Matches(t, TRUE)
  BY DEF Init, Matches
<1>2. \A o \in OrderIds : ~(o < used.orders)
  BY DEF Init, OrderIds
<1> QED BY <1>1, <1>2 DEF Init, MannedInv, Threads

\* While no call fails, an occupied table always has a guest that is still going
\* to free it, unless admins delete orders: the rollback of a booking that cannot
\* be entered and the release after a bill are never left out.
THEOREM NobodyStrands ==
  ASSUME "delete_order" \notin AdminCommands
  PROVE  Spec => []NoStrandedTable
<1>1. HouseInv /\ FloorInv /\ MannedInv /\ [Next]_vars => FloorInv' /\ MannedInv'
  BY HouseNext, FloorNext, MannedNext
<1>2. MannedInv => NoStrandedTable
  BY DEF MannedInv, NoStrandedTable, First, AnswersFor, Holding, Open, Unpaid
<1> QED BY HouseInit, HouseNext, FloorInit, MannedInit, <1>1, <1>2, PTL DEF Spec

-----------------------------------------------------------------------------
(***************************************************************************)
(* The seating.  What is seen of a guest depends on its program point and, *)
(* while it works on no table of its own, on whether its order is unpaid.  *)
(* As long as no bill is overwritten nobody's order becomes unpaid again,  *)
(* and only the guest's own bill, or a call that takes effect late, pays   *)
(* it; an order is gone only where admins delete orders.                   *)
(***************************************************************************)
Seen == Seats!SeatingNext \/ UNCHANGED <<tableBar, stageBar, seatBar, failures>>
Stays(g) == StageOf(g)' = StageOf(g) /\ SeatOf(g)' = SeatOf(g)
Seated == Holding \cup {"bill", "free"}

GoneInv ==
  failures = 0 =>
    /\ "delete_order" \in AdminCommands \/ \A o \in OrderIds : o < used.orders => orders[o] # Absent
    /\ ~reopened => \A g \in Guests : /\ leaving[g] => pc[g] \in {"bill", "free", "closed"}
                                      /\ pc[g] = "closed" => ~Unpaid(g)

LEMMA ViewIs ==
  ASSUME NEW g
  PROVE  /\ pc[g] \in Holding => StageOf(g) = "booking" /\ SeatOf(g) = frame[g].table
         /\ pc[g] = "free" => StageOf(g) = "paid" /\ SeatOf(g) = frame[g].copy.table
         /\ pc[g] = "bill" => StageOf(g) = "dining" /\ SeatOf(g) = frame[g].copy.table
         /\ pc[g] \notin Seated /\ Unpaid(g) => StageOf(g) = "dining" /\ SeatOf(g) = orders[session[g]].table
         /\ pc[g] \notin Seated /\ ~Unpaid(g) => StageOf(g) = "out" /\ SeatOf(g) = NoOrder
BY DEF StageOf, SeatOf, Holding, Seated

LEMMA ViewIsNext ==
  ASSUME NEW g
  PROVE  /\ pc'[g] \in Holding => StageOf(g)' = "booking" /\ SeatOf(g)' = frame'[g].table
         /\ pc'[g] = "free" => StageOf(g)' = "paid" /\ SeatOf(g)' = frame'[g].copy.table
         /\ pc'[g] = "bill" => StageOf(g)' = "dining" /\ SeatOf(g)' = frame'[g].copy.table
         /\ pc'[g] \notin Seated /\ Unpaid(g)' => StageOf(g)' = "dining" /\ SeatOf(g)' = orders'[session'[g]].table
         /\ pc'[g] \notin Seated /\ ~Unpaid(g)' => StageOf(g)' = "out" /\ SeatOf(g)' = NoOrder
BY DEF StageOf, SeatOf, Holding, Seated

LEMMA SeenOf ==
  ASSUME NEW g \in Guests
  PROVE  stageBar[g] = StageOf(g) /\ seatBar[g] = SeatOf(g)
BY DEF stageBar, seatBar

\* A guest that does not move, or moves between points where it has no table but
\* its order's, is seen as before while its order stays unpaid.
LEMMA SeatKept ==
  ASSUME HouseInv, FloorInv, OrdersMove, ~reopened', NEW g \in Guests,
         \/ pc'[g] = pc[g] /\ frame'[g] = frame[g]
         \/ pc'[g] \notin Seated /\ pc[g] \notin Seated,
         session'[g] = session[g], Unpaid(g) => Unpaid(g)' \/ pc'[g] \in Seated
  PROVE  Stays(g)
<1>1. Unpaid(g)' => Unpaid(g) /\ orders'[session'[g]].table = orders[session[g]].table
  BY UnpaidBefore
<1>2. CASE pc'[g] = pc[g] /\ frame'[g] = frame[g] /\ pc[g] \in Seated
  BY <1>2, ViewIs, ViewIsNext DEF Stays, Seated
<1>3. CASE pc'[g] \notin Seated /\ pc[g] \notin Seated
  BY <1>1, <1>3, ViewIs, ViewIsNext DEF Stays
<1> QED BY <1>2, <1>3

LEMMA OneMoves ==
  ASSUME NEW g \in Guests, \A h \in Guests \ {g} : Stays(h)
  PROVE  Seats!Sits(g, StageOf(g)', SeatOf(g)')
<1> DEFINE s == StageOf(g)'
           t == SeatOf(g)'
<1>3. stageBar' = [h \in Guests |-> IF h = g THEN s ELSE StageOf(h)]
  BY DEF stageBar, Stays
<1>4. seatBar' = [h \in Guests |-> IF h = g THEN t ELSE SeatOf(h)]
  BY DEF seatBar, Stays
<1> HIDE DEF s, t
<1>5. stageBar' = [stageBar EXCEPT ![g] = s] /\ seatBar' = [seatBar EXCEPT ![g] = t]
  BY <1>3, <1>4 DEF stageBar, seatBar
<1> QED BY <1>5 DEF Seats!Sits, s, t

LEMMA NoneMoves ==
  ASSUME \A h \in Guests : Stays(h)
  PROVE  stageBar' = stageBar /\ seatBar' = seatBar
BY DEF stageBar, seatBar, Stays

LEMMA TablesStay ==
  ASSUME tables' = tables, used'.tables = used.tables
  PROVE  tableBar' = tableBar
BY DEF tableBar, TableState

\* The others, while a thread moves and no order of theirs is paid or deleted.
LEMMA OthersStay ==
  ASSUME HouseInv, FloorInv, OrdersMove, ~reopened', NEW th,
         \A h \in Guests \ {th} : /\ pc'[h] = pc[h] /\ frame'[h] = frame[h] /\ session'[h] = session[h]
                                  /\ Unpaid(h) => Unpaid(h)'
  PROVE  \A h \in Guests \ {th} : Stays(h)
BY SeatKept

\* An order is paid or deleted behind its guest's back.
LEMMA OrderCloses ==
  ASSUME HouseInv, FloorInv, OrdersMove, ~reopened', NEW o \in OrderIds,
         \A q \in OrderIds \ {o} : orders'[q] = orders[q],
         \A g \in Guests : pc'[g] = pc[g] /\ frame'[g] = frame[g] /\ session'[g] = session[g],
         UNCHANGED <<tables, used, failures>>, failures > 0 \/ "delete_order" \in AdminCommands
  PROVE  Seen
<1>1. tableBar' = tableBar
  BY TablesStay
<1>2. ASSUME NEW h \in Guests, session[h] # o PROVE Stays(h)
  <2>1. Unpaid(h) => Unpaid(h)'
    BY <1>2 DEF Unpaid, HouseInv, Handlers, Threads
  <2> QED BY <2>1, SeatKept
<1>3. CASE \A h \in Guests : Stays(h)
  BY <1>1, <1>3, NoneMoves DEF Seen
<1>4. ASSUME NEW g \in Guests, ~Stays(g) PROVE Seen
  <2>1. session[g] = o /\ \A h \in Guests \ {g} : session[h] # o
    BY <1>2, <1>4 DEF FloorInv, OwnOrder, NoOrder, OrderIds
  <2>2. Unpaid(g) /\ ~Unpaid(g)' /\ pc'[g] \notin Seated
    BY <1>4, SeatKept
  <2>3. StageOf(g) = "dining" /\ StageOf(g)' = "out" /\ SeatOf(g)' = NoOrder
    BY <2>2, ViewIs, ViewIsNext
  <2>4. Seats!GoesOut(g)
    BY <1>2, <2>1, <2>3, OneMoves DEF Seats!GoesOut
  <2>5. Seats!Desert(g)
    BY <1>1, <2>3, <2>4, SeenOf DEF Seats!Desert
  <2> QED BY <2>5 DEF Seen, Seats!SeatingNext
<1> QED BY <1>3, <1>4

\* A copy that is written to an unpaid order leaves it unpaid, unless it is the bill.
LEMMA StaysUnpaid ==
  ASSUME HouseInv, FloorInv, OrdersMove, ~reopened', NEW f \in Frame, UpdateOrder(f),
         NEW call \in {"add_item", "mark"}, Carries(call, f), NEW g \in Guests, session'[g] = session[g], Unpaid(g)
  PROVE  Unpaid(g)'
<1>1. session[g] \in OrderIds /\ orders[session[g]] # Absent /\ ~orders[session[g]].billed /\ ~reopened
  BY DEF Unpaid, HouseInv, Handlers, Threads, OrdersMove
<1>2. session[g] = f.order => ~f.copy.billed
  BY <1>1 DEF Carries, Copying, Working, Over
<1>3. orders'[session[g]] # Absent /\ ~orders'[session[g]].billed
  BY <1>1, <1>2, OrderWritten
<1> QED BY <1>3 DEF Unpaid

-----------------------------------------------------------------------------
\* What is seen of a table, and what a find_and_update of one changes of it.
LEMMA TableSeen ==
  ASSUME HouseInv, FloorInv, NEW t \in TableIds
  PROVE  /\ tableBar[t] = TableState(t)
         /\ Matches(t, FALSE) <=> TableState(t) = "free"
         /\ Matches(t, TRUE) <=> TableState(t) = "taken"
         /\ tables[t] # Absent => ~(t >= used.tables)
<1>1. tables[t] # Absent => t < used.tables /\ tables[t].occupied \in BOOLEAN
  BY DEF HouseInv, Files, Table, FloorInv, TableSlots
<1>2. t \in Nat /\ used.tables \in Nat
  BY UsedNat DEF TableIds
<1>3. tables[t] # Absent => ~(t >= used.tables)
  BY <1>1, <1>2
<1> QED BY <1>1, <1>3 DEF tableBar, TableState, Matches

LEMMA TableWrite ==
  ASSUME HouseInv, FloorInv, NEW t \in TableIds, NEW from \in BOOLEAN, NEW to \in BOOLEAN,
         NEW cap \in Capacities \cup {0}, FindAndUpdateTable(t, from, to, cap), used' = used
  PROVE  tableBar' = IF Matches(t, from) THEN [tableBar EXCEPT ![t] = IF to THEN "taken" ELSE "free"] ELSE tableBar
<1>1. CASE ~Matches(t, from)
  BY <1>1, TablesStay DEF FindAndUpdateTable
<1>2. CASE Matches(t, from)
  <2> DEFINE seen == IF to THEN "taken" ELSE "free"
  <2>1. /\ tables'[t] # Absent /\ tables'[t].occupied = to /\ ~(t >= used.tables)
        /\ \A u \in TableIds \ {t} : tables'[u] = tables[u]
    BY <1>2, TableWritten, TableSeen DEF Matches
  <2>2. TableState(t)' = seen
    BY <2>1 DEF TableState
  <2>3. \A u \in TableIds \ {t} : TableState(u)' = TableState(u)
    BY <2>1 DEF TableState
  <2> HIDE DEF seen
  <2>4. tableBar' = [tableBar EXCEPT ![t] = seen]
    BY <2>2, <2>3 DEF tableBar
  <2> QED BY <1>2, <2>4 DEF seen
<1> QED BY <1>1, <1>2

LEMMA TableGivenBack ==
  ASSUME HouseInv, FloorInv, NEW t \in TableIds, NEW cap \in Capacities \cup {0},
         FindAndUpdateTable(t, TRUE, FALSE, cap), used' = used
  PROVE  Seats!Vacated(t)
<1>1. tableBar' = IF Matches(t, TRUE) THEN [tableBar EXCEPT ![t] = "free"] ELSE tableBar
  BY TableWrite
<1>2. Matches(t, TRUE) <=> tableBar[t] = "taken"
  BY TableSeen
<1>3. tableBar = [u \in TableIds |-> tableBar[u]]
  BY DEF tableBar
<1> QED BY <1>1, <1>2, <1>3 DEF Seats!Vacated

-----------------------------------------------------------------------------
\* The requests a guest makes; only a new connection can show, as the end of one
\* whose bill could not be written.
LEMMA GuestAsksSeats ==
  ASSUME HouseInv, FloorInv, OrdersMove, GoneInv, ~reopened', NEW g \in Guests, GuestAsks(g)
  PROVE  Seen
<1>0. g \in Threads /\ ~reopened
  BY DEF Threads, OrdersMove
<1>1. ASSUME UNCHANGED db, \A u \in Threads \ {g} : pc'[u] = pc[u] /\ frame'[u] = frame[u] /\ session'[u] = session[u],
             Stays(g) \/ (StageOf(g) = "dining" /\ StageOf(g)' = "out" /\ SeatOf(g)' = NoOrder /\ failures > 0)
      PROVE  Seen
  <2>1. ASSUME NEW h \in Guests \ {g} PROVE /\ pc'[h] = pc[h] /\ frame'[h] = frame[h] /\ session'[h] = session[h]
                                            /\ Unpaid(h) => Unpaid(h)'
    BY <1>1 DEF Threads, db, Unpaid
  <2>2. \A h \in Guests \ {g} : Stays(h)
    BY <2>1, OthersStay
  <2>3. tableBar' = tableBar /\ failures' = failures
    BY <1>1, TablesStay DEF db
  <2>4. CASE Stays(g)
    BY <2>2, <2>3, <2>4, NoneMoves DEF Seen
  <2>5. CASE StageOf(g) = "dining" /\ StageOf(g)' = "out" /\ SeatOf(g)' = NoOrder /\ failures > 0
    <3>1. Seats!GoesOut(g)
      BY <2>2, <2>5, OneMoves DEF Seats!GoesOut
    <3>2. Seats!Desert(g)
      BY <2>3, <2>5, <3>1, SeenOf DEF Seats!Desert
    <3> QED BY <3>2 DEF Seen, Seats!SeatingNext
  <2> QED BY <1>1, <2>4, <2>5
<1>2. ASSUME NEW p, p \notin Seated, NEW f, Turn(g, p, f), pc[g] = "idle", UNCHANGED <<db, session>> PROVE Seen
  <2>1. Unpaid(g) => Unpaid(g)'
    BY <1>2 DEF Unpaid, db
  <2>2. Stays(g)
    BY <1>2, <2>1, SeatKept DEF Turn, Seated, Holding
  <2> QED BY <1>1, <1>2, <2>2 DEF Turn
<1>3. ASSUME NEW t \in TableIds, BookRead(g, t) PROVE Seen
  BY <1>0, <1>2, <1>3, BookReadForm DEF Seated, Holding
<1>4. ASSUME NEW i \in ItemIds, NEW q \in Quantities, OrderRead(g, i, q) PROVE Seen
  BY <1>0, <1>2, <1>4, OrderReadForm DEF Seated, Holding
<1>5. CASE Leave(g)
  BY <1>0, <1>2, <1>5, GotoTurn DEF Leave, Points, Seated, Holding
<1>6. CASE BillRead(g)
  <2>1. pc[g] = "idle" /\ session[g] \in OrderIds /\ UNCHANGED <<db, session>>
    BY <1>0, <1>6, BillReadForm
  <2>2. CASE Ends(g)
    BY <1>2, <2>1, <2>2 DEF Ends, Seated, Holding
  <2>3. CASE ~Ends(g)
    <3>1. PICK f \in Frame : /\ f.copy.table = orders[session[g]].table /\ Turn(g, "bill", f)
                             /\ orders[session[g]] \in Order /\ ~orders[session[g]].billed
      BY <1>0, <1>6, <2>3, BillReadForm
    <3>2. Unpaid(g)
      BY <2>1, <3>1, NoRecord DEF Unpaid, NoOrder, OrderIds
    <3>3. StageOf(g) = "dining" /\ SeatOf(g) = orders[session[g]].table
      BY <2>1, <3>2, ViewIs DEF Seated, Holding
    <3>4. StageOf(g)' = "dining" /\ SeatOf(g)' = orders[session[g]].table
      BY <3>1, ViewIsNext DEF Turn
    <3> QED BY <1>1, <2>1, <3>1, <3>3, <3>4 DEF Turn, Stays
  <2> QED BY <2>2, <2>3
<1>7. CASE Connect(g)
  <2>1. /\ Turn(g, "idle", frame[g]) /\ pc[g] = "closed" /\ UNCHANGED db
        /\ session' = [session EXCEPT ![g] = NoOrder]
    BY <1>0, <1>7, GotoTurn DEF Connect, Points
  <2>2. session'[g] = NoOrder /\ \A u \in Threads \ {g} : session'[u] = session[u]
    BY <1>0, <2>1 DEF HouseInv, Handlers
  <2>3. ~Unpaid(g)' /\ pc'[g] = "idle" /\ pc'[g] \notin Seated /\ pc[g] \notin Seated
    BY <2>1, <2>2 DEF Unpaid, Turn, Seated, Holding
  <2>4. StageOf(g)' = "out" /\ SeatOf(g)' = NoOrder
    BY <2>3, ViewIsNext
  <2>5. CASE Unpaid(g)
    <3>1. failures > 0
      BY <1>0, <2>1, <2>5, UsedNat DEF GoneInv
    <3>2. StageOf(g) = "dining"
      BY <2>3, <2>5, ViewIs
    <3> QED BY <1>1, <2>1, <2>2, <2>4, <3>1, <3>2 DEF Turn
  <2>6. CASE ~Unpaid(g)
    <3>1. StageOf(g) = "out" /\ SeatOf(g) = NoOrder
      BY <2>3, <2>6, ViewIs
    <3> QED BY <1>1, <2>1, <2>2, <2>4, <3>1 DEF Turn, Stays
  <2> QED BY <2>5, <2>6
<1> QED BY <1>3, <1>4, <1>5, <1>6, <1>7 DEF GuestAsks

\* What chefs and admins begin: only their commands on tables show.
LEMMA OthersAskSeats ==
  ASSUME HouseInv, FloorInv, OrdersMove, ~reopened',
         (\E c \in Chefs : ChefAsks(c)) \/ (\E a \in Admins : AdminAsks(a))
  PROVE  Seen
<1>1. ASSUME NEW th, th \notin Guests, \A u \in Threads \ {th} : pc'[u] = pc[u] /\ frame'[u] = frame[u],
             session' = session, orders' = orders
      PROVE  stageBar' = stageBar /\ seatBar' = seatBar
  <2>1. \A h \in Guests : /\ pc'[h] = pc[h] /\ frame'[h] = frame[h] /\ session'[h] = session[h]
                          /\ Unpaid(h) => Unpaid(h)'
    BY <1>1 DEF Threads, Unpaid
  <2> QED BY <2>1, SeatKept, NoneMoves
<1>2. ASSUME NEW th \in Threads, th \notin Guests, NEW p, NEW f, Turn(th, p, f), UNCHANGED <<db, session>> PROVE Seen
  <2>1. stageBar' = stageBar /\ seatBar' = seatBar
    BY <1>1, <1>2 DEF Turn, db
  <2> QED BY <1>2, <2>1, TablesStay DEF Seen, db
<1>3. ASSUME NEW c \in Chefs, NEW o \in OrderIds, NEW k, MarkRead(c, o, k) PROVE Seen
  <2>1. c \in Threads /\ c \notin Guests
    BY RestaurantAssumption DEF Threads
  <2> QED BY <1>2, <1>3, <2>1, MarkReadForm
<1>4. ASSUME NEW a \in Admins, AdminAsks(a) PROVE Seen
  <2>1. a \in Threads /\ a \notin Guests
    BY RestaurantAssumption DEF Threads
  <2>2. ASSUME NEW o \in OrderIds, DeleteOrderRead(a, o) PROVE Seen
    BY <1>2, <2>1, <2>2, DeleteReadForm
  <2>3. ASSUME UNCHANGED <<orders, pc, session, frame>> PROVE stageBar' = stageBar /\ seatBar' = seatBar
    BY <1>1, <2>1, <2>3
  <2>4. ASSUME NEW n \in Capacities, AddTable(a, n) PROVE \E t \in TableIds : Seats!Add(t)
    <3>0. used.tables \in Nat /\ used \in Limits /\ used.tables \in TableIds
      BY <2>4, UsedNat, RestaurantAssumption DEF AddTable, TableIds, HouseInv, Files
    <3> DEFINE rec == [capacity |-> n, occupied |-> FALSE]
    <3> PICK t \in TableIds : t = used.tables
      BY <3>0
    <3>1. /\ tables' = [tables EXCEPT ![t] = rec] /\ used' = [used EXCEPT !.tables = @ + 1]
          /\ UNCHANGED <<orders, pc, session, frame, failures>>
      BY <2>4 DEF AddTable
    <3>2. rec # Absent /\ rec.occupied = FALSE
      <4>1. rec \in Table
        BY DEF Table
      <4> QED BY <4>1, NoRecord
    <3> HIDE DEF rec
    <3>3. used'.tables = t + 1
      BY <3>0, <3>1 DEF Limits
    <3>4. tables'[t] = rec /\ \A u \in TableIds \ {t} : tables'[u] = tables[u]
      BY <3>1 DEF HouseInv, Files
    <3>5. TableState(t) = "new" /\ TableState(t)' = "free"
      <4>1. t >= used.tables /\ ~(t >= used'.tables)
        BY <3>0, <3>3
      <4> QED BY <3>2, <3>4, <4>1 DEF TableState
    <3>6. \A u \in TableIds \ {t} : TableState(u)' = TableState(u)
      <4>1. \A u \in TableIds \ {t} : u >= used'.tables <=> u >= used.tables
        BY <3>0, <3>3 DEF TableIds
      <4> QED BY <3>4, <4>1 DEF TableState
    <3>7. tableBar[t] = "new" /\ tableBar' = [tableBar EXCEPT ![t] = "free"]
      BY <3>5, <3>6 DEF tableBar
    <3> QED BY <2>3, <3>1, <3>7 DEF Seats!Add
  <2>5. ASSUME NEW t \in TableIds, DeleteTable(a, t) PROVE Seats!Remove(t)
    <3>1. /\ tables' = [tables EXCEPT ![t] = Absent] /\ tables[t] # Absent
          /\ UNCHANGED <<orders, used, pc, session, frame, failures>>
      BY <2>5 DEF DeleteTable
    <3>2. tables'[t] = Absent /\ \A u \in TableIds \ {t} : tables'[u] = tables[u]
      BY <3>1 DEF HouseInv, Files
    <3>3. ~(t >= used.tables)
      BY <3>1, TableSeen
    <3>4. TableState(t) \in {"free", "taken"} /\ TableState(t)' = "removed"
      BY <3>1, <3>2, <3>3 DEF TableState
    <3>5. \A u \in TableIds \ {t} : TableState(u)' = TableState(u)
      BY <3>1, <3>2 DEF TableState
    <3>6. tableBar[t] \in {"free", "taken"} /\ tableBar' = [tableBar EXCEPT ![t] = "removed"]
      BY <3>4, <3>5 DEF tableBar
    <3> QED BY <2>3, <3>1, <3>6 DEF Seats!Remove
  <2>6. ASSUME NEW n \in Prices, AddMenu(a, n) PROVE Seen
    <3>1. used' = [used EXCEPT !.menu = @ + 1] /\ UNCHANGED <<tables, orders, pc, session, frame, failures>>
      BY <2>6 DEF AddMenu
    <3>2. used'.tables = used.tables
      BY <3>1 DEF HouseInv, Files, Limits
    <3> QED BY <2>3, <3>1, <3>2, TablesStay DEF Seen
  <2>7. ASSUME NEW i \in ItemIds, DeleteMenu(a, i) PROVE Seen
    <3>1. UNCHANGED <<tables, orders, used, pc, session, frame, failures>>
      BY <2>7 DEF DeleteMenu
    <3> QED BY <2>3, <3>1, TablesStay DEF Seen
  <2> QED BY <1>4, <2>2, <2>4, <2>5, <2>6, <2>7 DEF AdminAsks, Seen, Seats!SeatingNext
<1> QED BY <1>3, <1>4 DEF ChefAsks

LEMMA GoesOnSeats ==
  ASSUME HouseInv, FloorInv, OrdersMove, GoneInv, ~reopened', NEW th \in Threads, Continue(th)
  PROVE  Seen
<1>0. /\ ~reopened /\ frame[th] \in Frame /\ frame[th].table \in TableIds /\ frame[th].copy.table \in TableIds
      /\ frame[th].capacity \in Capacities \cup {0} /\ 0 \in Capacities \cup {0} /\ frame[th].order \in OrderIds
      /\ Role(th, pc[th]) /\ Carries(pc[th], frame[th])
      /\ th \in Guests => Program(pc[th], frame[th], session[th])
  BY DEF OrdersMove, HouseInv, Handlers, Frame, Order, FloorInv
\* A thread moves, and the orders of the others stay as they are.
<1>a. ASSUME NEW p, NEW f, Turn(th, p, f), \A u \in Threads \ {th} : session'[u] = session[u],
             \A h \in Guests \ {th} : Unpaid(h) => Unpaid(h)'
      PROVE  \A h \in Guests \ {th} : Stays(h)
  <2>1. \A h \in Guests \ {th} : /\ pc'[h] = pc[h] /\ frame'[h] = frame[h] /\ session'[h] = session[h]
                                 /\ Unpaid(h) => Unpaid(h)'
    BY <1>a DEF Turn, Threads
  <2> QED BY <2>1, OthersStay
<1>b. ASSUME UNCHANGED <<orders, session>> PROVE \A h : Unpaid(h)' <=> Unpaid(h)
  BY <1>b DEF Unpaid
<1>c. ASSUME \A h \in Guests : Stays(h), UNCHANGED <<tables, failures>>, used'.tables = used.tables PROVE Seen
  BY <1>c, NoneMoves, TablesStay DEF Seen
<1>1. CASE BookClaim(th)
  <2>1. /\ pc[th] = "claim" /\ FindAndUpdateTable(frame[th].table, FALSE, TRUE, frame[th].capacity)
        /\ UNCHANGED <<orders, used, session, failures>>
        /\ IF Matches(frame[th].table, FALSE) THEN Goto(th, "insert") /\ frame' = frame ELSE Finish(th)
    BY <1>1 DEF BookClaim
  <2>2. th \in Guests /\ ~Unpaid(th)
    BY <1>0, <2>1 DEF Role, Program, Unpaid
  <2>3. CASE Matches(frame[th].table, FALSE)
    <3>0. PICK t \in TableIds : t = frame[th].table
      BY <1>0
    <3>1. Turn(th, "insert", frame[th])
      BY <2>1, <2>3, GotoTurn DEF Points, Writing
    <3>2. StageOf(th) = "out"
      BY <2>1, <2>2, ViewIs DEF Seated, Holding
    <3>3. StageOf(th)' = "booking" /\ SeatOf(th)' = t
      BY <3>0, <3>1, ViewIsNext DEF Turn, Holding
    <3>4. tableBar' = [tableBar EXCEPT ![t] = "taken"] /\ tableBar[t] = "free"
      BY <1>0, <2>1, <2>3, <3>0, TableWrite, TableSeen
    <3>5. Seats!Sits(th, "booking", t)
      BY <1>a, <1>b, <2>1, <2>2, <3>1, <3>3, OneMoves
    <3>6. Seats!Take(th, t)
      BY <2>1, <2>2, <3>2, <3>4, <3>5, SeenOf DEF Seats!Take
    <3> QED BY <2>2, <3>6 DEF Seen, Seats!SeatingNext
  <2>4. CASE ~Matches(frame[th].table, FALSE)
    <3>1. tables' = tables /\ Ends(th)
      BY <2>1, <2>4, FinishTurn DEF FindAndUpdateTable
    <3>2. pc'[th] \notin Seated /\ pc[th] \notin Seated
      BY <2>1, <3>1 DEF Ends, Turn, Seated, Holding
    <3>3. Stays(th)
      BY <1>b, <2>1, <2>2, <3>2, SeatKept
    <3> QED BY <1>a, <1>b, <1>c, <2>1, <3>1, <3>3 DEF Ends
  <2> QED BY <2>3, <2>4
<1>2. CASE BookInsert(th)
  <2>1. /\ pc[th] = "insert" /\ InsertOrder(frame[th]) /\ session' = [session EXCEPT ![th] = used.orders]
        /\ UNCHANGED <<tables, failures>> /\ Ends(th)
    BY <1>2, FinishTurn DEF BookInsert
  <2>2. th \in Guests
    BY <1>0, <2>1 DEF Role, Working
  <2>3. PICK o \in OrderIds :
          /\ o = used.orders /\ orders'[o] = NewOrder(frame[th].table) /\ NewOrder(frame[th].table) \in Order
          /\ used'.tables = used.tables /\ \A q \in OrderIds \ {o} : orders'[q] = orders[q]
    BY <1>0, <2>1, OrderInserted
  <2>4. session'[th] = o /\ \A u \in Threads \ {th} : session'[u] = session[u]
    BY <2>1, <2>3 DEF HouseInv, Handlers
  <2>5. ASSUME NEW h \in Guests \ {th}, Unpaid(h) PROVE Unpaid(h)'
    <3>1. session[h] \in OrderIds /\ session[h] < o
      BY <2>3, <2>5 DEF Unpaid, HouseInv, Handlers, Threads, FloorInv, Sessions
    <3>2. session[h] # o
      BY <3>1 DEF OrderIds
    <3>3. orders'[session[h]] = orders[session[h]] /\ session'[h] = session[h]
      BY <2>3, <2>4, <3>1, <3>2 DEF Threads
    <3> QED BY <2>5, <3>3 DEF Unpaid
  <2>6. Unpaid(th)' /\ orders'[session'[th]].table = frame[th].table
    <3>1. orders'[o] # Absent
      BY <2>3, NoRecord
    <3>2. orders'[o].billed = FALSE /\ orders'[o].table = frame[th].table /\ o # NoOrder
      BY <2>3 DEF NewOrder, NoOrder, OrderIds
    <3> QED BY <2>4, <3>1, <3>2 DEF Unpaid
  <2>7. StageOf(th) = "booking" /\ SeatOf(th) = frame[th].table
    BY <2>1, ViewIs DEF Holding
  <2>8. StageOf(th)' = "dining" /\ SeatOf(th)' = frame[th].table
    <3>1. pc'[th] \notin Seated
      BY <2>1 DEF Ends, Turn, Seated, Holding
    <3> QED BY <2>6, <3>1, ViewIsNext
  <2>9. Seats!Sits(th, "dining", SeatOf(th))
    BY <1>a, <2>1, <2>2, <2>4, <2>5, <2>7, <2>8, OneMoves DEF Ends
  <2>10. Seats!Dine(th)
    BY <2>1, <2>2, <2>3, <2>7, <2>9, SeenOf, TablesStay DEF Seats!Dine
  <2> QED BY <2>2, <2>10 DEF Seen, Seats!SeatingNext
<1>3. CASE BookInsertFails(th)
  <2>1. pc[th] = "insert" /\ Turn(th, "rollback", frame[th]) /\ UNCHANGED <<db, session>>
    BY <1>3, GotoTurn DEF BookInsertFails, Points, Writing
  <2>2. Stays(th)
    BY <2>1, ViewIs, ViewIsNext DEF Turn, Holding, Stays
  <2> QED BY <1>a, <1>b, <1>c, <2>1, <2>2 DEF db
\* A table is given back by a guest who then has no order to pay.
<1>d. ASSUME NEW t \in TableIds, NEW cap \in Capacities \cup {0}, FindAndUpdateTable(t, TRUE, FALSE, cap),
             UNCHANGED <<orders, used, session, failures>>, Ends(th), th \in Guests, ~Unpaid(th), SeatOf(th) = t,
             StageOf(th) \in {"booking", "paid"}
      PROVE  Seen
  <2>1. pc'[th] \notin Seated /\ ~Unpaid(th)'
    BY <1>b, <1>d DEF Ends, Turn, Seated, Holding
  <2>2. StageOf(th)' = "out" /\ SeatOf(th)' = NoOrder
    BY <2>1, ViewIsNext
  <2>3. Seats!GoesOut(th)
    BY <1>a, <1>b, <1>d, <2>2, OneMoves DEF Seats!GoesOut, Ends
  <2>4. Seats!Vacated(t)
    BY <1>d, TableGivenBack
  <2>5. Seats!GiveUp(th) \/ Seats!Free(th)
    BY <1>d, <2>3, <2>4, SeenOf DEF Seats!GiveUp, Seats!Free
  <2> QED BY <1>d, <2>5 DEF Seen, Seats!SeatingNext
<1>4. CASE BookRollback(th)
  <2>1. /\ pc[th] = "rollback" /\ FindAndUpdateTable(frame[th].table, TRUE, FALSE, frame[th].capacity) /\ Ends(th)
        /\ UNCHANGED <<orders, used, session, failures>>
    BY <1>4, FinishTurn DEF BookRollback
  <2>2. th \in Guests /\ ~Unpaid(th)
    BY <1>0, <2>1 DEF Role, Working, Program, Holding, Unpaid
  <2>3. StageOf(th) = "booking" /\ SeatOf(th) = frame[th].table
    BY <2>1, ViewIs DEF Holding
  <2> QED BY <1>0, <1>d, <2>1, <2>2, <2>3
<1>5. CASE BillFree(th)
  <2>1. /\ pc[th] = "free" /\ FindAndUpdateTable(frame[th].copy.table, TRUE, FALSE, 0) /\ Ends(th)
        /\ UNCHANGED <<orders, used, session, failures>>
    BY <1>5, FinishTurn DEF BillFree
  <2>2. th \in Guests /\ ~Unpaid(th)
    BY <1>0, <2>1 DEF Role, Program, Carries, Copying, Working, Unpaid, Over
  <2>3. StageOf(th) = "paid" /\ SeatOf(th) = frame[th].copy.table
    BY <2>1, ViewIs
  <2> QED BY <1>0, <1>d, <2>1, <2>2, <2>3
<1>6. CASE OrderMenu(th)
  <2>1. /\ pc[th] = "read_menu" /\ UNCHANGED <<db, session>>
        /\ \E p, f : Turn(th, p, f) /\ p \notin Seated
    BY <1>6, OrderMenuForm DEF Ends, Seated, Holding
  <2>2. \A h : Unpaid(h)' <=> Unpaid(h)
    BY <1>b, <2>1 DEF db
  <2>3. pc'[th] \notin Seated /\ pc[th] \notin Seated
    BY <2>1 DEF Turn, Seated, Holding
  <2>4. th \in Guests => Stays(th)
    BY <2>1, <2>2, <2>3, SeatKept
  <2> QED BY <1>a, <1>c, <2>1, <2>2, <2>4 DEF db
<1>7. CASE OrderUpdate(th) \/ MarkUpdate(th)
  <2>1. /\ pc[th] \in {"add_item", "mark"} /\ UpdateOrder(frame[th]) /\ Ends(th)
        /\ UNCHANGED <<tables, used, session, failures>>
    BY <1>7, FinishTurn DEF OrderUpdate, MarkUpdate
  <2>2. \A h \in Guests : Unpaid(h) => Unpaid(h)'
    BY <1>0, <2>1, StaysUnpaid
  <2>3. pc'[th] \notin Seated /\ pc[th] \notin Seated
    BY <2>1 DEF Ends, Turn, Seated, Holding
  <2>4. th \in Guests => Stays(th)
    BY <2>1, <2>2, <2>3, SeatKept
  <2> QED BY <1>a, <1>c, <2>1, <2>2, <2>4 DEF Ends
<1>8. CASE BillUpdate(th)
  <2>1. /\ pc[th] = "bill" /\ UpdateOrder(frame[th]) /\ UNCHANGED <<tables, used, session, failures>>
        /\ IF orders[frame[th].order] = Absent THEN Finish(th) ELSE Goto(th, "free") /\ frame' = frame
    BY <1>8 DEF BillUpdate
  <2>2. /\ th \in Guests /\ frame[th].order = session[th] /\ session[th] # NoOrder
        /\ frame[th].order < used.orders
    BY <1>0, <2>1 DEF Role, Program, Carries, Copying, Working
  <2>3. ASSUME NEW h \in Guests \ {th}, Unpaid(h) PROVE Unpaid(h)'
    <3>1. session[h] \in OrderIds /\ session[h] # frame[th].order
      BY <2>2, <2>3 DEF Unpaid, HouseInv, Handlers, Threads, FloorInv, OwnOrder
    <3>2. orders'[session[h]] = orders[session[h]]
      BY <1>0, <2>1, <3>1, OrderWritten
    <3> QED BY <2>1, <2>3, <3>2 DEF Unpaid
  <2>4. StageOf(th) = "dining" /\ SeatOf(th) = frame[th].copy.table
    BY <2>1, ViewIs
  <2>5. CASE orders[frame[th].order] = Absent
    <3>1. Ends(th)
      BY <2>1, <2>5, FinishTurn
    <3>2. ~Unpaid(th)'
      BY <1>0, <2>1, <2>2, <2>5, OrderWritten DEF Unpaid
    <3>3. StageOf(th)' = "out" /\ SeatOf(th)' = NoOrder
      <4>1. pc'[th] \notin Seated
        BY <3>1 DEF Ends, Turn, Seated, Holding
      <4> QED BY <3>2, <4>1, ViewIsNext
    <3>4. failures > 0 \/ "delete_order" \in AdminCommands
      BY <1>0, <2>2, <2>5, UsedNat DEF GoneInv
    <3>5. Seats!GoesOut(th)
      BY <1>a, <2>1, <2>2, <2>3, <3>1, <3>3, OneMoves DEF Seats!GoesOut, Ends
    <3>6. Seats!Desert(th)
      BY <2>1, <2>2, <2>4, <3>4, <3>5, SeenOf, TablesStay DEF Seats!Desert
    <3> QED BY <2>2, <3>6 DEF Seen, Seats!SeatingNext
  <2>6. CASE orders[frame[th].order] # Absent
    <3>1. Turn(th, "free", frame[th])
      BY <2>1, <2>6, GotoTurn DEF Points, Writing
    <3>2. StageOf(th)' = "paid" /\ SeatOf(th)' = SeatOf(th)
      BY <2>4, <3>1, ViewIsNext DEF Turn
    <3>3. Seats!Sits(th, "paid", SeatOf(th))
      BY <1>a, <2>1, <2>2, <2>3, <3>1, <3>2, OneMoves
    <3>4. Seats!Pay(th)
      BY <2>1, <2>2, <2>4, <3>3, SeenOf, TablesStay DEF Seats!Pay
    <3> QED BY <2>2, <3>4 DEF Seen, Seats!SeatingNext
  <2> QED BY <2>5, <2>6
<1>9. CASE DeleteOrder(th)
  <2>1. /\ pc[th] = "delete_order" /\ RemoveOrder(frame[th]) /\ UNCHANGED <<tables, used, session, failures>> /\ Ends(th)
    BY <1>9, FinishTurn DEF DeleteOrder
  <2>2. th \notin Guests /\ "delete_order" \in AdminCommands
    BY <1>0, <2>1, RestaurantAssumption DEF Role, Holding, Working
  <2>3. \A q \in OrderIds \ {frame[th].order} : orders'[q] = orders[q]
    BY <1>0, <2>1, OrderRemoved
  <2>4. \A g \in Guests : pc'[g] = pc[g] /\ frame'[g] = frame[g] /\ session'[g] = session[g]
    BY <2>1, <2>2 DEF Ends, Turn, Threads
  <2> QED BY <1>0, <2>1, <2>2, <2>3, <2>4, OrderCloses
<1> QED BY <1>1, <1>2, <1>3, <1>4, <1>5, <1>6, <1>7, <1>8, <1>9 DEF Continue

\* A handler whose call fails goes on, or goes out without its table, unless its
\* order is still unpaid.
LEMMA FailsSeats ==
  ASSUME HouseInv, FloorInv, OrdersMove, ~reopened', NEW th \in Threads, CallFails(th)
  PROVE  Seats!Fail
<1>1. /\ failures' = failures + 1 /\ UNCHANGED <<tables, orders, used, session, reopened>>
      /\ (pc[th] = "insert" /\ Turn(th, "rollback", frame[th])) \/ Ends(th)
  BY FailureForm
<1>2. tableBar' = tableBar
  BY <1>1, TablesStay
<1>3. \A h : Unpaid(h)' <=> Unpaid(h)
  BY <1>1 DEF Unpaid
<1>4. \A h \in Guests \ {th} : Stays(h)
  <2>1. \A h \in Guests \ {th} : /\ pc'[h] = pc[h] /\ frame'[h] = frame[h] /\ session'[h] = session[h]
                                 /\ Unpaid(h) => Unpaid(h)'
    BY <1>1, <1>3 DEF Ends, Turn, Threads
  <2> QED BY <2>1, OthersStay
<1>5. CASE th \in Guests => Stays(th)
  BY <1>1, <1>2, <1>4, <1>5, NoneMoves DEF Seats!Fail
<1>6. CASE th \in Guests /\ StageOf(th) # "out" /\ StageOf(th)' = "out" /\ SeatOf(th)' = NoOrder
  <2>1. Seats!GoesOut(th)
    BY <1>4, <1>6, OneMoves DEF Seats!GoesOut
  <2> QED BY <1>1, <1>2, <1>6, <2>1, SeenOf DEF Seats!Fail
<1>7. ASSUME th \in Guests, ~Stays(th) PROVE StageOf(th) # "out" /\ StageOf(th)' = "out" /\ SeatOf(th)' = NoOrder
  <2>1. CASE pc[th] = "insert" /\ Turn(th, "rollback", frame[th])
    BY <1>7, <2>1, ViewIs, ViewIsNext DEF Turn, Holding, Stays
  <2>2. CASE Ends(th)
    <3>1. pc'[th] \notin Seated
      BY <2>2 DEF Ends, Turn, Seated, Holding
    <3>2. CASE pc[th] \notin Seated
      BY <1>1, <1>3, <1>7, <3>1, <3>2, SeatKept
    <3>3. CASE pc[th] \in Seated /\ ~Unpaid(th)
      <4>1. StageOf(th) # "out"
        BY <3>3, ViewIs DEF Seated
      <4> QED BY <1>3, <3>1, <3>3, <4>1, ViewIsNext
    <3>4. CASE pc[th] \in Seated /\ Unpaid(th)
      <4>1. /\ frame[th] \in Frame /\ Carries(pc[th], frame[th]) /\ Program(pc[th], frame[th], session[th])
            /\ session[th] # NoOrder /\ orders[session[th]] # Absent /\ ~orders[session[th]].billed /\ ~reopened
        BY <1>7, <3>4 DEF FloorInv, HouseInv, Handlers, Unpaid, OrdersMove
      <4>2. pc[th] = "bill" /\ frame[th].copy.table = orders[session[th]].table
        BY <3>4, <4>1 DEF Carries, Program, Seated, Holding, Copying, Working, Over
      <4>3. StageOf(th)' = "dining" /\ SeatOf(th)' = orders[session[th]].table
        BY <1>1, <1>3, <3>1, <3>4, ViewIsNext
      <4> QED BY <1>7, <4>2, <4>3, ViewIs DEF Stays
    <3> QED BY <3>2, <3>3, <3>4
  <2> QED BY <1>1, <2>1, <2>2
<1> QED BY <1>5, <1>6, <1>7

\* A failed call takes effect: it takes a free table, frees one that nobody answers
\* for, closes an order, or shows nothing.
LEMMA LateSeats ==
  ASSUME HouseInv, FloorInv, OrdersMove, HoldInv, ~reopened', NEW n \in FailureIds, LateWrite(n)
  PROVE  Seen
<1> DEFINE f == late[n].frame
<1>0. /\ f \in Frame /\ f.table \in TableIds /\ f.capacity \in Capacities \cup {0} /\ f.copy.table \in TableIds
      /\ 0 \in Capacities \cup {0} /\ f.order \in OrderIds
      /\ UNCHANGED <<pc, frame, session, failures>> /\ ~reopened
  BY LateForm DEF Frame, Order, OrdersMove
<1>1. failures > 0 /\ late[n].call # "none" /\ Carries(late[n].call, f)
  <2>1. late[n].call # "none"
    BY DEF LateWrite
  <2>2. n <= failures /\ n \in Nat \ {0} /\ failures \in Nat /\ Carries(late[n].call, f)
    BY <2>1, UsedNat DEF FloorInv, LateInv, FailureIds
  <2> QED BY <2>1, <2>2
<1>2. ASSUME \A h \in Guests : Unpaid(h) => Unpaid(h)' PROVE stageBar' = stageBar /\ seatBar' = seatBar
  <2>1. \A h \in Guests : Stays(h)
    BY <1>0, <1>2, SeatKept
  <2> QED BY <2>1, NoneMoves
<1>3. ASSUME UNCHANGED orders PROVE stageBar' = stageBar /\ seatBar' = seatBar
  BY <1>0, <1>2, <1>3 DEF Unpaid
<1>4. CASE FindAndUpdateTable(f.table, FALSE, TRUE, f.capacity) /\ UNCHANGED <<orders, used>>
  <2>1. PICK t \in TableIds : t = f.table
    BY <1>0
  <2>2. tableBar' = IF tableBar[t] = "free" THEN [tableBar EXCEPT ![t] = "taken"] ELSE tableBar
    BY <1>0, <1>4, <2>1, TableWrite, TableSeen
  <2>3. CASE tableBar[t] = "free"
    <3>1. Seats!TakeLate(t)
      BY <1>0, <1>1, <1>3, <1>4, <2>2, <2>3 DEF Seats!TakeLate
    <3> QED BY <3>1 DEF Seen, Seats!SeatingNext
  <2>4. CASE tableBar[t] # "free"
    BY <1>0, <1>3, <1>4, <2>2, <2>4 DEF Seen
  <2> QED BY <2>3, <2>4
<1>5. ASSUME NEW t \in TableIds, NEW cap \in Capacities \cup {0}, FindAndUpdateTable(t, TRUE, FALSE, cap),
             Releases(n, t), UNCHANGED <<orders, used>>
      PROVE  Seen
  <2>1. ASSUME NEW g \in Guests PROVE seatBar[g] # t
    <3>1. SUFFICES ASSUME SeatOf(g) = t PROVE FALSE
      BY SeenOf
    <3>2. AnswersFor(g, t)
      <4>1. t # NoOrder
        BY DEF TableIds, NoOrder
      <4> QED BY <3>1, <4>1 DEF AnswersFor, SeatOf
    <3>3. Holds(<<"guest", g>>, t) /\ Holds(<<"late", n>>, t)
          /\ <<"guest", g>> \in Holders /\ <<"late", n>> \in Holders
      BY <1>5, <3>2 DEF Holds, Holders
    <3>4. <<"guest", g>> = <<"late", n>>
      BY <1>0, <3>3 DEF HoldInv
    <3> QED BY <3>4
  <2>2. Seats!Vacated(t)
    BY <1>5, TableGivenBack
  <2>3. Seats!FreeLate(t)
    BY <1>0, <1>1, <1>3, <1>5, <2>1, <2>2 DEF Seats!FreeLate
  <2> QED BY <2>3 DEF Seen, Seats!SeatingNext
<1>6. CASE late[n].call = "rollback" /\ FindAndUpdateTable(f.table, TRUE, FALSE, f.capacity) /\ UNCHANGED <<orders, used>>
  BY <1>0, <1>5, <1>6 DEF Releases
<1>7. CASE late[n].call = "free" /\ FindAndUpdateTable(f.copy.table, TRUE, FALSE, 0) /\ UNCHANGED <<orders, used>>
  BY <1>0, <1>5, <1>7 DEF Releases
<1>8. CASE InsertOrder(f) /\ UNCHANGED tables
  <2>1. /\ used.orders \in OrderIds /\ used'.tables = used.tables
        /\ \A o \in OrderIds \ {used.orders} : orders'[o] = orders[o]
    BY <1>0, <1>8, OrderInserted
  <2>2. ASSUME NEW h \in Guests, Unpaid(h) PROVE Unpaid(h)'
    <3>1. session[h] \in OrderIds /\ session[h] < used.orders
      BY <2>2 DEF Unpaid, HouseInv, Handlers, Threads, FloorInv, Sessions
    <3>2. session[h] # used.orders
      BY <3>1 DEF OrderIds
    <3> QED BY <1>0, <2>1, <2>2, <3>1, <3>2 DEF Unpaid
  <2> QED BY <1>0, <1>2, <1>8, <2>1, <2>2, TablesStay DEF Seen
<1>9. CASE late[n].call \in {"add_item", "mark"} /\ UpdateOrder(f) /\ UNCHANGED <<tables, used>>
  <2>1. \A h \in Guests : Unpaid(h) => Unpaid(h)'
    BY <1>0, <1>1, <1>9, StaysUnpaid
  <2> QED BY <1>0, <1>2, <1>9, <2>1, TablesStay DEF Seen
<1>10. CASE (UpdateOrder(f) \/ RemoveOrder(f)) /\ UNCHANGED <<tables, used>>
  <2>1. \A q \in OrderIds \ {f.order} : orders'[q] = orders[q]
    BY <1>0, <1>10, OrderWritten, OrderRemoved
  <2> QED BY <1>0, <1>1, <1>10, <2>1, OrderCloses
<1> QED BY <1>4, <1>6, <1>7, <1>8, <1>9, <1>10 DEF LateWrite

-----------------------------------------------------------------------------
\* While no call fails, orders are gone only where admins delete them, and a guest
\* that has left has no unpaid order.
LEMMA GoneThread ==
  ASSUME HouseInv, FloorInv, OrdersMove, GoneInv, failures = 0, NEW th \in Threads,
         \A u \in Threads \ {th} : pc'[u] = pc[u] /\ session'[u] = session[u] /\ leaving'[u] = leaving[u],
         "delete_order" \in AdminCommands \/ \A o \in OrderIds : o < used'.orders => orders'[o] # Absent,
         ~reopened' /\ th \in Guests => /\ leaving'[th] => pc'[th] \in {"bill", "free", "closed"}
                                        /\ pc'[th] = "closed" => ~Unpaid(th)'
  PROVE  GoneInv'
<1>1. ASSUME ~reopened', NEW g \in Guests, g # th
      PROVE  /\ leaving'[g] => pc'[g] \in {"bill", "free", "closed"}
             /\ pc'[g] = "closed" => ~Unpaid(g)'
  <2>1. /\ leaving[g] => pc[g] \in {"bill", "free", "closed"}
        /\ pc[g] = "closed" => ~Unpaid(g)
    BY <1>1 DEF GoneInv, OrdersMove
  <2>2. pc'[g] = pc[g] /\ session'[g] = session[g] /\ leaving'[g] = leaving[g]
    BY <1>1 DEF Threads
  <2>3. Unpaid(g)' => Unpaid(g)
    BY <1>1, <2>2, UnpaidBefore
  <2> QED BY <2>1, <2>2, <2>3
<1> QED BY <1>1 DEF GoneInv

LEMMA AsksGone ==
  ASSUME HouseInv, FloorInv, OrdersMove, GoneInv, failures = 0, NEW g \in Guests, GuestAsks(g)
  PROVE  GoneInv'
<1>0. g \in Threads /\ (~reopened' => ~reopened)
  BY DEF Threads, OrdersMove
<1>1. ASSUME UNCHANGED <<orders, used>>,
             \A u \in Threads \ {g} : pc'[u] = pc[u] /\ session'[u] = session[u] /\ leaving'[u] = leaving[u],
             ~reopened' => /\ leaving'[g] => pc'[g] \in {"bill", "free", "closed"}
                           /\ pc'[g] = "closed" => ~Unpaid(g)'
      PROVE  GoneInv'
  BY <1>0, <1>1, GoneThread DEF GoneInv
<1>2. ASSUME NEW p, p # "closed", NEW f, Turn(g, p, f), pc[g] = "idle", UNCHANGED <<db, session, leaving>> PROVE GoneInv'
  BY <1>0, <1>1, <1>2 DEF Turn, db, GoneInv
<1>3. ASSUME NEW t \in TableIds, BookRead(g, t) PROVE GoneInv'
  BY <1>0, <1>2, <1>3, BookReadForm
<1>4. ASSUME NEW i \in ItemIds, NEW q \in Quantities, OrderRead(g, i, q) PROVE GoneInv'
  BY <1>0, <1>2, <1>4, OrderReadForm
<1>5. CASE BillRead(g)
  <2>1. /\ UNCHANGED <<db, session>> /\ \A u \in Threads \ {g} : leaving'[u] = leaving[u]
        /\ \/ (orders[session[g]] = Absent \/ orders[session[g]].billed) /\ Ends(g)
           \/ \E f \in Frame : Turn(g, "bill", f)
    BY <1>0, <1>5, BillReadForm
  <2>2. CASE (orders[session[g]] = Absent \/ orders[session[g]].billed) /\ Ends(g)
    <3>1. ~Unpaid(g)'
      BY <2>1, <2>2 DEF Unpaid, db
    <3> QED BY <1>1, <2>1, <2>2, <3>1 DEF Ends, Turn, db
  <2>3. ASSUME NEW f \in Frame, Turn(g, "bill", f) PROVE GoneInv'
    BY <1>1, <2>1, <2>3 DEF Turn, db
  <2> QED BY <2>1, <2>2, <2>3
<1>6. CASE Leave(g)
  <2>1. Turn(g, "closed", frame[g]) /\ session[g] = NoOrder /\ UNCHANGED <<db, session, leaving>>
    BY <1>0, <1>6, GotoTurn DEF Leave, Points
  <2>2. ~Unpaid(g)'
    BY <2>1 DEF Unpaid
  <2> QED BY <1>1, <2>1, <2>2 DEF Turn, db
<1>7. CASE Connect(g)
  <2>1. /\ Turn(g, "idle", frame[g]) /\ UNCHANGED db
        /\ session' = [session EXCEPT ![g] = NoOrder] /\ leaving' = [leaving EXCEPT ![g] = FALSE]
    BY <1>0, <1>7, GotoTurn DEF Connect, Points
  <2>2. ~leaving'[g] /\ \A u \in Threads \ {g} : session'[u] = session[u] /\ leaving'[u] = leaving[u]
    BY <1>0, <2>1 DEF HouseInv, Handlers
  <2> QED BY <1>1, <2>1, <2>2 DEF Turn, db
<1> QED BY <1>3, <1>4, <1>5, <1>6, <1>7 DEF GuestAsks

LEMMA OthersAskGone ==
  ASSUME HouseInv, FloorInv, OrdersMove, GoneInv, failures = 0,
         (\E c \in Chefs : ChefAsks(c)) \/ (\E a \in Admins : AdminAsks(a))
  PROVE  GoneInv'
<1>1. ASSUME NEW th \in Threads, th \notin Guests, orders' = orders, used'.orders = used.orders, UNCHANGED <<session, leaving>>,
             \A u \in Threads \ {th} : pc'[u] = pc[u]
      PROVE  GoneInv'
  BY <1>1, GoneThread DEF GoneInv
<1>2. ASSUME NEW c \in Chefs, NEW o \in OrderIds, NEW k, MarkRead(c, o, k) PROVE GoneInv'
  <2>1. c \in Threads /\ c \notin Guests
    BY RestaurantAssumption DEF Threads
  <2> QED BY <1>1, <1>2, <2>1, MarkReadForm DEF Turn, db
<1>3. ASSUME NEW a \in Admins, AdminAsks(a) PROVE GoneInv'
  <2>1. a \in Threads /\ a \notin Guests
    BY RestaurantAssumption DEF Threads
  <2>2. ASSUME NEW o \in OrderIds, DeleteOrderRead(a, o) PROVE GoneInv'
    BY <1>1, <2>1, <2>2, DeleteReadForm DEF Turn, db
  <2>3. ASSUME UNCHANGED <<orders, session, leaving, pc>>, used'.orders = used.orders PROVE GoneInv'
    BY <1>1, <2>1, <2>3
  <2>4. used \in Limits
    BY DEF HouseInv, Files
  <2>5. ASSUME NEW n \in Capacities, AddTable(a, n) PROVE GoneInv'
    BY <2>3, <2>4, <2>5 DEF AddTable, Limits
  <2>6. ASSUME NEW q \in Prices, AddMenu(a, q) PROVE GoneInv'
    BY <2>3, <2>4, <2>6 DEF AddMenu, Limits
  <2>7. ASSUME NEW t \in TableIds, DeleteTable(a, t) PROVE GoneInv'
    BY <2>3, <2>7 DEF DeleteTable
  <2>8. ASSUME NEW i \in ItemIds, DeleteMenu(a, i) PROVE GoneInv'
    BY <2>3, <2>8 DEF DeleteMenu
  <2> QED BY <1>3, <2>2, <2>5, <2>6, <2>7, <2>8 DEF AdminAsks
<1> QED BY <1>2, <1>3 DEF ChefAsks

LEMMA GoesOnGone ==
  ASSUME HouseInv, FloorInv, OrdersMove, GoneInv, failures = 0, NEW th \in Threads, Continue(th)
  PROVE  GoneInv'
<1>0. /\ frame[th] \in Frame /\ frame[th].order \in OrderIds /\ Role(th, pc[th]) /\ Carries(pc[th], frame[th])
      /\ th \in Guests => /\ Program(pc[th], frame[th], session[th])
                          /\ ~reopened /\ leaving[th] => pc[th] \in {"bill", "free", "closed"}
      /\ ~reopened' => ~reopened
  BY DEF HouseInv, Handlers, Frame, FloorInv, GoneInv, OrdersMove
<1>1. "delete_order" \in AdminCommands \/ \A o \in OrderIds : o < used.orders => orders[o] # Absent
  BY DEF GoneInv
\* The orders stay; a request that ends returns its handler to recv, or closes it
\* when the guest has left and has nothing to pay.
<1>2. ASSUME UNCHANGED leaving, \A u \in Threads \ {th} : session'[u] = session[u],
             "delete_order" \in AdminCommands \/ \A o \in OrderIds : o < used'.orders => orders'[o] # Absent,
             Ends(th) \/ \E p \in Points \ {"closed", "idle"} : Turn(th, p, frame[th]),
             ~reopened /\ th \in Guests /\ leaving[th] =>
               \/ Turn(th, "free", frame[th])
               \/ Ends(th) /\ ~Unpaid(th)',
             Finish(th) \/ ~Ends(th)
      PROVE  GoneInv'
  <2>1. \A u \in Threads \ {th} : pc'[u] = pc[u] /\ session'[u] = session[u] /\ leaving'[u] = leaving[u]
    BY <1>2 DEF Ends, Turn
  <2>2. ASSUME ~reopened', th \in Guests
        PROVE  /\ leaving'[th] => pc'[th] \in {"bill", "free", "closed"}
               /\ pc'[th] = "closed" => ~Unpaid(th)'
    <3>1. CASE leaving[th]
      BY <1>0, <1>2, <2>2, <3>1 DEF Ends, Turn
    <3>2. CASE ~leaving[th]
      <4>1. Finish(th) => pc'[th] = "idle"
        BY <1>2, <3>2 DEF Finish, Goto, HouseInv, Handlers
      <4> QED BY <1>2, <3>2, <4>1 DEF Ends, Turn
    <3> QED BY <3>1, <3>2
  <2> QED BY <1>2, <2>1, <2>2, GoneThread
<1>3. ASSUME Finish(th) PROVE Ends(th)
  BY <1>3, FinishTurn
<1>4. CASE BookClaim(th) \/ BookRollback(th)
  <2>1. /\ pc[th] \in {"claim", "rollback"} /\ UNCHANGED <<orders, used, session, leaving>>
        /\ Finish(th) \/ Turn(th, "insert", frame[th])
    BY <1>4, GotoTurn DEF BookClaim, BookRollback, Points, Writing
  <2>2. th \in Guests => ~(leaving[th] /\ ~reopened)
    BY <1>0, <2>1
  <2>3. Turn(th, "insert", frame[th]) => ~Ends(th)
    BY DEF Turn, Ends
  <2> QED BY <1>1, <1>2, <1>3, <2>1, <2>2, <2>3 DEF Points, Writing
<1>5. CASE BookInsert(th)
  <2>1. /\ pc[th] = "insert" /\ InsertOrder(frame[th]) /\ session' = [session EXCEPT ![th] = used.orders]
        /\ UNCHANGED leaving /\ Finish(th)
    BY <1>5 DEF BookInsert
  <2>2. /\ \A o \in OrderIds \ {used.orders} : orders'[o] = orders[o]
        /\ used.orders \in OrderIds /\ used'.orders = used.orders + 1
        /\ orders'[used.orders] \in Order
    BY <1>0, <2>1, OrderInserted
  <2>3. ASSUME NEW o \in OrderIds, o < used'.orders, "delete_order" \notin AdminCommands PROVE orders'[o] # Absent
    <3>1. CASE o = used.orders
      BY <2>2, <3>1, NoRecord
    <3>2. CASE o # used.orders
      BY <1>1, <2>2, <2>3, <3>2 DEF OrderIds
    <3> QED BY <3>1, <3>2
  <2>4. \A u \in Threads \ {th} : session'[u] = session[u]
    BY <2>1 DEF HouseInv, Handlers
  <2> QED BY <1>0, <1>2, <1>3, <2>1, <2>3, <2>4
<1>6. CASE BookInsertFails(th)
  <2>1. Turn(th, "rollback", frame[th]) /\ pc[th] = "insert" /\ UNCHANGED <<orders, used, session, leaving>>
    BY <1>6, GotoTurn DEF BookInsertFails, Points, Writing, db
  <2>2. ~Ends(th)
    BY <2>1 DEF Turn, Ends
  <2> QED BY <1>0, <1>1, <1>2, <2>1, <2>2 DEF Points, Writing
<1>7. CASE OrderMenu(th)
  <2>1. /\ pc[th] = "read_menu" /\ UNCHANGED <<db, session, leaving>>
        /\ \E p, f : Turn(th, p, f)
    BY <1>7, OrderMenuForm DEF Ends
  <2>2. pc'[th] # "closed" \/ leaving[th]
    BY <1>7, <2>1 DEF OrderMenu, Finish, Goto, HouseInv, Handlers
  <2> QED BY <1>0, <1>1, <2>1, <2>2, GoneThread DEF Turn, db
<1>8. CASE OrderUpdate(th) \/ MarkUpdate(th) \/ BillUpdate(th)
  <2>1. /\ pc[th] \in {"add_item", "mark", "bill"} /\ UpdateOrder(frame[th]) /\ UNCHANGED <<used, session, leaving>>
        /\ \/ Finish(th) /\ (pc[th] = "bill" => orders[frame[th].order] = Absent)
           \/ pc[th] = "bill" /\ Turn(th, "free", frame[th])
    BY <1>8, GotoTurn DEF OrderUpdate, MarkUpdate, BillUpdate, Points, Writing
  <2>2. \A o \in OrderIds : orders[o] # Absent => orders'[o] # Absent
    BY <1>0, <2>1, OrderWritten
  <2>3. Turn(th, "free", frame[th]) => ~Ends(th)
    BY DEF Turn, Ends
  <2>4. th \in Guests /\ pc[th] = "bill" /\ orders[frame[th].order] = Absent => ~Unpaid(th)'
    BY <1>0, <2>1, OrderWritten DEF Program, Working, Unpaid
  <2> QED BY <1>0, <1>1, <1>2, <1>3, <2>1, <2>2, <2>3, <2>4 DEF Points, Writing
<1>9. CASE BillFree(th)
  <2>1. pc[th] = "free" /\ UNCHANGED <<orders, used, session, leaving>> /\ Finish(th)
    BY <1>9 DEF BillFree
  <2>2. ~reopened /\ th \in Guests => ~Unpaid(th)'
    BY <1>0, <2>1 DEF Program, Carries, Copying, Working, Unpaid, Over
  <2> QED BY <1>1, <1>2, <1>3, <2>1, <2>2
<1>10. CASE DeleteOrder(th)
  <2>1. pc[th] = "delete_order" /\ UNCHANGED <<session, leaving>> /\ Finish(th)
    BY <1>10 DEF DeleteOrder
  <2>2. th \notin Guests /\ "delete_order" \in AdminCommands
    BY <1>0, <2>1, RestaurantAssumption DEF Role, Holding, Working
  <2> QED BY <1>2, <1>3, <2>1, <2>2
<1> QED BY <1>4, <1>5, <1>6, <1>7, <1>8, <1>9, <1>10 DEF Continue

LEMMA GoneNext == HouseInv /\ FloorInv /\ OrdersMove /\ GoneInv /\ [Next]_vars => GoneInv'
<1> SUFFICES ASSUME HouseInv, FloorInv, OrdersMove, GoneInv, [Next]_vars, failures' = 0 PROVE GoneInv'
  BY DEF GoneInv
<1>1. CASE UNCHANGED vars
  BY <1>1 DEF vars, GoneInv, Unpaid
<1>2. CASE Next
  BY <1>2, NoFailure, AsksGone, OthersAskGone, GoesOnGone DEF Next
<1> QED BY <1>1, <1>2

LEMMA GoneInit == Init => GoneInv
BY DEF Init, GoneInv, OrderIds, Threads

\* The handlers implement the seating, whatever guests, chefs and admins do,
\* whichever calls fail and whenever these take effect, until a bill is overwritten:
\* a table is one guest's from its claim to its release, who pays before it gives it
\* back and gives back no other's; and only a call that has failed, or an admin who
\* deletes orders, leaves a table taken by nobody.
THEOREM HandlersImplementSeating == Spec => ImplementsSeating
<1>1. ASSUME Init PROVE Seats!SeatingInit
  <2>1. /\ used.tables = Len(FirstTables) /\ failures = 0 /\ Len(FirstTables) \in Nat
        /\ tables = [t \in TableIds |-> IF t < Len(FirstTables)
                       THEN [capacity |-> FirstTables[t + 1], occupied |-> FALSE] ELSE Absent]
        /\ pc = [th \in Threads |-> "idle"] /\ session = [th \in Threads |-> NoOrder]
    BY <1>1, RestaurantAssumption DEF Init
  <2>2. ASSUME NEW t \in TableIds PROVE TableState(t) \in {"new", "free"}
    <3>1. t >= used.tables \/ t < Len(FirstTables)
      BY <2>1 DEF TableIds
    <3>2. CASE t < Len(FirstTables)
      <4> DEFINE rec == [capacity |-> FirstTables[t + 1], occupied |-> FALSE]
      <4>1. t + 1 \in 1 .. Len(FirstTables)
        BY <2>1, <3>2 DEF TableIds
      <4>2. rec \in Table /\ rec.occupied = FALSE
        BY <4>1, RestaurantAssumption DEF Table
      <4>3. tables[t] = rec
        BY <2>1, <3>2
      <4> QED BY <4>2, <4>3, NoRecord DEF TableState
    <3> QED BY <3>1, <3>2 DEF TableState
  <2>3. \A g \in Guests : StageOf(g) = "out" /\ SeatOf(g) = NoOrder
    <3>1. \A g \in Guests : pc[g] = "idle" /\ ~Unpaid(g)
      BY <2>1 DEF Unpaid, Threads
    <3> QED BY <3>1, ViewIs DEF Holding, Seated
  <2>4. tableBar \in [TableIds -> {"new", "free"}]
    BY <2>2 DEF tableBar
  <2>5. stageBar = [g \in Guests |-> "out"] /\ seatBar = [g \in Guests |-> NoOrder]
    BY <2>3 DEF stageBar, seatBar
  <2> QED BY <2>1, <2>4, <2>5 DEF Seats!SeatingInit
<1>2. ASSUME HouseInv, HouseInv', FloorInv, HoldInv, GoneInv, [Next]_vars
      PROVE  [reopened' \/ Seats!SeatingNext]_<<tableBar, stageBar, seatBar, failures>>
  <2> SUFFICES ASSUME ~reopened' PROVE Seen
    BY DEF Seen
  <2>1. OrdersMove
    BY <1>2, FloorNext
  <2>2. CASE UNCHANGED vars
    <3>1. UNCHANGED <<tables, orders, used, pc, session, frame, failures>>
      BY <2>2 DEF vars
    <3>2. \A g \in Guests : Stays(g)
      BY <3>1 DEF Stays, StageOf, SeatOf, Unpaid
    <3> QED BY <3>1, <3>2, TablesStay, NoneMoves DEF Seen
  <2>3. ASSUME NEW th \in Threads, CallFails(th) PROVE Seen
    BY <1>2, <2>1, <2>3, FailsSeats DEF Seen, Seats!SeatingNext
  <2>4. CASE Next
    BY <1>2, <2>1, <2>3, <2>4, GuestAsksSeats, OthersAskSeats, GoesOnSeats, LateSeats DEF Next
  <2> QED BY <1>2, <2>2, <2>4
<1>3. HouseInv /\ FloorInv /\ HoldInv /\ GoneInv /\ [Next]_vars => FloorInv' /\ HoldInv' /\ GoneInv'
  BY HouseNext, FloorNext, HoldStep, GoneNext
<1> QED BY HouseInit, HouseNext, FloorInit, HoldInit, GoneInit, <1>1, <1>2, <1>3, PTL DEF Spec, ImplementsSeating
=============================================================================
