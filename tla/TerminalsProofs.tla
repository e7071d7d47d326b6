-------------------------- MODULE TerminalsProofs --------------------------
(* Machine-checked properties of the sessions, for any number of terminals  *)
(* and of messages on their way.                                            *)
EXTENDS Terminals, FiniteSetTheorems, SequenceTheorems, TLAPS

(***************************************************************************)
(* The bridge's count.                                                     *)
(***************************************************************************)
OpenTabs == {t \in Terminals : tab[t] = "open"}
CountInv ==
  /\ tab \in [Terminals -> {"open", "closed"}]
  /\ breaks \in 0 .. MaxBreaks /\ active = Cardinality(OpenTabs) - breaks /\ active <= MaxClients

\* One more member, or one fewer, counts as one.
LEMMA CountUp ==
  ASSUME NEW S, NEW T, NEW t, IsFiniteSet(S), t \notin S, T = S \cup {t}
  PROVE  Cardinality(S) \in Int /\ Cardinality(T) = Cardinality(S) + 1
BY FS_AddElement, FS_CardinalityType
LEMMA CountDown ==
  ASSUME NEW S, NEW T, NEW t, IsFiniteSet(S), t \in S, T = S \ {t}
  PROVE  Cardinality(S) \in Int /\ Cardinality(T) = Cardinality(S) - 1
BY FS_RemoveElement, FS_CardinalityType

LEMMA CountInvNext == CountInv /\ [Next]_vars => CountInv'
<1> SUFFICES ASSUME CountInv, [Next]_vars PROVE CountInv'
  OBVIOUS
<1>1. ASSUME UNCHANGED <<tab, active, breaks>> PROVE CountInv'
  BY <1>1 DEF CountInv, OpenTabs
<1>a. IsFiniteSet(OpenTabs)
  BY TerminalsAssumption, FS_Subset DEF OpenTabs
<1>2. ASSUME NEW t \in Terminals, OpenTab(t) PROVE CountInv'
  <2>1. /\ tab' = [tab EXCEPT ![t] = "open"] /\ tab[t] # "open"
        /\ active' = active + 1 /\ ~(active >= MaxClients) /\ breaks' = breaks
    BY <1>2 DEF OpenTab, Busy
  <2>2. tab' \in [Terminals -> {"open", "closed"}]
    BY <1>2, <2>1 DEF CountInv
  <2>3. OpenTabs' = OpenTabs \cup {t} /\ t \notin OpenTabs
    BY <1>2, <2>1 DEF OpenTabs, CountInv
  <2>4. Cardinality(OpenTabs) \in Int /\ Cardinality(OpenTabs') = Cardinality(OpenTabs) + 1
    BY <1>a, <2>3, CountUp
  <2>5. active' = Cardinality(OpenTabs') - breaks' /\ active' <= MaxClients /\ breaks' \in 0 .. MaxBreaks
    BY <2>1, <2>4, TerminalsAssumption DEF CountInv
  <2> QED BY <2>2, <2>5 DEF CountInv
<1>3. ASSUME NEW t \in Terminals, CloseTab(t) \/ BreakTab(t) \/ ClientEnded(t) PROVE CountInv'
  <2>1. /\ tab' = [tab EXCEPT ![t] = "closed"] /\ tab[t] # "closed"
        /\ \/ active' = active - 1 /\ breaks' = breaks
           \/ active' = active - 2 /\ breaks' = breaks + 1 /\ breaks < MaxBreaks
    BY <1>3 DEF CloseTab, BreakTab, ClientEnded
  <2>2. tab' \in [Terminals -> {"open", "closed"}]
    BY <1>3, <2>1 DEF CountInv
  <2>3. OpenTabs' = OpenTabs \ {t} /\ t \in OpenTabs
    BY <1>3, <2>1 DEF OpenTabs, CountInv
  <2>4. Cardinality(OpenTabs) \in Int /\ Cardinality(OpenTabs') = Cardinality(OpenTabs) - 1
    BY <1>a, <2>3, CountDown
  <2>5. active' = Cardinality(OpenTabs') - breaks' /\ active' <= MaxClients /\ breaks' \in 0 .. MaxBreaks
    BY <2>1, <2>4, TerminalsAssumption DEF CountInv
  <2> QED BY <2>2, <2>5 DEF CountInv
<1>4. ASSUME NEW t \in Terminals,
             \/ Choose(t) \/ ChefCommands(t) \/ Interrupt(t) \/ Client(t) \/ Thread(t) \/ HangUp(t)
             \/ Stray(t)
      PROVE  UNCHANGED <<tab, active, breaks>>
  BY <1>4 DEF Choose, ChefCommands, Interrupt, Client, TakeReply, TakeUpdate, TakeEnd, Thread, Serve,
     EndOfInput, LastClose, HangUp, Stray, bridge
<1>5. OthersUpdate \/ Die \/ UNCHANGED vars => UNCHANGED <<tab, active, breaks>>
  BY DEF OthersUpdate, Die, bridge, vars
<1> QED BY <1>1, <1>2, <1>3, <1>4, <1>5 DEF Next, User, Bridge

LEMMA CountInvInit == Init => CountInv
<1> SUFFICES ASSUME Init PROVE CountInv
  OBVIOUS
<1>1. OpenTabs = {}
  BY DEF Init, OpenTabs
<1>2. Cardinality(OpenTabs) = 0
  BY <1>1, FS_EmptySet
<1>3. tab \in [Terminals -> {"open", "closed"}] /\ active = 0 /\ breaks = 0
  BY DEF Init
<1> QED BY <1>2, <1>3, TerminalsAssumption DEF CountInv

\* server.js never turns a tab away while fewer than MAX_CLIENTS are open, however
\* tabs end.
THEOREM NobodyTurnedAway == Spec => []NoFalseBusy
<1>1. CountInv => NoFalseBusy
  <2>1. IsFiniteSet(OpenTabs)
    BY TerminalsAssumption, FS_Subset DEF OpenTabs
  <2>2. Cardinality(OpenTabs) \in Nat
    BY <2>1, FS_CardinalityType
  <2>3. CountInv => active <= Cardinality(OpenTabs)
    BY <2>2, TerminalsAssumption DEF CountInv
  <2> QED BY <2>3 DEF NoFalseBusy, OpenTabs
<1> QED BY <1>1, CountInvInit, CountInvNext, PTL DEF Spec

(***************************************************************************)
(* Requests and answers.  An invariant of one terminal, said of values: th *)
(* is its thread, p the page, ss the session, sh the order shown, rq and   *)
(* rp what is on its way to the server and back.                           *)
(***************************************************************************)
LoginPages == {"guest_auth", "admin_auth", "chef_auth"}
Lobby == {"landing", "admin_login", "chef_login"} \cup LoginPages
BeforeTable == {"details", "tables", "tables_shown", "tables_failed", "booking"}
PageNames == Lobby \cup BeforeTable \cup AtTable \cup AdminPages
             \cup {"closed", "admin_dashboard", "chef_dashboard"}
Requests == AdminPages \cup {"AUTH_GUEST", "AUTH_ADMIN", "AUTH_CHEF", "BOOK_TABLE", "GET_ORDER", "ORDER_ITEM",
                             "GENERATE_BILL", "GET_DASHBOARD", "MARK_PREPARED"}
Statuses == {"OK", "ERROR", "NEW_UPDATE"}
Orders == 0 .. MaxOrders
ThreadStates == {"hello", "GUEST", "ADMIN", "CHEF", "closed", "ended"}
Answer == [to : Requests \cup {"none"}, status : Statuses, order : Orders]

\* Where the client can be while the server's thread is at th.
InPlace(th, p, ss, sh) ==
  \/ p = "closed"
  \/ th = "hello" /\ p \in Lobby
  \/ th = "GUEST" /\ p \in Lobby \cup BeforeTable /\ (p # "booking" => ss = 0)
  \/ th = "GUEST" /\ p \in AtTable /\ ss = sh /\ ss # 0
  \/ th = "ADMIN" /\ p \in AdminPages \cup {"admin_auth", "admin_dashboard"}
  \/ th = "CHEF"  /\ p \in {"chef_auth", "chef_dashboard"}
  \/ th = "ended"

\* A waiting page has asked, or its request is lost, or it is answered.
Asked(th, p, ss, rq, rp) ==
  /\ rq = <<Await(p).request>> /\ rp = <<>> /\ th \notin {"closed", "ended"}
  /\ p \in LoginPages => th \in {"hello", "GUEST"}
  /\ p = "booking" => ss = 0
Lost(th, rq, rp) == rq = <<>> /\ rp = <<>> /\ th \in {"ADMIN", "ended"}
AnswerFits(th, p, ss, rp) ==
  /\ \/ rp = <<Head(rp)>> \/ th = "CHEF"
     \/ th = "ended" /\ p = "chef_auth" /\ Head(rp).status = "OK"
  /\ th # "ended" =>
       IF Head(rp).status = "OK"
         THEN /\ p = "guest_auth" => th = "GUEST"
              /\ p = "admin_auth" => th = "ADMIN"
              /\ p = "chef_auth"  => th = "CHEF"
         ELSE p \in {"admin_auth", "chef_auth"} => th = "GUEST"
  /\ p = "booking" /\ th # "ended" =>
       IF Head(rp).status = "ERROR" THEN ss = 0 ELSE ss # 0 /\ Head(rp).order = ss
Answered(th, p, ss, rq, rp) ==
  rq = <<>> /\ rp # <<>> /\ Head(rp).to = Await(p).request /\ AnswerFits(th, p, ss, rp)
InTurn(th, p, ss, rq, rp) ==
  \/ p \in {"closed", "chef_dashboard"}
  \/ p \notin Waiting /\ rq = <<>> /\ rp = <<>>
  \/ p \in Waiting /\ (Asked(th, p, ss, rq, rp) \/ Lost(th, rq, rp) \/ Answered(th, p, ss, rq, rp))

Fits(th, p, ss, sh, rq, rp) ==
  /\ InPlace(th, p, ss, sh) /\ InTurn(th, p, ss, rq, rp)
  /\ ss # 0 => th = "GUEST"
\* A descriptor is listed while a chef's thread has it, and after.
ListedInPlace(t) == t \in listed => thread[t] \in {"CHEF", "ended"}
Good(t) ==
  /\ ListedInPlace(t)
  /\ Fits(thread[t], page[t], session[t], shown[t], requests[t], replies[t])

WireTypes ==
  /\ page \in [Terminals -> PageNames]
  /\ thread \in [Terminals -> ThreadStates]
  /\ shown \in [Terminals -> Orders] /\ session \in [Terminals -> Orders] /\ orders \in Orders
  /\ requests \in [Terminals -> Seq(Requests)] /\ replies \in [Terminals -> Seq(Answer)]
  /\ alive \in BOOLEAN
SessionInv == WireTypes /\ \A t \in Terminals \ recycled : Good(t)

LEMMA NoOrder == 0 \in Orders /\ Orders \subseteq Nat
BY TerminalsAssumption DEF Orders

\* The tables of the pages, read out.
GuestWaits == {"guest_auth", "tables", "booking", "dashboard", "menu", "ordering", "view", "bill", "receipt"}
LEMMA WaitingPages ==
  /\ DOMAIN GuestAwaits = GuestWaits
  /\ DOMAIN StaffAwaits = {"admin_auth", "chef_auth"}
  /\ Waiting = GuestWaits \cup {"admin_auth", "chef_auth"} \cup AdminPages
BY DEF GuestWaits, Waiting, GuestAwaits, StaffAwaits

\* A row of the tables: what page p asks, and where the answer leads.
Row(p, request, ok, error) ==
  \/ p = "guest_auth" /\ request = "AUTH_GUEST" /\ ok = "details" /\ error = "closed"
  \/ p = "tables" /\ request = "GET_TABLES" /\ ok = "tables_shown" /\ error = "tables_failed"
  \/ p = "booking" /\ request = "BOOK_TABLE" /\ ok = "booked" /\ error = "tables_failed"
  \/ p = "dashboard" /\ request = "GET_ORDER" /\ ok = "dashboard_shown" /\ error = "dashboard_failed"
  \/ p = "menu" /\ request = "GET_MENU" /\ ok = "menu_shown" /\ error = "menu_failed"
  \/ p = "ordering" /\ request = "ORDER_ITEM" /\ ok = "ordered" /\ error = "ordered"
  \/ p = "view" /\ request = "GET_ORDER" /\ ok = "view_shown" /\ error = "view_shown"
  \/ p = "bill" /\ request = "GENERATE_BILL" /\ ok = "receipt" /\ error = "view_shown"
  \/ p = "receipt" /\ request = "GET_ORDER" /\ ok = "receipt_shown" /\ error = "receipt_shown"
  \/ p = "admin_auth" /\ request = "AUTH_ADMIN" /\ ok = "admin_dashboard" /\ error = "admin_login"
  \/ p = "chef_auth" /\ request = "AUTH_CHEF" /\ ok = "chef_dashboard" /\ error = "chef_login"
  \/ p \in AdminPages /\ request = p /\ ok = "admin_dashboard" /\ error = "admin_dashboard"
LEMMA AwaitRow == ASSUME NEW p \in Waiting PROVE Row(p, Await(p).request, Await(p).ok, Await(p).error)
<1>1. CASE p \in DOMAIN GuestAwaits
  <2>1. CASE p = "guest_auth"
    BY <2>1, WaitingPages DEF Await, GuestWaits, GuestAwaits, Wait, Row
  <2>2. CASE p = "tables"
    BY <2>2, WaitingPages DEF Await, GuestWaits, GuestAwaits, Wait, Row
  <2>3. CASE p = "booking"
    BY <2>3, WaitingPages DEF Await, GuestWaits, GuestAwaits, Wait, Row
  <2>4. CASE p = "dashboard"
    BY <2>4, WaitingPages DEF Await, GuestWaits, GuestAwaits, Wait, Row
  <2>5. CASE p = "menu"
    BY <2>5, WaitingPages DEF Await, GuestWaits, GuestAwaits, Wait, Row
  <2>6. CASE p = "ordering"
    BY <2>6, WaitingPages DEF Await, GuestWaits, GuestAwaits, Wait, Row
  <2>7. CASE p = "view"
    BY <2>7, WaitingPages DEF Await, GuestWaits, GuestAwaits, Wait, Row
  <2>8. CASE p = "bill"
    BY <2>8, WaitingPages DEF Await, GuestWaits, GuestAwaits, Wait, Row
  <2>9. CASE p = "receipt"
    BY <2>9, WaitingPages DEF Await, GuestWaits, GuestAwaits, Wait, Row
  <2> QED BY <1>1, <2>1, <2>2, <2>3, <2>4, <2>5, <2>6, <2>7, <2>8, <2>9, WaitingPages DEF GuestWaits
<1>2. CASE p = "admin_auth"
  BY <1>2, WaitingPages DEF Await, GuestWaits, StaffAwaits, Wait, Row
<1>3. CASE p = "chef_auth"
  BY <1>3, WaitingPages DEF Await, GuestWaits, StaffAwaits, Wait, Row
<1>4. CASE p \in AdminPages
  <2>1. Await(p) = Wait(p, "admin_dashboard", "admin_dashboard")
    BY <1>4, WaitingPages DEF Await, GuestWaits, AdminPages, AdminLists, AdminChanges
  <2> QED BY <1>4, <2>1 DEF Wait, Row
<1> QED BY <1>1, <1>2, <1>3, <1>4, WaitingPages

LEMMA AwaitTypes ==
  ASSUME NEW p \in Waiting
  PROVE  /\ Await(p).request \in Requests
         /\ Await(p).ok \in PageNames /\ Await(p).error \in PageNames
<1>1. Row(p, Await(p).request, Await(p).ok, Await(p).error)
  BY AwaitRow
<1>2. \A request, ok, error : Row(p, request, ok, error) => request \in Requests
  BY DEF Row, Requests, AdminPages, AdminLists, AdminChanges
<1>3. \A request, ok, error : Row(p, request, ok, error) => ok \in PageNames /\ error \in PageNames
  BY DEF Row, PageNames, Lobby, BeforeTable, AtTable
<1> QED BY <1>1, <1>2, <1>3

LEMMA ChoiceTable ==
  ASSUME NEW p, NEW q, <<p, q>> \in Choices
  PROVE  \/ p = "landing" /\ q \in {"guest_auth", "admin_login", "chef_login", "closed"}
         \/ p = "details" /\ q = "tables"
         \/ p = "tables_shown" /\ q \in {"booking", "landing"}
         \/ p = "tables_failed" /\ q = "tables"
         \/ p = "booked" /\ q = "dashboard"
         \/ p = "dashboard_failed" /\ q = "dashboard"
         \/ p = "dashboard_shown" /\ q \in {"menu", "bill", "view", "dashboard", "closed"}
         \/ p \in {"menu_failed", "ordered"} /\ q = "menu"
         \/ p = "ordered" /\ q = "dashboard"
         \/ p = "menu_shown" /\ q \in {"menu", "ordering", "dashboard"}
         \/ p = "view_shown" /\ q = "dashboard"
         \/ p = "receipt_shown" /\ q = "closed"
         \/ p = "admin_login" /\ q = "admin_auth"
         \/ p = "admin_dashboard" /\ q \in AdminPages \cup {"closed"}
         \/ p = "chef_login" /\ q = "chef_auth"
BY DEF Choices, LandingPage, DetailsPage, TablesMenu, DashboardPage, ItemsPage, ViewPage, BillPage,
   AdminLogin, AdminDashboard, ChefLogin

\* A choice leads from a page that waits for nothing to one of the same thread.
LEMMA ChoicePlace ==
  ASSUME NEW th, NEW p, NEW q, NEW ss, NEW sh, <<p, q>> \in Choices, q # "closed",
         InPlace(th, p, ss, sh)
  PROVE  /\ p \notin Waiting \cup {"closed", "chef_dashboard"} /\ q # "chef_dashboard"
         /\ InPlace(th, q, ss, sh)
         /\ q = "booking" /\ th # "ended" => ss = 0
         /\ q \in LoginPages /\ th # "ended" => th \in {"hello", "GUEST"}
         /\ th # "closed" /\ th \in {"hello", "GUEST", "ADMIN", "CHEF", "ended"}
<1>1. p \notin Waiting \cup {"closed", "chef_dashboard"} /\ q # "chef_dashboard"
  BY ChoiceTable, WaitingPages DEF GuestWaits, AdminPages, AdminLists, AdminChanges
<1>2. InPlace(th, q, ss, sh)
  BY ChoiceTable DEF InPlace, Lobby, LoginPages, BeforeTable, AtTable, AdminPages, AdminLists, AdminChanges
<1>3. q = "booking" /\ th # "ended" => ss = 0
  BY ChoiceTable DEF InPlace, Lobby, LoginPages, BeforeTable, AtTable, AdminPages, AdminLists, AdminChanges
<1>4. q \in LoginPages /\ th # "ended" => th \in {"hello", "GUEST"}
  BY ChoiceTable DEF InPlace, Lobby, LoginPages, BeforeTable, AtTable, AdminPages, AdminLists, AdminChanges
<1>5. th # "closed" /\ th \in {"hello", "GUEST", "ADMIN", "CHEF", "ended"}
  BY <1>1 DEF InPlace
<1> QED BY <1>1, <1>2, <1>3, <1>4, <1>5

\* What a page takes for its answer leads to a page of the same thread.
LEMMA AnswerPlace ==
  ASSUME NEW th, NEW p, NEW request, NEW ok, NEW error, NEW ss, NEW sh, NEW rp, NEW good \in BOOLEAN,
         NEW q, NEW sh2, Row(p, request, ok, error), InPlace(th, p, ss, sh), AnswerFits(th, p, ss, rp),
         good <=> (IF p \in LoginPages THEN Head(rp).status = "OK" ELSE Head(rp).status # "ERROR"),
         q = (IF good THEN ok ELSE error),
         sh2 = (IF p = "booking" /\ good THEN Head(rp).order ELSE sh)
  PROVE  /\ InPlace(th, q, ss, sh2)
         /\ q \in Waiting => q = "receipt" /\ th \in {"GUEST", "ended"}
         /\ rp # <<Head(rp)>> => q = "chef_dashboard"
         /\ q = "chef_dashboard" => th \in {"CHEF", "ended"}
<1> USE WaitingPages DEF InPlace, Lobby, LoginPages, BeforeTable, AtTable, GuestWaits, AdminPages,
    AdminLists, AdminChanges
<1>1. CASE p = "guest_auth"
  BY <1>1 DEF Row, AnswerFits
<1>2. CASE p = "admin_auth"
  BY <1>2 DEF Row, AnswerFits
<1>3. CASE p = "chef_auth"
  BY <1>3 DEF Row, AnswerFits
<1>4. CASE p \in AdminPages
  <2>1. q = "admin_dashboard" /\ sh2 = sh /\ th \in {"ADMIN", "ended"}
    BY <1>4 DEF Row
  <2>2. rp = <<Head(rp)>>
    BY <1>4, <2>1 DEF AnswerFits
  <2> QED BY <2>1, <2>2
<1>5. CASE p = "booking"
  <2>1. CASE th = "ended"
    BY <1>5, <2>1 DEF Row, AnswerFits
  <2>2. CASE th = "GUEST"
    BY <1>5, <2>2 DEF Row, AnswerFits
  <2> QED BY <1>5, <2>1, <2>2
<1>6. CASE p = "tables"
  BY <1>6 DEF Row, AnswerFits
<1>7. CASE p \in AtTable
  <2>1. q \in {"dashboard_shown", "dashboard_failed", "menu_shown", "menu_failed", "ordered", "view_shown",
               "receipt_shown", "receipt"} /\ sh2 = sh
    BY <1>7 DEF Row
  <2>2. th = "ended" \/ (th = "GUEST" /\ ss = sh /\ ss # 0)
    BY <1>7
  <2>3. rp = <<Head(rp)>>
    BY <1>7, <2>2 DEF AnswerFits
  <2> QED BY <2>1, <2>2, <2>3
<1> QED BY <1>1, <1>2, <1>3, <1>4, <1>5, <1>6, <1>7 DEF Row
\* Which request is served of those that wait, and what is left.
LEMMA OneTaken ==
  ASSUME NEW S, NEW s \in Seq(S), NEW n \in 1 .. Len(s)
  PROVE  /\ SubSeq(s, n + 1, Len(s)) \in Seq(S)
         /\ \A a : s = <<a>> => SubSeq(s, n + 1, Len(s)) = <<>>
<1>1. SubSeq(s, n + 1, Len(s)) \in Seq(S)
  OBVIOUS
<1>2. ASSUME NEW a, s = <<a>> PROVE SubSeq(s, n + 1, Len(s)) = <<>>
  <2>1. Len(s) = 1 /\ n = 1
    BY <1>2
  <2>2. Len(SubSeq(s, n + 1, Len(s))) = 0
    BY <2>1
  <2> QED BY <1>1, <2>2
<1> QED BY <1>1, <1>2

-----------------------------------------------------------------------------
\* The steps, said of values.
\* What is sent as page q is entered.
Asking(th, q, rq) ==
  IF q \in Waiting /\ th \notin {"closed", "ended"} THEN Append(rq, Await(q).request)
  ELSE IF q = "chef_dashboard" /\ th \notin {"closed", "ended"} THEN Append(rq, "GET_DASHBOARD")
  ELSE rq

LEMMA ChooseFits ==
  ASSUME NEW th, NEW p, NEW q, NEW ss, NEW sh, NEW rq, NEW rp, Fits(th, p, ss, sh, rq, rp),
         <<p, q>> \in Choices, q # "closed"
  PROVE  Fits(th, q, ss, sh, Asking(th, q, rq), rp)
<1>1. /\ p \notin Waiting \cup {"closed", "chef_dashboard"} /\ q # "chef_dashboard"
      /\ InPlace(th, q, ss, sh)
      /\ q = "booking" /\ th # "ended" => ss = 0
      /\ q \in LoginPages /\ th # "ended" => th \in {"hello", "GUEST"}
      /\ th # "closed"
  BY ChoicePlace DEF Fits
<1>2. rq = <<>> /\ rp = <<>>
  BY <1>1 DEF Fits, InTurn
<1>3. CASE q \in Waiting /\ th # "ended"
  <2>1. Asking(th, q, rq) = <<Await(q).request>>
    BY <1>1, <1>2, <1>3 DEF Asking
  <2> QED BY <1>1, <1>2, <1>3, <2>1 DEF Fits, InTurn, Asked
<1>4. CASE q \in Waiting /\ th = "ended"
  <2>1. Asking(th, q, rq) = <<>>
    BY <1>1, <1>2, <1>4 DEF Asking
  <2> QED BY <1>1, <1>2, <1>4, <2>1 DEF Fits, InTurn, Lost
<1>5. CASE q \notin Waiting
  <2>1. Asking(th, q, rq) = <<>>
    BY <1>1, <1>2, <1>5 DEF Asking
  <2> QED BY <1>1, <1>2, <1>5, <2>1 DEF Fits, InTurn
<1> QED BY <1>3, <1>4, <1>5

LEMMA ClosedFits ==
  ASSUME NEW th, NEW ss, NEW sh, NEW rq, NEW rp
  PROVE  Fits(th, "closed", ss, sh, rq, rp) <=> (ss # 0 => th = "GUEST")
BY DEF Fits, InPlace, InTurn

LEMMA DashboardFits ==
  ASSUME NEW th, NEW ss, NEW sh, NEW rq, NEW rp
  PROVE  Fits(th, "chef_dashboard", ss, sh, rq, rp) <=> th \in {"CHEF", "ended"} /\ ss = 0
BY DEF Fits, InPlace, InTurn, Lobby, LoginPages, BeforeTable, AtTable, AdminPages, AdminLists, AdminChanges

LEMMA TakeFits ==
  ASSUME NEW th, NEW p \in Waiting, NEW ss, NEW sh, NEW rq, NEW rp \in Seq(Answer), rp # <<>>,
         Fits(th, p, ss, sh, rq, rp), NEW good \in BOOLEAN, NEW q, NEW sh2, NEW n \in 1 .. Len(rp),
         good <=> (IF p \in LoginPages THEN Head(rp).status = "OK" ELSE Head(rp).status # "ERROR"),
         q = (IF good THEN Await(p).ok ELSE Await(p).error),
         sh2 = (IF p = "booking" /\ good THEN Head(rp).order ELSE sh)
  PROVE  /\ Fits(th, q, ss, sh2, Asking(th, q, rq), SubSeq(rp, n + 1, Len(rp)))
         /\ Head(rp).to = Await(p).request
<1> DEFINE rp2 == SubSeq(rp, n + 1, Len(rp))
<1>1. Answered(th, p, ss, rq, rp)
  <2>1. p \notin {"closed", "chef_dashboard"}
    BY WaitingPages DEF GuestWaits, AdminPages, AdminLists, AdminChanges
  <2> QED BY <2>1 DEF Fits, InTurn, Asked, Lost
<1>2. /\ InPlace(th, q, ss, sh2)
      /\ q \in Waiting => q = "receipt" /\ th \in {"GUEST", "ended"}
      /\ rp # <<Head(rp)>> => q = "chef_dashboard"
      /\ q = "chef_dashboard" => th \in {"CHEF", "ended"}
  <2>1. Row(p, Await(p).request, Await(p).ok, Await(p).error)
    BY AwaitRow
  <2> QED BY <1>1, <2>1, AnswerPlace DEF Fits, Answered
<1>3. rq = <<>> /\ (rp = <<Head(rp)>> => rp2 = <<>>)
  BY <1>1, OneTaken DEF Answered
<1>4. ss # 0 => th = "GUEST"
  BY DEF Fits
<1>5. CASE q \in Waiting
  <2>1. rp2 = <<>> /\ q = "receipt" /\ q \notin LoginPages /\ q # "booking"
    BY <1>2, <1>3, <1>5 DEF LoginPages
  <2>2. CASE th = "GUEST"
    <3>1. Asking(th, q, rq) = <<Await(q).request>>
      BY <1>3, <1>5, <2>2 DEF Asking
    <3> QED BY <1>1, <1>2, <1>4, <1>5, <2>1, <2>2, <3>1 DEF Fits, InTurn, Asked, Answered
  <2>3. CASE th = "ended"
    <3>1. Asking(th, q, rq) = <<>>
      BY <1>3, <2>1, <2>3 DEF Asking
    <3> QED BY <1>1, <1>2, <1>4, <1>5, <2>1, <2>3, <3>1 DEF Fits, InTurn, Lost, Answered
  <2> QED BY <1>2, <1>5, <2>2, <2>3
<1>6. CASE q = "closed" \/ q = "chef_dashboard"
  BY <1>1, <1>2, <1>4, <1>6 DEF Fits, InTurn, Answered
<1>7. CASE q \notin Waiting \cup {"closed", "chef_dashboard"}
  <2>1. Asking(th, q, rq) = <<>> /\ rp2 = <<>>
    BY <1>2, <1>3, <1>7 DEF Asking
  <2> QED BY <1>1, <1>2, <1>4, <1>7, <2>1 DEF Fits, InTurn, Answered
<1> QED BY <1>5, <1>6, <1>7

LEMMA EndFits ==
  ASSUME NEW p \in Waiting \ DOMAIN GuestAwaits, NEW ss, NEW sh, NEW rq,
         Fits("ended", p, ss, sh, rq, <<>>)
  PROVE  Fits("ended", Await(p).error, ss, sh, Asking("ended", Await(p).error, rq), <<>>)
<1>1. Row(p, Await(p).request, Await(p).ok, Await(p).error)
  BY AwaitRow
<1>2. p \in {"admin_auth", "chef_auth"} \cup AdminPages
  BY WaitingPages
<1>3. Await(p).error \in {"admin_dashboard", "admin_login", "chef_login"}
  BY <1>1, <1>2 DEF Row, AdminPages, AdminLists, AdminChanges
<1>4. Await(p).error \notin Waiting \cup {"closed", "chef_dashboard"}
  BY <1>3, WaitingPages DEF GuestWaits, AdminPages, AdminLists, AdminChanges
<1>5. rq = <<>>
  <2>1. p \notin {"closed", "chef_dashboard"}
    BY <1>2 DEF AdminPages, AdminLists, AdminChanges
  <2> QED BY <2>1 DEF Fits, InTurn, Asked, Lost, Answered
<1>6. Asking("ended", Await(p).error, rq) = <<>>
  BY <1>4, <1>5 DEF Asking
<1> QED BY <1>3, <1>4, <1>6 DEF Fits, InPlace, InTurn

LEMMA UpdateFits ==
  ASSUME NEW p, NEW ss, NEW sh, NEW rq, NEW rp \in Seq(Answer), NEW a \in Answer,
         Fits("CHEF", p, ss, sh, rq, rp)
  PROVE  Fits("CHEF", p, ss, sh, rq, Append(rp, a))
<1>1. p \in {"closed", "chef_auth", "chef_dashboard"}
  BY DEF Fits, InPlace
<1>2. CASE p \in {"closed", "chef_dashboard"}
  BY <1>2 DEF Fits, InTurn
<1>3. CASE p = "chef_auth"
  <2>1. Answered("CHEF", p, ss, rq, rp) /\ p \in Waiting
    BY <1>3, WaitingPages DEF Fits, InTurn, Asked, Lost, LoginPages
  <2>2. Append(rp, a) # <<>> /\ Head(Append(rp, a)) = Head(rp)
    BY <2>1 DEF Answered
  <2>3. Answered("CHEF", p, ss, rq, Append(rp, a))
    BY <2>1, <2>2 DEF Answered, AnswerFits
  <2> QED BY <2>1, <2>3 DEF Fits, InTurn
<1> QED BY <1>1, <1>2, <1>3
\* A request that is served, of a page that is not closed and of a role whose thread
\* waits for each request, is the only thing on its way.
LEMMA ServedAlone ==
  ASSUME NEW th, NEW p, NEW ss, NEW sh, NEW rq, NEW rp, Fits(th, p, ss, sh, rq, rp), rq # <<>>,
         p \notin {"closed", "chef_dashboard"}
  PROVE  p \in Waiting /\ Asked(th, p, ss, rq, rp) /\ th # "CHEF"
<1>1. p \in Waiting /\ Asked(th, p, ss, rq, rp)
  BY DEF Fits, InTurn, Lost, Answered
<1>2. th # "CHEF"
  BY <1>1 DEF Fits, InPlace, Asked, LoginPages
<1> QED BY <1>1, <1>2

\* The answers of the thread to request, of a page that asked it.
LEMMA HelloFits ==
  ASSUME NEW p \in Waiting, NEW sh, NEW rq, Fits("hello", p, 0, sh, rq, <<>>),
         Asked("hello", p, 0, rq, <<>>), NEW th2, NEW a \in Answer, a.to = Await(p).request,
         \/ a.to = "AUTH_GUEST" /\ th2 = "GUEST" /\ a.status = "OK"
         \/ a.to = "AUTH_ADMIN" /\ th2 = "ADMIN" /\ a.status = "OK"
         \/ a.to = "AUTH_CHEF" /\ th2 = "CHEF" /\ a.status = "OK"
         \/ a.to \in {"AUTH_ADMIN", "AUTH_CHEF"} /\ th2 = "ended" /\ a.status = "ERROR"
  PROVE  Fits(th2, p, 0, sh, <<>>, <<a>>)
<1>1. Row(p, Await(p).request, Await(p).ok, Await(p).error)
  BY AwaitRow
<1>2. /\ a.to = "AUTH_GUEST" => p = "guest_auth"
      /\ a.to = "AUTH_ADMIN" => p = "admin_auth"
      /\ a.to = "AUTH_CHEF" => p = "chef_auth"
  BY <1>1 DEF Row, AdminPages, AdminLists, AdminChanges
<1>3. InPlace(th2, p, 0, sh)
  BY <1>2 DEF InPlace, Lobby, LoginPages
<1>4. AnswerFits(th2, p, 0, <<a>>)
  <2>1. Head(<<a>>) = a
    OBVIOUS
  <2> QED BY <1>2, <2>1 DEF AnswerFits
<1>5. Answered(th2, p, 0, <<>>, <<a>>)
  <2>1. Head(<<a>>) = a /\ <<a>> # <<>>
    OBVIOUS
  <2> QED BY <1>4, <2>1 DEF Answered
<1> QED BY <1>3, <1>5 DEF Fits, InTurn

LEMMA GuestFits ==
  ASSUME NEW p \in Waiting, NEW ss, NEW sh, NEW rq, Fits("GUEST", p, ss, sh, rq, <<>>),
         Asked("GUEST", p, ss, rq, <<>>), NEW ss2, NEW a \in Answer, a.to = Await(p).request,
         \/ a.to = "BOOK_TABLE" /\ ss2 # 0 /\ a.order = ss2 /\ a.status = "OK"
         \/ a.to \in GuestReads \cup {"ORDER_ITEM", "GENERATE_BILL"} /\ ss2 = ss
         \/ a.status = "ERROR" /\ ss2 = ss
  PROVE  Fits("GUEST", p, ss2, sh, <<>>, <<a>>)
<1>1. Row(p, Await(p).request, Await(p).ok, Await(p).error)
  BY AwaitRow
<1>2. /\ a.to = "BOOK_TABLE" => p = "booking"
      /\ p = "booking" => a.to = "BOOK_TABLE"
      /\ a.to \in GuestReads \cup {"ORDER_ITEM", "GENERATE_BILL"} => p \notin LoginPages
  BY <1>1 DEF Row, LoginPages, GuestReads, AdminPages, AdminLists, AdminChanges
<1>3. InPlace("GUEST", p, ss2, sh)
  <2>1. CASE p = "booking"
    BY <2>1 DEF InPlace, BeforeTable
  <2>2. CASE p # "booking"
    BY <1>2, <2>2 DEF Fits
  <2> QED BY <2>1, <2>2
<1>4. AnswerFits("GUEST", p, ss2, <<a>>)
  <2>1. Head(<<a>>) = a
    OBVIOUS
  <2>2. p = "booking" => ss = 0
    BY DEF Asked
  <2> QED BY <1>2, <2>1, <2>2 DEF AnswerFits, LoginPages, GuestReads
<1>5. Answered("GUEST", p, ss2, <<>>, <<a>>)
  <2>1. Head(<<a>>) = a /\ <<a>> # <<>>
    OBVIOUS
  <2> QED BY <1>4, <2>1 DEF Answered
<1> QED BY <1>3, <1>5 DEF Fits, InTurn

LEMMA AdminFits ==
  ASSUME NEW p \in Waiting, NEW ss, NEW sh, NEW rq, Fits("ADMIN", p, ss, sh, rq, <<>>),
         Asked("ADMIN", p, ss, rq, <<>>)
  PROVE  /\ Fits("ADMIN", p, ss, sh, <<>>, <<>>)
         /\ \A a \in Answer : a.to = Await(p).request => Fits("ADMIN", p, ss, sh, <<>>, <<a>>)
<1>1. p \notin LoginPages /\ p # "booking"
  BY WaitingPages DEF Fits, InPlace, Asked, BeforeTable, AtTable, AdminPages, AdminLists, AdminChanges,
     LoginPages, GuestWaits, Lobby
<1>2. Fits("ADMIN", p, ss, sh, <<>>, <<>>)
  BY DEF Fits, InTurn, Lost
<1>3. ASSUME NEW a \in Answer, a.to = Await(p).request PROVE Fits("ADMIN", p, ss, sh, <<>>, <<a>>)
  <2>1. Head(<<a>>) = a /\ <<a>> # <<>>
    OBVIOUS
  <2>2. AnswerFits("ADMIN", p, ss, <<a>>)
    BY <1>1, <2>1 DEF AnswerFits, LoginPages
  <2>3. Answered("ADMIN", p, ss, <<>>, <<a>>)
    BY <1>3, <2>1, <2>2 DEF Answered
  <2> QED BY <2>3 DEF Fits, InTurn
<1> QED BY <1>2, <1>3

-----------------------------------------------------------------------------
\* What a step of one terminal leaves of another: it may be sent an update.
Untouched(u) ==
  /\ page'[u] = page[u] /\ thread'[u] = thread[u] /\ session'[u] = session[u]
  /\ shown'[u] = shown[u] /\ requests'[u] = requests[u]
  /\ u \in listed' <=> u \in listed
  /\ \/ replies'[u] = replies[u]
     \/ u \in listed /\ Connected(u) /\ replies'[u] = Append(replies[u], Update)
StepOf(t) ==
  /\ WireTypes' /\ recycled \subseteq recycled'
  /\ \A u \in Terminals \ {t} : Untouched(u)
  /\ t \notin recycled' => Good(t)'

LEMMA ReplyAnswers ==
  ASSUME NEW to \in Requests, NEW status \in Statuses, NEW order \in Orders
  PROVE  /\ Reply(to, status, order) \in Answer
         /\ Reply(to, status, order).to = to /\ Reply(to, status, order).status = status
         /\ Reply(to, status, order).order = order
BY DEF Reply, Answer
LEMMA UpdateAnswers == Update \in Answer
BY NoOrder DEF Update, Reply, Answer, Statuses

LEMMA UntouchedGood ==
  ASSUME WireTypes, NEW u \in Terminals, Good(u), Untouched(u)
  PROVE  Good(u)'
<1>1. ListedInPlace(u)'
  BY DEF Good, ListedInPlace, Untouched
<1>2. Fits(thread'[u], page'[u], session'[u], shown'[u], requests'[u], replies'[u])
  <2>1. CASE replies'[u] = replies[u]
    BY <2>1 DEF Good, Untouched
  <2>2. CASE u \in listed /\ Connected(u) /\ replies'[u] = Append(replies[u], Update)
    <3>1. thread[u] = "CHEF"
      BY <2>2 DEF Good, ListedInPlace, Connected
    <3>2. replies[u] \in Seq(Answer)
      BY DEF WireTypes
    <3>3. Fits("CHEF", page[u], session[u], shown[u], requests[u], Append(replies[u], Update))
      BY <3>1, <3>2, UpdateAnswers, UpdateFits DEF Good
    <3> QED BY <2>2, <3>1, <3>3 DEF Untouched
  <2> QED BY <2>1, <2>2 DEF Untouched
<1> QED BY <1>1, <1>2 DEF Good

LEMMA StepKeeps ==
  ASSUME SessionInv, NEW t \in Terminals, StepOf(t)
  PROVE  SessionInv'
<1>1. ASSUME NEW u \in Terminals \ recycled' PROVE Good(u)'
  <2>1. CASE u = t
    BY <1>1, <2>1 DEF StepOf
  <2>2. CASE u # t
    <3>1. u \in Terminals /\ u \notin recycled /\ Untouched(u)
      BY <1>1, <2>2 DEF StepOf
    <3> QED BY <3>1, UntouchedGood DEF SessionInv
  <2> QED BY <2>1, <2>2
<1> QED BY <1>1 DEF SessionInv, StepOf
-----------------------------------------------------------------------------
\* Entering a page.
LEMMA EnterTo ==
  ASSUME WireTypes, NEW t \in Terminals, NEW q \in PageNames, Enter(t, q)
  PROVE  /\ page' \in [Terminals -> PageNames] /\ requests' \in [Terminals -> Seq(Requests)]
         /\ page'[t] = q /\ requests'[t] = Asking(thread[t], q, requests[t])
         /\ \A u \in Terminals \ {t} : page'[u] = page[u] /\ requests'[u] = requests[u]
<1>1. /\ page' \in [Terminals -> PageNames] /\ page'[t] = q
      /\ \A u \in Terminals \ {t} : page'[u] = page[u]
  BY DEF WireTypes, Enter
<1>2. requests \in [Terminals -> Seq(Requests)] /\ requests[t] \in Seq(Requests)
  BY DEF WireTypes
<1>3. ASSUME NEW r \in Requests, requests' = [requests EXCEPT ![t] = Append(@, r)]
      PROVE  /\ requests' \in [Terminals -> Seq(Requests)] /\ requests'[t] = Append(requests[t], r)
             /\ \A u \in Terminals \ {t} : requests'[u] = requests[u]
  <2>1. Append(requests[t], r) \in Seq(Requests)
    BY <1>2
  <2> QED BY <1>2, <1>3, <2>1
<1>4. CASE q \in Waiting /\ Connected(t)
  <2>1. requests' = [requests EXCEPT ![t] = Append(@, Await(q).request)] /\ Await(q).request \in Requests
    BY <1>4, AwaitTypes DEF Enter
  <2> QED BY <1>1, <1>3, <1>4, <2>1 DEF Asking, Connected
<1>5. CASE q = "chef_dashboard" /\ Connected(t) /\ q \notin Waiting
  <2>1. requests' = [requests EXCEPT ![t] = Append(@, "GET_DASHBOARD")] /\ "GET_DASHBOARD" \in Requests
    BY <1>5 DEF Enter, Requests
  <2> QED BY <1>1, <1>3, <1>5, <2>1 DEF Asking, Connected
<1>6. CASE ~((q \in Waiting \/ q = "chef_dashboard") /\ Connected(t))
  <2>1. requests' = requests
    BY <1>6 DEF Enter
  <2> QED BY <1>1, <1>2, <1>6, <2>1 DEF Asking, Connected
<1> QED BY <1>4, <1>5, <1>6

LEMMA ExitStep ==
  ASSUME SessionInv, NEW t \in Terminals, Exit(t), UNCHANGED <<bridge, server>>
  PROVE  StepOf(t)
<1>1. WireTypes
  BY DEF SessionInv
<1>2. "closed" \in PageNames /\ "closed" \notin Waiting
  BY WaitingPages DEF PageNames, GuestWaits, AdminPages, AdminLists, AdminChanges
<1>3. /\ page' \in [Terminals -> PageNames] /\ requests' \in [Terminals -> Seq(Requests)]
      /\ page'[t] = "closed"
      /\ \A u \in Terminals \ {t} : page'[u] = page[u] /\ requests'[u] = requests[u]
  BY <1>1, <1>2, EnterTo DEF Exit
<1>4. /\ shown' \in [Terminals -> Orders] /\ replies' \in [Terminals -> Seq(Answer)]
      /\ \A u \in Terminals \ {t} : shown'[u] = shown[u] /\ replies'[u] = replies[u]
  <2>1. /\ shown \in [Terminals -> Orders] /\ replies \in [Terminals -> Seq(Answer)]
        /\ shown' = [shown EXCEPT ![t] = 0] /\ replies' = [replies EXCEPT ![t] = <<>>]
    BY <1>1 DEF WireTypes, Exit
  <2>2. <<>> \in Seq(Answer)
    OBVIOUS
  <2> QED BY <2>1, <2>2, NoOrder
<1>5. WireTypes'
  BY <1>1, <1>3, <1>4 DEF WireTypes, server
<1>6. \A u \in Terminals \ {t} : Untouched(u)
  BY <1>3, <1>4 DEF Untouched, server
<1>7. t \notin recycled' => Good(t)'
  <2> SUFFICES ASSUME t \notin recycled PROVE Good(t)'
    BY DEF bridge
  <2>1. Good(t)
    BY DEF SessionInv
  <2>2. session[t] # 0 => thread[t] = "GUEST"
    BY <2>1 DEF Good, Fits
  <2>3. Fits(thread'[t], page'[t], session'[t], shown'[t], requests'[t], replies'[t])
    BY <1>3, <2>2, ClosedFits DEF server
  <2> QED BY <2>1, <2>3 DEF Good, ListedInPlace, server
<1> QED BY <1>5, <1>6, <1>7 DEF StepOf, bridge
LEMMA ChooseStep ==
  ASSUME SessionInv, NEW t \in Terminals, Choose(t)
  PROVE  StepOf(t)
<1>1. ASSUME NEW q \in Pages, <<page[t], q>> \in Choices, q # "closed", Enter(t, q),
             UNCHANGED <<shown, replies, bridge, server>>
      PROVE  StepOf(t)
  <2>1. WireTypes
    BY DEF SessionInv
  <2>2. q \in PageNames
    BY <1>1, ChoiceTable DEF PageNames, Lobby, LoginPages, BeforeTable, AtTable
  <2>3. /\ page' \in [Terminals -> PageNames] /\ requests' \in [Terminals -> Seq(Requests)]
        /\ page'[t] = q /\ requests'[t] = Asking(thread[t], q, requests[t])
        /\ \A u \in Terminals \ {t} : page'[u] = page[u] /\ requests'[u] = requests[u]
    BY <1>1, <2>1, <2>2, EnterTo
  <2>4. WireTypes'
    BY <1>1, <2>1, <2>3 DEF WireTypes, server
  <2>5. \A u \in Terminals \ {t} : Untouched(u)
    BY <1>1, <2>3 DEF Untouched, server
  <2>6. t \notin recycled' => Good(t)'
    <3> SUFFICES ASSUME t \notin recycled PROVE Good(t)'
      BY <1>1 DEF bridge
    <3>1. Good(t)
      BY DEF SessionInv
    <3>2. Fits(thread[t], q, session[t], shown[t], Asking(thread[t], q, requests[t]), replies[t])
      BY <1>1, <3>1, ChooseFits DEF Good
    <3>3. Fits(thread'[t], page'[t], session'[t], shown'[t], requests'[t], replies'[t])
      BY <1>1, <2>3, <3>2 DEF server
    <3> QED BY <1>1, <3>1, <3>3 DEF Good, ListedInPlace, server
  <2> QED BY <1>1, <2>4, <2>5, <2>6 DEF StepOf, bridge
<1> QED BY <1>1, ExitStep DEF Choose

LEMMA CommandStep ==
  ASSUME SessionInv, NEW t \in Terminals, ChefCommands(t) \/ TakeUpdate(t)
  PROVE  StepOf(t)
<1>1. WireTypes
  BY DEF SessionInv
<1>2. page[t] = "chef_dashboard" /\ UNCHANGED <<bridge, page, shown, server>>
  BY DEF ChefCommands, TakeUpdate
<1>3. /\ requests' \in [Terminals -> Seq(Requests)] /\ replies' \in [Terminals -> Seq(Answer)]
      /\ \A u \in Terminals \ {t} : requests'[u] = requests[u] /\ replies'[u] = replies[u]
  <2>1. requests \in [Terminals -> Seq(Requests)] /\ replies \in [Terminals -> Seq(Answer)]
    BY <1>1 DEF WireTypes
  <2>2. CASE ChefCommands(t)
    <3>1. PICK r \in {"GET_DASHBOARD", "MARK_PREPARED"} : requests' = [requests EXCEPT ![t] = Append(@, r)]
      BY <2>2 DEF ChefCommands
    <3>2. r \in Requests
      BY DEF Requests
    <3>3. Append(requests[t], r) \in Seq(Requests)
      BY <2>1, <3>2
    <3> QED BY <2>1, <2>2, <3>1, <3>3 DEF ChefCommands
  <2>3. CASE TakeUpdate(t)
    <3>1. <<>> \in Seq(Answer)
      OBVIOUS
    <3> QED BY <2>1, <2>3, <3>1 DEF TakeUpdate
  <2> QED BY <2>2, <2>3
<1>4. WireTypes'
  BY <1>1, <1>2, <1>3 DEF WireTypes, server
<1>5. \A u \in Terminals \ {t} : Untouched(u)
  BY <1>2, <1>3 DEF Untouched, server
<1>6. t \notin recycled' => Good(t)'
  <2> SUFFICES ASSUME t \notin recycled PROVE Good(t)'
    BY <1>2 DEF bridge
  <2>1. Good(t)
    BY DEF SessionInv
  <2>2. thread[t] \in {"CHEF", "ended"} /\ session[t] = 0
    BY <1>2, <2>1, DashboardFits DEF Good
  <2>3. Fits(thread'[t], page'[t], session'[t], shown'[t], requests'[t], replies'[t])
    BY <1>2, <2>2, DashboardFits DEF server
  <2> QED BY <1>2, <2>1, <2>3 DEF Good, ListedInPlace, server
<1> QED BY <1>2, <1>4, <1>5, <1>6 DEF StepOf, bridge

LEMMA TakeStep ==
  ASSUME SessionInv, NEW t \in Terminals, TakeReply(t)
  PROVE  StepOf(t)
<1> DEFINE first == Head(replies[t])
           good  == IF page[t] \in LoginPages THEN first.status = "OK" ELSE first.status # "ERROR"
           q     == IF good THEN Await(page[t]).ok ELSE Await(page[t]).error
           sh2   == IF page[t] = "booking" /\ good THEN first.order ELSE shown[t]
<1>1. WireTypes
  BY DEF SessionInv
<1>2. PICK n \in 1 .. Len(replies[t]) : replies' = [replies EXCEPT ![t] = SubSeq(@, n + 1, Len(@))]
  BY DEF TakeReply
<1>3. page[t] \in Waiting /\ replies[t] # <<>> /\ replies[t] \in Seq(Answer) /\ first \in Answer
  BY <1>1 DEF TakeReply, WireTypes
<1>4. /\ Enter(t, q) /\ UNCHANGED <<bridge, server>>
      /\ shown' = IF page[t] = "booking" /\ good THEN [shown EXCEPT ![t] = first.order] ELSE shown
  BY DEF TakeReply, LoginPages
<1>5. q \in PageNames
  BY <1>3, AwaitTypes
<1>6. /\ page' \in [Terminals -> PageNames] /\ requests' \in [Terminals -> Seq(Requests)]
      /\ page'[t] = q /\ requests'[t] = Asking(thread[t], q, requests[t])
      /\ \A u \in Terminals \ {t} : page'[u] = page[u] /\ requests'[u] = requests[u]
  BY <1>1, <1>4, <1>5, EnterTo
<1>7. /\ replies' \in [Terminals -> Seq(Answer)]
      /\ replies'[t] = SubSeq(replies[t], n + 1, Len(replies[t]))
      /\ \A u \in Terminals \ {t} : replies'[u] = replies[u]
  <2>1. SubSeq(replies[t], n + 1, Len(replies[t])) \in Seq(Answer)
    BY <1>3, OneTaken
  <2> QED BY <1>1, <1>2, <2>1 DEF WireTypes
<1>8. /\ shown' \in [Terminals -> Orders] /\ shown'[t] = sh2
      /\ \A u \in Terminals \ {t} : shown'[u] = shown[u]
  <2>1. first.order \in Orders /\ shown \in [Terminals -> Orders]
    BY <1>1, <1>3 DEF Answer, WireTypes
  <2> QED BY <1>4, <2>1
<1>9. WireTypes'
  BY <1>1, <1>4, <1>6, <1>7, <1>8 DEF WireTypes, server
<1>10. \A u \in Terminals \ {t} : Untouched(u)
  BY <1>4, <1>6, <1>7, <1>8 DEF Untouched, server
<1>11. t \notin recycled' => Good(t)'
  <2> SUFFICES ASSUME t \notin recycled PROVE Good(t)'
    BY <1>4 DEF bridge
  <2>1. Good(t)
    BY DEF SessionInv
  <2>2. Fits(thread[t], q, session[t], sh2, Asking(thread[t], q, requests[t]),
             SubSeq(replies[t], n + 1, Len(replies[t])))
    <3>1. good \in BOOLEAN
      OBVIOUS
    <3>2. Fits(thread[t], page[t], session[t], shown[t], requests[t], replies[t])
      BY <2>1 DEF Good
    <3> HIDE DEF good
    <3> QED BY <1>3, <3>1, <3>2, TakeFits DEF good
  <2>3. Fits(thread'[t], page'[t], session'[t], shown'[t], requests'[t], replies'[t])
    BY <1>4, <1>6, <1>7, <1>8, <2>2 DEF server
  <2> QED BY <1>4, <2>1, <2>3 DEF Good, ListedInPlace, server
<1> QED BY <1>4, <1>9, <1>10, <1>11 DEF StepOf, bridge

LEMMA EndStep ==
  ASSUME SessionInv, NEW t \in Terminals, TakeEnd(t)
  PROVE  StepOf(t)
<1>1. CASE Exit(t)
  BY <1>1, ExitStep DEF TakeEnd
<1>2. ASSUME page[t] \in Waiting \ DOMAIN GuestAwaits, Enter(t, Await(page[t]).error),
             UNCHANGED <<shown, replies>>
      PROVE  StepOf(t)
  <2> DEFINE q == Await(page[t]).error
  <2>1. /\ WireTypes /\ q \in PageNames /\ UNCHANGED <<bridge, server>> /\ replies[t] = <<>>
        /\ thread[t] \in {"closed", "ended"}
    BY <1>2, AwaitTypes DEF SessionInv, TakeEnd, Connected
  <2>2. /\ page' \in [Terminals -> PageNames] /\ requests' \in [Terminals -> Seq(Requests)]
        /\ page'[t] = q /\ requests'[t] = Asking(thread[t], q, requests[t])
        /\ \A u \in Terminals \ {t} : page'[u] = page[u] /\ requests'[u] = requests[u]
    BY <1>2, <2>1, EnterTo
  <2>3. WireTypes'
    BY <1>2, <2>1, <2>2 DEF WireTypes, server
  <2>4. \A u \in Terminals \ {t} : Untouched(u)
    BY <1>2, <2>1, <2>2 DEF Untouched, server
  <2>5. t \notin recycled' => Good(t)'
    <3> SUFFICES ASSUME t \notin recycled PROVE Good(t)'
      BY <2>1 DEF bridge
    <3>1. Good(t)
      BY DEF SessionInv
    <3>2. thread[t] = "ended" /\ Fits("ended", page[t], session[t], shown[t], requests[t], <<>>)
      <4>1. page[t] # "closed"
        BY <1>2, WaitingPages DEF GuestWaits, AdminPages, AdminLists, AdminChanges
      <4> QED BY <2>1, <3>1, <4>1 DEF Good, Fits, InPlace
    <3>3. Fits("ended", q, session[t], shown[t], Asking("ended", q, requests[t]), <<>>)
      BY <1>2, <3>2, EndFits
    <3>4. Fits(thread'[t], page'[t], session'[t], shown'[t], requests'[t], replies'[t])
      BY <1>2, <2>1, <2>2, <3>2, <3>3 DEF server
    <3> QED BY <2>1, <3>1, <3>4 DEF Good, ListedInPlace, server
  <2> QED BY <2>1, <2>3, <2>4, <2>5 DEF StepOf, bridge
<1> QED BY <1>1, <1>2 DEF TakeEnd

LEMMA OpenStep ==
  ASSUME SessionInv, NEW t \in Terminals, OpenTab(t)
  PROVE  StepOf(t)
<1>1. /\ WireTypes /\ UNCHANGED <<listed, alive, orders>> /\ page[t] = "closed"
      /\ thread[t] \in {"closed", "ended"}
  BY DEF SessionInv, OpenTab, Connected
<1>2. /\ page' \in [Terminals -> PageNames] /\ thread' \in [Terminals -> ThreadStates]
      /\ \/ page'[t] = "landing" /\ thread'[t] = "hello" /\ Inherit(t)
         \/ page'[t] = "closed" /\ thread'[t] = thread[t] /\ recycled' = recycled
      /\ \A u \in Terminals \ {t} : page'[u] = page[u] /\ thread'[u] = thread[u]
  <2>1. page \in [Terminals -> PageNames] /\ thread \in [Terminals -> ThreadStates]
    BY <1>1 DEF WireTypes
  <2>2. CASE /\ page' = [page EXCEPT ![t] = "landing"] /\ thread' = [thread EXCEPT ![t] = "hello"]
             /\ Inherit(t)
    <3>1. "landing" \in PageNames /\ "hello" \in ThreadStates
      BY DEF PageNames, Lobby, ThreadStates
    <3> QED BY <2>1, <2>2, <3>1
  <2>3. CASE UNCHANGED <<page, thread, recycled>>
    BY <1>1, <2>1, <2>3
  <2> QED BY <2>2, <2>3 DEF OpenTab
<1>3. /\ shown' \in [Terminals -> Orders] /\ session' \in [Terminals -> Orders]
      /\ shown'[t] = 0 /\ session'[t] = 0
      /\ \A u \in Terminals \ {t} : shown'[u] = shown[u] /\ session'[u] = session[u]
  BY <1>1, NoOrder DEF WireTypes, OpenTab
<1>4. /\ requests' \in [Terminals -> Seq(Requests)] /\ replies' \in [Terminals -> Seq(Answer)]
      /\ requests'[t] = <<>> /\ replies'[t] = <<>>
      /\ \A u \in Terminals \ {t} : requests'[u] = requests[u] /\ replies'[u] = replies[u]
  <2>1. <<>> \in Seq(Answer) /\ <<>> \in Seq(Requests)
    OBVIOUS
  <2> QED BY <1>1, <2>1 DEF WireTypes, OpenTab
<1>5. WireTypes'
  BY <1>1, <1>2, <1>3, <1>4 DEF WireTypes
<1>6. \A u \in Terminals \ {t} : Untouched(u)
  BY <1>1, <1>2, <1>3, <1>4 DEF Untouched
<1>7. recycled \subseteq recycled'
  BY <1>2 DEF Inherit
<1>8. ASSUME t \notin recycled' PROVE Good(t)'
  <2>1. t \notin recycled
    BY <1>7, <1>8
  <2>2. Good(t)
    BY <2>1 DEF SessionInv
  <2>3. ListedInPlace(t)'
    <3>1. CASE thread'[t] = "hello" /\ Inherit(t)
      BY <1>1, <1>8, <3>1 DEF ListedInPlace, Inherit
    <3>2. CASE thread'[t] = thread[t]
      BY <1>1, <2>2, <3>2 DEF Good, ListedInPlace
    <3> QED BY <1>2, <3>1, <3>2
  <2>4. Fits(thread'[t], page'[t], session'[t], shown'[t], requests'[t], replies'[t])
    <3>1. "landing" \notin Waiting
      BY WaitingPages DEF GuestWaits, AdminPages, AdminLists, AdminChanges
    <3> QED BY <1>2, <1>3, <1>4, <3>1 DEF Fits, InPlace, InTurn, Lobby
  <2> QED BY <2>3, <2>4 DEF Good
<1> QED BY <1>5, <1>6, <1>7, <1>8 DEF StepOf
-----------------------------------------------------------------------------
\* What is sent to whom.
LEMMA SentTo ==
  ASSUME WireTypes, NEW t \in Terminals, NEW answers \in Seq(Answer), NEW updates \in BOOLEAN,
         Sent(t, answers, updates)
  PROVE  /\ replies' \in [Terminals -> Seq(Answer)]
         /\ \A u \in Terminals \ {t} :
              \/ replies'[u] = replies[u]
              \/ u \in listed /\ Connected(u) /\ replies'[u] = Append(replies[u], Update)
         /\ page[t] # "closed" /\ t \notin listed => replies'[t] = replies[t] \o answers
<1> DEFINE told == {u \in listed : updates /\ Connected(u) /\ Len(replies[u]) < MaxWire}
           base(u) == IF u \in told THEN Append(replies[u], Update) ELSE replies[u]
           tail(u) == IF u = t /\ page[t] # "closed" THEN answers ELSE <<>>
<1>1. replies' = [u \in Terminals |-> base(u) \o tail(u)]
  BY DEF Sent
<1>2. ASSUME NEW u \in Terminals PROVE base(u) \in Seq(Answer) /\ tail(u) \in Seq(Answer)
  <2>1. replies[u] \in Seq(Answer)
    BY DEF WireTypes
  <2>2. Append(replies[u], Update) \in Seq(Answer)
    BY <2>1, UpdateAnswers
  <2>3. <<>> \in Seq(Answer)
    OBVIOUS
  <2> QED BY <2>1, <2>2, <2>3
<1>3. \A u \in Terminals : base(u) \o tail(u) \in Seq(Answer)
  <2> HIDE DEF base, tail
  <2> QED BY <1>2
<1>4. ASSUME NEW u \in Terminals \ {t} PROVE replies'[u] = base(u)
  <2>1. tail(u) = <<>> /\ base(u) \in Seq(Answer)
    BY <1>2, <1>4
  <2> HIDE DEF base, tail
  <2>2. base(u) \o <<>> = base(u)
    BY <2>1
  <2> QED BY <1>1, <1>4, <2>1, <2>2
<1>5. ASSUME page[t] # "closed", t \notin listed PROVE replies'[t] = replies[t] \o answers
  BY <1>1, <1>5
<1>6. replies' \in [Terminals -> Seq(Answer)]
  <2> HIDE DEF base, tail
  <2> QED BY <1>1, <1>3
<1> QED BY <1>4, <1>5, <1>6

\* The answers are one or none.
LEMMA AnswerSent ==
  ASSUME WireTypes, NEW t \in Terminals, NEW a \in Answer, NEW updates \in BOOLEAN, Sent(t, <<a>>, updates)
  PROVE  /\ replies' \in [Terminals -> Seq(Answer)]
         /\ \A u \in Terminals \ {t} :
              \/ replies'[u] = replies[u]
              \/ u \in listed /\ Connected(u) /\ replies'[u] = Append(replies[u], Update)
         /\ page[t] # "closed" /\ t \notin listed /\ replies[t] = <<>> => replies'[t] = <<a>>
<1>1. <<a>> \in Seq(Answer) /\ <<>> \o <<a>> = <<a>>
  OBVIOUS
<1> QED BY <1>1, SentTo

LEMMA NothingSent ==
  ASSUME WireTypes, NEW t \in Terminals, NEW updates \in BOOLEAN, Sent(t, <<>>, updates)
  PROVE  /\ replies' \in [Terminals -> Seq(Answer)]
         /\ \A u \in Terminals \ {t} :
              \/ replies'[u] = replies[u]
              \/ u \in listed /\ Connected(u) /\ replies'[u] = Append(replies[u], Update)
<1>1. <<>> \in Seq(Answer)
  OBVIOUS
<1> QED BY <1>1, SentTo

\* A thread serves a request: what its handler does to its terminal.  The page is
\* closed, or a chef's, or gets the answer of what it asked.
Handled(t, request) ==
  /\ replies' \in [Terminals -> Seq(Answer)]
  /\ \A u \in Terminals \ {t} :
       \/ replies'[u] = replies[u]
       \/ u \in listed /\ Connected(u) /\ replies'[u] = Append(replies[u], Update)
  /\ thread' \in [Terminals -> ThreadStates]
  /\ session' \in [Terminals -> Orders] /\ orders' \in Orders
  /\ \A u \in Terminals \ {t} : thread'[u] = thread[u] /\ session'[u] = session[u]
  /\ \A u \in Terminals \ {t} : u \in listed' <=> u \in listed
  /\ alive' = alive
  /\ t \notin recycled =>
       /\ t \in listed' => thread'[t] \in {"CHEF", "ended"}
       /\ session'[t] # 0 => thread'[t] = "GUEST"
       /\ page[t] = "chef_dashboard" => thread'[t] \in {"CHEF", "ended"}
       /\ page[t] \in Waiting => Fits(thread'[t], page[t], session'[t], shown[t], <<>>, replies'[t])

\* What is known of a terminal whose request is served.
Serving(t, request) ==
  /\ SessionInv /\ request \in Requests
  /\ t \notin recycled =>
       /\ Good(t)
       /\ page[t] \in Waiting =>
            /\ Asked(thread[t], page[t], session[t], requests[t], replies[t]) /\ replies[t] = <<>>
            /\ request = Await(page[t]).request
            /\ t \notin listed /\ thread[t] # "CHEF"

LEMMA HelloHandled ==
  ASSUME NEW t \in Terminals, NEW request, Serving(t, request), Hello(t, request)
  PROVE  Handled(t, request)
<1> DEFINE Threads == ThreadStates
<1>1. WireTypes /\ request \in Requests /\ thread[t] = "hello" /\ UNCHANGED <<session, alive, orders>>
  BY DEF Serving, SessionInv, Hello
<1>2. PICK th2 \in Threads, status \in Statuses :
        /\ thread' = [thread EXCEPT ![t] = th2] /\ Sent(t, <<Reply(request, status, 0)>>, FALSE)
        /\ listed' = IF th2 = "CHEF" THEN listed \cup {t} ELSE listed
        /\ \/ request = "AUTH_GUEST" /\ th2 = "GUEST" /\ status = "OK"
           \/ request = "AUTH_ADMIN" /\ th2 = "ADMIN" /\ status = "OK"
           \/ request = "AUTH_CHEF" /\ th2 = "CHEF" /\ status = "OK"
           \/ request \in {"AUTH_ADMIN", "AUTH_CHEF"} /\ th2 = "ended" /\ status = "ERROR"
  BY DEF Hello, Statuses, ThreadStates
<1>3. /\ thread' \in [Terminals -> Threads] /\ thread'[t] = th2
      /\ \A u \in Terminals \ {t} : thread'[u] = thread[u]
  BY <1>1, <1>2 DEF WireTypes
<1> DEFINE a == Reply(request, status, 0)
<1>4. a \in Answer /\ a.to = request /\ a.status = status
  BY <1>1, ReplyAnswers, NoOrder
<1>5. /\ replies' \in [Terminals -> Seq(Answer)]
      /\ \A u \in Terminals \ {t} :
           \/ replies'[u] = replies[u]
           \/ u \in listed /\ Connected(u) /\ replies'[u] = Append(replies[u], Update)
      /\ page[t] # "closed" /\ t \notin listed /\ replies[t] = <<>> => replies'[t] = <<a>>
  <2> HIDE DEF a
  <2>1. Sent(t, <<a>>, FALSE)
    BY <1>2 DEF a
  <2> QED BY <1>1, <1>4, <2>1, AnswerSent
<1>6. session' \in [Terminals -> Orders] /\ orders' \in Orders
      /\ \A u \in Terminals \ {t} : session'[u] = session[u] /\ (u \in listed' <=> u \in listed)
  BY <1>1, <1>2 DEF WireTypes
<1>7. ASSUME t \notin recycled
      PROVE  /\ t \in listed' => thread'[t] \in {"CHEF", "ended"}
             /\ session'[t] # 0 => thread'[t] = "GUEST"
             /\ page[t] = "chef_dashboard" => thread'[t] \in {"CHEF", "ended"}
             /\ page[t] \in Waiting => Fits(thread'[t], page[t], session'[t], shown[t], <<>>, replies'[t])
  <2>1. Good(t) /\ session[t] = 0 /\ t \notin listed
    BY <1>1, <1>7 DEF Serving, Good, Fits, ListedInPlace
  <2>2. page[t] # "chef_dashboard"
    BY <1>1, <2>1, DashboardFits DEF Good
  <2>3. ASSUME page[t] \in Waiting
        PROVE  Fits(thread'[t], page[t], session'[t], shown[t], <<>>, replies'[t])
    <3>1. page[t] # "closed"
      BY <2>3, WaitingPages DEF GuestWaits, AdminPages, AdminLists, AdminChanges
    <3>2. /\ Asked("hello", page[t], 0, requests[t], <<>>) /\ replies[t] = <<>>
          /\ request = Await(page[t]).request
          /\ Fits("hello", page[t], 0, shown[t], requests[t], <<>>)
      BY <1>1, <1>7, <2>1, <2>3 DEF Serving, Good
    <3>3. replies'[t] = <<a>>
      BY <1>5, <2>1, <3>1, <3>2
    <3> HIDE DEF a
    <3>4. Fits(th2, page[t], 0, shown[t], <<>>, <<a>>)
      BY <1>2, <1>4, <2>3, <3>2, HelloFits
    <3> QED BY <1>1, <1>3, <2>1, <3>3, <3>4
  <2> QED BY <1>1, <1>2, <1>3, <2>1, <2>2, <2>3
<1> QED BY <1>1, <1>3, <1>5, <1>6, <1>7 DEF Handled

\* The order of a table that is booked now.
LEMMA BookedOrder == ASSUME WireTypes, NEW t, NEW request, Books(t, request) PROVE orders + 1 \in Orders
BY TerminalsAssumption DEF WireTypes, Orders, Books

LEMMA GuestHandled ==
  ASSUME NEW t \in Terminals, NEW request, Serving(t, request), ServeGuest(t, request)
  PROVE  Handled(t, request)
<1>1. WireTypes /\ request \in Requests /\ thread[t] = "GUEST" /\ UNCHANGED <<thread, listed, alive>>
  BY DEF Serving, SessionInv, ServeGuest
<1>2. PICK status \in Statuses, order \in Orders, updates \in BOOLEAN :
        /\ Sent(t, <<Reply(request, status, order)>>, updates)
        /\ \/ /\ request = "BOOK_TABLE" /\ status = "OK" /\ order = orders + 1
              /\ orders' = order /\ session' = [session EXCEPT ![t] = order]
           \/ /\ request \in GuestReads \cup {"ORDER_ITEM", "GENERATE_BILL"} \/ status = "ERROR"
              /\ UNCHANGED <<session, orders>>
  <2>1. ASSUME NEW statuses \in SUBSET Statuses, NEW answers \in Answers(request, statuses, 0)
        PROVE  \E status \in statuses : answers = <<Reply(request, status, 0)>>
    BY <2>1 DEF Answers
  <2>2. {"OK", "ERROR"} \in SUBSET Statuses /\ "OK" \in Statuses /\ "ERROR" \in Statuses
    BY DEF Statuses
  <2>3. 0 \in Orders
    BY NoOrder
  <2>4. CASE /\ Books(t, request) /\ orders' = orders + 1 /\ session' = [session EXCEPT ![t] = orders + 1]
             /\ Sent(t, <<Reply(request, "OK", orders + 1)>>, FALSE)
    <3>1. orders + 1 \in Orders
      BY <1>1, <2>4, BookedOrder
    <3> QED BY <2>2, <2>4, <3>1 DEF Books
  <2>5. ASSUME NEW answers \in Answers(request, {"OK", "ERROR"}, 0), NEW updates \in BOOLEAN,
               Sent(t, answers, updates), request \in GuestReads \cup {"ORDER_ITEM", "GENERATE_BILL"},
               UNCHANGED <<session, orders>>
        PROVE  \E status \in Statuses : /\ Sent(t, <<Reply(request, status, 0)>>, updates)
                                        /\ request \in GuestReads \cup {"ORDER_ITEM", "GENERATE_BILL"}
                                        /\ UNCHANGED <<session, orders>>
    <3>1. PICK status \in {"OK", "ERROR"} : answers = <<Reply(request, status, 0)>>
      BY <2>1, <2>2
    <3> QED BY <2>2, <2>5, <3>1
  <2>6. CASE /\ request \in GuestReads /\ UNCHANGED <<session, orders>>
             /\ \E answers \in Answers(request, {"OK", "ERROR"}, 0) : Sent(t, answers, FALSE)
    BY <2>3, <2>5, <2>6
  <2>7. CASE /\ request \in {"ORDER_ITEM", "GENERATE_BILL"} /\ UNCHANGED <<session, orders>>
             /\ \E answers \in Answers(request, {"OK", "ERROR"}, 0), updates \in BOOLEAN :
                  Sent(t, answers, updates)
    BY <2>3, <2>5, <2>7
  <2>8. CASE Sent(t, <<Reply(request, "ERROR", 0)>>, FALSE) /\ UNCHANGED <<session, orders>>
    BY <2>2, <2>3, <2>8
  <2> QED BY <2>4, <2>6, <2>7, <2>8 DEF ServeGuest
<1> DEFINE a == Reply(request, status, order)
<1>3. a \in Answer /\ a.to = request /\ a.status = status /\ a.order = order
  BY <1>1, ReplyAnswers
<1>4. /\ session' \in [Terminals -> Orders] /\ orders' \in Orders
      /\ \A u \in Terminals \ {t} : session'[u] = session[u]
      /\ \/ request = "BOOK_TABLE" /\ status = "OK" /\ order # 0 /\ session'[t] = order
         \/ /\ request \in GuestReads \cup {"ORDER_ITEM", "GENERATE_BILL"} \/ status = "ERROR"
            /\ session'[t] = session[t]
  <2>1. orders + 1 # 0
    BY <1>1, NoOrder DEF WireTypes
  <2> QED BY <1>1, <1>2, <2>1, NoOrder DEF WireTypes
<1>5. /\ replies' \in [Terminals -> Seq(Answer)]
      /\ \A u \in Terminals \ {t} :
           \/ replies'[u] = replies[u]
           \/ u \in listed /\ Connected(u) /\ replies'[u] = Append(replies[u], Update)
      /\ page[t] # "closed" /\ t \notin listed /\ replies[t] = <<>> => replies'[t] = <<a>>
  <2> HIDE DEF a
  <2>1. Sent(t, <<a>>, updates)
    BY <1>2 DEF a
  <2> QED BY <1>1, <1>3, <2>1, AnswerSent
<1>6. ASSUME t \notin recycled
      PROVE  /\ t \in listed' => thread'[t] \in {"CHEF", "ended"}
             /\ session'[t] # 0 => thread'[t] = "GUEST"
             /\ page[t] = "chef_dashboard" => thread'[t] \in {"CHEF", "ended"}
             /\ page[t] \in Waiting => Fits(thread'[t], page[t], session'[t], shown[t], <<>>, replies'[t])
  <2>1. Good(t) /\ t \notin listed
    BY <1>1, <1>6 DEF Serving, Good, ListedInPlace
  <2>2. page[t] # "chef_dashboard"
    BY <1>1, <2>1, DashboardFits DEF Good
  <2>3. ASSUME page[t] \in Waiting
        PROVE  Fits(thread'[t], page[t], session'[t], shown[t], <<>>, replies'[t])
    <3>1. page[t] # "closed"
      BY <2>3, WaitingPages DEF GuestWaits, AdminPages, AdminLists, AdminChanges
    <3>2. /\ Asked("GUEST", page[t], session[t], requests[t], <<>>) /\ replies[t] = <<>>
          /\ request = Await(page[t]).request
          /\ Fits("GUEST", page[t], session[t], shown[t], requests[t], <<>>)
      BY <1>1, <1>6, <2>1, <2>3 DEF Serving, Good
    <3>3. replies'[t] = <<a>>
      BY <1>5, <2>1, <3>1, <3>2
    <3> HIDE DEF a
    <3>4. Fits("GUEST", page[t], session'[t], shown[t], <<>>, <<a>>)
      BY <1>3, <1>4, <2>3, <3>2, GuestFits
    <3> QED BY <1>1, <3>3, <3>4
  <2> QED BY <1>1, <2>1, <2>2, <2>3
<1> QED BY <1>1, <1>4, <1>5, <1>6 DEF Handled, WireTypes

LEMMA AdminHandled ==
  ASSUME NEW t \in Terminals, NEW request, Serving(t, request), ServeAdmin(t, request)
  PROVE  Handled(t, request)
<1>1. WireTypes /\ request \in Requests /\ thread[t] = "ADMIN" /\ UNCHANGED server
  BY DEF Serving, SessionInv, ServeAdmin
<1>2. \/ replies' = replies
      \/ \E status \in Statuses, updates \in BOOLEAN : Sent(t, <<Reply(request, status, 0)>>, updates)
  <2>1. ASSUME NEW answers \in Answers(request, {"OK", "ERROR"}, 0), NEW updates \in BOOLEAN,
               Sent(t, answers, updates)
        PROVE  \E status \in Statuses : Sent(t, <<Reply(request, status, 0)>>, updates)
    BY <2>1 DEF Answers, Statuses
  <2>2. ASSUME NEW answers \in Answers(request, {"OK", "ERROR"}, 0),
               NEW updates \in {FALSE, request = "DELETE_ORDER"}, Sent(t, answers, updates)
        PROVE  \E status \in Statuses, u \in BOOLEAN : Sent(t, <<Reply(request, status, 0)>>, u)
    <3>1. updates \in BOOLEAN
      OBVIOUS
    <3> QED BY <2>1, <2>2, <3>1
  <2> QED BY <2>2 DEF ServeAdmin
<1>3. /\ replies' \in [Terminals -> Seq(Answer)]
      /\ \A u \in Terminals \ {t} :
           \/ replies'[u] = replies[u]
           \/ u \in listed /\ Connected(u) /\ replies'[u] = Append(replies[u], Update)
      /\ page[t] # "closed" /\ t \notin listed /\ replies[t] = <<>> =>
           replies'[t] = <<>> \/ \E a \in Answer : a.to = request /\ replies'[t] = <<a>>
  <2>1. CASE replies' = replies
    BY <1>1, <2>1 DEF WireTypes
  <2>2. ASSUME NEW status \in Statuses, NEW updates \in BOOLEAN, Sent(t, <<Reply(request, status, 0)>>, updates)
        PROVE  /\ replies' \in [Terminals -> Seq(Answer)]
               /\ \A u \in Terminals \ {t} :
                    \/ replies'[u] = replies[u]
                    \/ u \in listed /\ Connected(u) /\ replies'[u] = Append(replies[u], Update)
               /\ page[t] # "closed" /\ t \notin listed /\ replies[t] = <<>> =>
                    \E a \in Answer : a.to = request /\ replies'[t] = <<a>>
    <3> DEFINE a == Reply(request, status, 0)
    <3>1. a \in Answer /\ a.to = request
      BY <1>1, ReplyAnswers, NoOrder
    <3> HIDE DEF a
    <3>2. Sent(t, <<a>>, updates)
      BY <2>2 DEF a
    <3> QED BY <1>1, <3>1, <3>2, AnswerSent
  <2> QED BY <1>2, <2>1, <2>2
<1>4. ASSUME t \notin recycled
      PROVE  /\ t \in listed => FALSE
             /\ session[t] # 0 => FALSE
             /\ page[t] # "chef_dashboard"
             /\ page[t] \in Waiting => Fits("ADMIN", page[t], session[t], shown[t], <<>>, replies'[t])
  <2>1. Good(t) /\ t \notin listed /\ session[t] = 0
    BY <1>1, <1>4 DEF Serving, Good, ListedInPlace, Fits
  <2>2. page[t] # "chef_dashboard"
    BY <1>1, <2>1, DashboardFits DEF Good
  <2>3. ASSUME page[t] \in Waiting
        PROVE  Fits("ADMIN", page[t], session[t], shown[t], <<>>, replies'[t])
    <3>1. page[t] # "closed"
      BY <2>3, WaitingPages DEF GuestWaits, AdminPages, AdminLists, AdminChanges
    <3>2. /\ Asked("ADMIN", page[t], session[t], requests[t], <<>>) /\ replies[t] = <<>>
          /\ request = Await(page[t]).request
          /\ Fits("ADMIN", page[t], session[t], shown[t], requests[t], <<>>)
      BY <1>1, <1>4, <2>1, <2>3 DEF Serving, Good
    <3>3. replies'[t] = <<>> \/ \E a \in Answer : a.to = request /\ replies'[t] = <<a>>
      BY <1>3, <2>1, <3>1, <3>2
    <3> QED BY <2>3, <3>2, <3>3, AdminFits
  <2> QED BY <2>1, <2>2, <2>3
<1>5. /\ thread' \in [Terminals -> ThreadStates] /\ thread'[t] = "ADMIN"
      /\ session' \in [Terminals -> Orders] /\ orders' \in Orders
      /\ UNCHANGED <<session, thread, listed, alive>>
  BY <1>1 DEF WireTypes, server
<1> QED BY <1>3, <1>4, <1>5 DEF Handled

LEMMA ChefHandled ==
  ASSUME NEW t \in Terminals, NEW request, Serving(t, request), ServeChef(t, request)
  PROVE  Handled(t, request)
<1>1. WireTypes /\ request \in Requests /\ thread[t] = "CHEF" /\ UNCHANGED server
  BY DEF Serving, SessionInv, ServeChef
<1>2. /\ replies' \in [Terminals -> Seq(Answer)]
      /\ \A u \in Terminals \ {t} :
           \/ replies'[u] = replies[u]
           \/ u \in listed /\ Connected(u) /\ replies'[u] = Append(replies[u], Update)
  <2>1. CASE UNCHANGED replies
    BY <1>1, <2>1 DEF WireTypes
  <2>2. CASE Sent(t, <<>>, TRUE)
    BY <1>1, <2>2, NothingSent
  <2>3. CASE Sent(t, <<Reply(request, "OK", 0)>>, FALSE)
    <3> DEFINE a == Reply(request, "OK", 0)
    <3>1. "OK" \in Statuses
      BY DEF Statuses
    <3>2. a \in Answer
      BY <1>1, <3>1, ReplyAnswers, NoOrder
    <3> HIDE DEF a
    <3>3. Sent(t, <<a>>, FALSE)
      BY <2>3 DEF a
    <3> QED BY <1>1, <3>2, <3>3, AnswerSent
  <2> QED BY <2>1, <2>2, <2>3 DEF ServeChef
<1>3. ASSUME t \notin recycled PROVE page[t] \notin Waiting /\ session[t] = 0
  BY <1>1, <1>3 DEF Serving, Good, Fits
<1>4. /\ thread' \in [Terminals -> ThreadStates] /\ thread'[t] = "CHEF"
      /\ session' \in [Terminals -> Orders] /\ orders' \in Orders
      /\ UNCHANGED <<session, thread, listed, alive>>
  BY <1>1 DEF WireTypes, server
<1> QED BY <1>2, <1>3, <1>4 DEF Handled
LEMMA ServeStep ==
  ASSUME SessionInv, NEW t \in Terminals, Serve(t)
  PROVE  StepOf(t)
<1> DEFINE request == Head(requests[t])
<1>1. WireTypes /\ requests[t] # <<>> /\ UNCHANGED <<bridge, page, shown>>
  BY DEF SessionInv, Serve
<1>2. PICK n \in 1 .. Len(requests[t]) : requests' = [requests EXCEPT ![t] = SubSeq(@, n + 1, Len(@))]
  BY DEF Serve
<1>3. requests[t] \in Seq(Requests) /\ request \in Requests
  BY <1>1 DEF WireTypes
<1>4. /\ requests' \in [Terminals -> Seq(Requests)]
      /\ requests'[t] = SubSeq(requests[t], n + 1, Len(requests[t]))
      /\ \A u \in Terminals \ {t} : requests'[u] = requests[u]
  <2>1. SubSeq(requests[t], n + 1, Len(requests[t])) \in Seq(Requests)
    BY <1>3, OneTaken
  <2> QED BY <1>1, <1>2, <2>1 DEF WireTypes
<1>5. ASSUME t \notin recycled, page[t] \in Waiting
      PROVE  /\ Asked(thread[t], page[t], session[t], requests[t], replies[t]) /\ replies[t] = <<>>
             /\ request = Await(page[t]).request /\ requests'[t] = <<>>
             /\ t \notin listed /\ thread[t] # "CHEF"
  <2>1. Good(t)
    BY <1>5 DEF SessionInv
  <2>2. page[t] \notin {"closed", "chef_dashboard"}
    BY <1>5, WaitingPages DEF GuestWaits, AdminPages, AdminLists, AdminChanges
  <2>3. Asked(thread[t], page[t], session[t], requests[t], replies[t]) /\ thread[t] # "CHEF"
    BY <1>1, <2>1, <2>2, ServedAlone DEF Good
  <2>4. requests[t] = <<Await(page[t]).request>> /\ replies[t] = <<>> /\ thread[t] # "ended"
    BY <2>3 DEF Asked
  <2>5. requests'[t] = <<>>
    BY <1>3, <1>4, <2>4, OneTaken
  <2> QED BY <2>1, <2>3, <2>4, <2>5 DEF Good, ListedInPlace
<1>6. Serving(t, request)
  BY <1>3, <1>5 DEF Serving, SessionInv
<1>7. Handled(t, request)
  <2> HIDE DEF request
  <2>1. Hello(t, request) \/ ServeGuest(t, request) \/ ServeAdmin(t, request) \/ ServeChef(t, request)
    BY DEF Serve, request
  <2> QED BY <1>6, <2>1, HelloHandled, GuestHandled, AdminHandled, ChefHandled
<1>8. WireTypes'
  BY <1>1, <1>4, <1>7 DEF WireTypes, Handled
<1>9. \A u \in Terminals \ {t} : Untouched(u)
  BY <1>1, <1>4, <1>7 DEF Untouched, Handled
<1>10. t \notin recycled' => Good(t)'
  <2> SUFFICES ASSUME t \notin recycled PROVE Good(t)'
    BY <1>1 DEF bridge
  <2>1. Good(t) /\ page'[t] = page[t] /\ shown'[t] = shown[t]
    BY <1>1 DEF SessionInv
  <2>2. ListedInPlace(t)' /\ (session'[t] # 0 => thread'[t] = "GUEST")
    BY <1>7 DEF Handled, ListedInPlace
  <2>3. Fits(thread'[t], page[t], session'[t], shown[t], requests'[t], replies'[t])
    <3>1. CASE page[t] = "closed"
      BY <2>2, <3>1, ClosedFits
    <3>2. CASE page[t] = "chef_dashboard"
      <4>1. thread'[t] \in {"CHEF", "ended"}
        BY <1>7, <3>2 DEF Handled
      <4> QED BY <2>2, <3>2, <4>1, DashboardFits
    <3>3. CASE page[t] \in Waiting
      BY <1>5, <1>7, <3>3 DEF Handled
    <3>4. CASE page[t] \notin Waiting \cup {"closed", "chef_dashboard"}
      BY <1>1, <2>1, <3>4 DEF Good, Fits, InTurn
    <3> QED BY <3>1, <3>2, <3>3, <3>4
  <2> QED BY <2>1, <2>2, <2>3 DEF Good
<1> QED BY <1>1, <1>8, <1>9, <1>10 DEF StepOf, bridge

LEMMA EndOfInputStep ==
  ASSUME SessionInv, NEW t \in Terminals, EndOfInput(t)
  PROVE  StepOf(t)
<1>1. /\ WireTypes /\ page[t] = "closed" /\ UNCHANGED <<bridge, page, shown, requests, listed, alive, orders>>
      /\ Connected(t) /\ thread' = [thread EXCEPT ![t] = Left(t)] /\ session' = [session EXCEPT ![t] = 0]
  BY DEF SessionInv, EndOfInput
<1>2. /\ replies' \in [Terminals -> Seq(Answer)]
      /\ \A u \in Terminals \ {t} :
           \/ replies'[u] = replies[u]
           \/ u \in listed /\ Connected(u) /\ replies'[u] = Append(replies[u], Update)
  <2>1. PICK updates \in {FALSE, session[t] # 0} : Sent(t, <<>>, updates)
    BY DEF EndOfInput
  <2>2. updates \in BOOLEAN
    OBVIOUS
  <2> QED BY <1>1, <2>1, <2>2, NothingSent
<1>3. /\ thread' \in [Terminals -> ThreadStates] /\ thread'[t] = Left(t)
      /\ session' \in [Terminals -> Orders] /\ session'[t] = 0
      /\ \A u \in Terminals \ {t} : thread'[u] = thread[u] /\ session'[u] = session[u]
  <2>1. Left(t) \in ThreadStates
    BY DEF Left, ThreadStates
  <2> QED BY <1>1, <2>1, NoOrder DEF WireTypes
<1>4. WireTypes'
  BY <1>1, <1>2, <1>3 DEF WireTypes
<1>5. \A u \in Terminals \ {t} : Untouched(u)
  BY <1>1, <1>2, <1>3 DEF Untouched
<1>6. ASSUME t \notin recycled' PROVE Good(t)'
  <2>1. Fits(thread'[t], page'[t], session'[t], shown'[t], requests'[t], replies'[t])
    BY <1>1, <1>3, ClosedFits
  <2>2. Good(t)
    BY <1>1, <1>6 DEF SessionInv, bridge
  <2>3. t \in listed => thread'[t] = "ended"
    BY <1>1, <1>3, <2>2 DEF Good, ListedInPlace, Connected, Left
  <2> QED BY <1>1, <2>1, <2>3 DEF Good, ListedInPlace
<1> QED BY <1>1, <1>4, <1>5, <1>6 DEF StepOf, bridge

LEMMA LastCloseStep ==
  ASSUME SessionInv, NEW t \in Terminals, LastClose(t)
  PROVE  StepOf(t)
<1>1. /\ WireTypes /\ thread[t] = "closed" /\ thread' = [thread EXCEPT ![t] = "ended"]
      /\ UNCHANGED <<bridge, page, shown, requests, replies, session, listed, alive, orders>>
  BY DEF SessionInv, LastClose
<1>2. /\ thread' \in [Terminals -> ThreadStates] /\ thread'[t] = "ended"
      /\ \A u \in Terminals \ {t} : thread'[u] = thread[u]
  BY <1>1 DEF WireTypes, ThreadStates
<1>3. WireTypes'
  BY <1>1, <1>2 DEF WireTypes
<1>4. \A u \in Terminals \ {t} : Untouched(u)
  BY <1>1, <1>2 DEF Untouched
<1>5. ASSUME t \notin recycled' PROVE Good(t)'
  <2>1. Good(t)
    BY <1>1, <1>5 DEF SessionInv, bridge
  <2>2. page[t] = "closed" /\ session[t] = 0
    BY <1>1, <2>1 DEF Good, Fits, InPlace
  <2>3. Fits(thread'[t], page'[t], session'[t], shown'[t], requests'[t], replies'[t])
    BY <1>1, <1>2, <2>2, ClosedFits
  <2> QED BY <1>2, <2>3 DEF Good, ListedInPlace
<1> QED BY <1>1, <1>3, <1>4, <1>5 DEF StepOf, bridge

\* What the threads of others do to a terminal is done to one of the exceptions.
LEMMA StrayTypes == ASSUME NEW t, NEW stray \in Strays(t) PROVE stray \in Answer
<1>1. \A status \in Statuses, o \in Orders : Reply("none", status, o) \in Answer
  BY DEF Reply, Answer
<1>2. "OK" \in Statuses /\ "ERROR" \in Statuses /\ 0 \in Orders
  BY NoOrder DEF Statuses
<1> QED BY <1>1, <1>2, UpdateAnswers DEF Strays, Orders

LEMMA StrayStep ==
  ASSUME SessionInv, NEW t \in Terminals, Stray(t)
  PROVE  StepOf(t)
<1>1. WireTypes /\ t \in recycled /\ UNCHANGED <<bridge, page, shown, listed, alive, orders>>
  BY DEF SessionInv, Stray
<1>2. /\ requests' \in [Terminals -> Seq(Requests)] /\ replies' \in [Terminals -> Seq(Answer)]
      /\ thread' \in [Terminals -> ThreadStates] /\ session' \in [Terminals -> Orders]
      /\ \A u \in Terminals \ {t} : /\ requests'[u] = requests[u] /\ replies'[u] = replies[u]
                                    /\ thread'[u] = thread[u] /\ session'[u] = session[u]
  <2>1. /\ requests \in [Terminals -> Seq(Requests)] /\ replies \in [Terminals -> Seq(Answer)]
        /\ thread \in [Terminals -> ThreadStates] /\ session \in [Terminals -> Orders]
        /\ requests[t] \in Seq(Requests) /\ replies[t] \in Seq(Answer)
    BY <1>1 DEF WireTypes
  <2>2. ASSUME NEW stray \in Strays(t), replies' = [replies EXCEPT ![t] = Append(@, stray)]
        PROVE  /\ replies' \in [Terminals -> Seq(Answer)]
               /\ \A u \in Terminals \ {t} : replies'[u] = replies[u]
    <3>1. Append(replies[t], stray) \in Seq(Answer)
      BY <2>1, StrayTypes
    <3> QED BY <2>1, <2>2, <3>1
  <2>3. ASSUME requests[t] # <<>>, requests' = [requests EXCEPT ![t] = Tail(@)]
        PROVE  /\ requests' \in [Terminals -> Seq(Requests)]
               /\ \A u \in Terminals \ {t} : requests'[u] = requests[u]
    <3>1. Tail(requests[t]) \in Seq(Requests)
      BY <2>1, <2>3
    <3> QED BY <2>1, <2>3, <3>1
  <2>4. ASSUME thread' = [thread EXCEPT ![t] = "ended"], session' = [session EXCEPT ![t] = 0],
               requests' = [requests EXCEPT ![t] = <<>>]
        PROVE  /\ requests' \in [Terminals -> Seq(Requests)] /\ thread' \in [Terminals -> ThreadStates]
               /\ session' \in [Terminals -> Orders]
               /\ \A u \in Terminals \ {t} :
                    requests'[u] = requests[u] /\ thread'[u] = thread[u] /\ session'[u] = session[u]
    <3>1. <<>> \in Seq(Requests) /\ "ended" \in ThreadStates
      BY DEF ThreadStates
    <3> QED BY <2>1, <2>4, <3>1, NoOrder
  <2> QED BY <2>1, <2>2, <2>3, <2>4 DEF Stray
<1>3. WireTypes'
  BY <1>1, <1>2 DEF WireTypes
<1>4. \A u \in Terminals \ {t} : Untouched(u)
  BY <1>1, <1>2 DEF Untouched
<1> QED BY <1>1, <1>3, <1>4 DEF StepOf, bridge

\* The server dies: what a page has been sent it can still take.
LEMMA DeadFits ==
  ASSUME NEW th, NEW p, NEW ss, NEW sh, NEW rq, NEW rp, Fits(th, p, ss, sh, rq, rp)
  PROVE  Fits("ended", p, 0, sh, <<>>, rp)
<1>1. InPlace("ended", p, 0, sh)
  BY DEF InPlace
<1>2. CASE p \in {"closed", "chef_dashboard"} \/ p \notin Waiting
  BY <1>1, <1>2 DEF Fits, InTurn
<1>3. CASE p \in Waiting /\ p \notin {"closed", "chef_dashboard"}
  <2>1. CASE Asked(th, p, ss, rq, rp) \/ Lost(th, rq, rp)
    BY <1>1, <1>3, <2>1 DEF Fits, InTurn, Asked, Lost
  <2>2. CASE Answered(th, p, ss, rq, rp)
    <3>1. AnswerFits("ended", p, 0, rp)
      <4>1. CASE th = "CHEF"
        <5>1. p = "chef_auth"
          BY <1>3, <4>1 DEF Fits, InPlace
        <5> QED BY <2>2, <4>1, <5>1 DEF Answered, AnswerFits
      <4>2. CASE th # "CHEF"
        BY <2>2, <4>2 DEF Answered, AnswerFits
      <4> QED BY <4>1, <4>2
    <3>2. Answered("ended", p, 0, <<>>, rp)
      BY <2>2, <3>1 DEF Answered
    <3> QED BY <1>1, <1>3, <3>2 DEF Fits, InTurn
  <2> QED BY <1>3, <2>1, <2>2 DEF Fits, InTurn
<1> QED BY <1>2, <1>3

LEMMA DieStep ==
  ASSUME SessionInv, Die
  PROVE  SessionInv'
<1>1. /\ WireTypes /\ alive' \in BOOLEAN /\ UNCHANGED <<bridge, page, shown, replies, listed, orders>>
      /\ thread' = [t \in Terminals |-> "ended"] /\ session' = [t \in Terminals |-> 0]
      /\ requests' = [t \in Terminals |-> <<>>]
  BY DEF SessionInv, Die
<1>2. WireTypes'
  <2>1. <<>> \in Seq(Requests) /\ "ended" \in ThreadStates
    BY DEF ThreadStates
  <2> QED BY <1>1, <2>1, NoOrder DEF WireTypes
<1>3. ASSUME NEW t \in Terminals \ recycled' PROVE Good(t)'
  <2>1. Good(t)
    BY <1>1, <1>3 DEF SessionInv, bridge
  <2>2. Fits("ended", page[t], 0, shown[t], <<>>, replies[t])
    BY <2>1, DeadFits DEF Good
  <2> QED BY <1>1, <2>2 DEF Good, ListedInPlace
<1> QED BY <1>2, <1>3 DEF SessionInv

LEMMA OthersStep ==
  ASSUME SessionInv, OthersUpdate
  PROVE  SessionInv'
<1>1. WireTypes /\ UNCHANGED <<bridge, page, shown, requests, server>>
  BY DEF SessionInv, OthersUpdate
<1>2. PICK t \in Terminals : Sent(t, <<>>, TRUE)
  BY DEF OthersUpdate
<1>3. replies' \in [Terminals -> Seq(Answer)]
  BY <1>1, <1>2, NothingSent
<1>4. ASSUME NEW u \in Terminals PROVE Untouched(u)
  <2>1. \/ replies'[u] = replies[u]
        \/ u \in listed /\ Connected(u) /\ replies'[u] = Append(replies[u], Update)
    <3> DEFINE told == {v \in listed : TRUE /\ Connected(v) /\ Len(replies[v]) < MaxWire}
               base == IF u \in told THEN Append(replies[u], Update) ELSE replies[u]
    <3>1. replies'[u] = base \o <<>>
      BY <1>2 DEF Sent
    <3>2. base \in Seq(Answer)
      <4>1. replies[u] \in Seq(Answer)
        BY <1>1 DEF WireTypes
      <4>2. Append(replies[u], Update) \in Seq(Answer)
        BY <4>1, UpdateAnswers
      <4> QED BY <4>1, <4>2
    <3>3. replies'[u] = base
      <4> HIDE DEF base
      <4> QED BY <3>1, <3>2
    <3> QED BY <3>3
  <2> QED BY <1>1, <2>1 DEF Untouched, server
<1>5. WireTypes'
  BY <1>1, <1>3 DEF WireTypes, server
<1>6. ASSUME NEW u \in Terminals \ recycled' PROVE Good(u)'
  BY <1>1, <1>4, <1>6, UntouchedGood DEF SessionInv, bridge
<1> QED BY <1>5, <1>6 DEF SessionInv

LEMMA BridgeStep ==
  ASSUME SessionInv, NEW t \in Terminals, CloseTab(t) \/ BreakTab(t) \/ ClientEnded(t) \/ UNCHANGED vars
  PROVE  SessionInv'
<1>1. UNCHANGED <<page, shown, requests, replies, server, recycled>>
  BY DEF CloseTab, BreakTab, ClientEnded, vars, server
<1> QED BY <1>1 DEF SessionInv, WireTypes, Good, ListedInPlace, server

LEMMA SessionInvNext == SessionInv /\ [Next]_vars => SessionInv'
<1> SUFFICES ASSUME SessionInv, [Next]_vars PROVE SessionInv'
  OBVIOUS
<1>1. CASE UNCHANGED vars
  BY <1>1 DEF vars, SessionInv, WireTypes, Good, ListedInPlace
<1>2. CASE OthersUpdate
  BY <1>2, OthersStep
<1>3. ASSUME NEW t \in Terminals, User(t) \/ Client(t) \/ Thread(t) \/ Stray(t) \/ Bridge(t)
      PROVE  SessionInv'
  <2>1. CASE CloseTab(t) \/ BreakTab(t) \/ ClientEnded(t)
    BY <2>1, BridgeStep
  <2>2. CASE Interrupt(t) \/ HangUp(t)
    <3>1. Exit(t) /\ UNCHANGED <<bridge, server>>
      BY <2>2 DEF Interrupt, HangUp
    <3> QED BY <3>1, ExitStep, StepKeeps
  <2>3. CASE OpenTab(t) \/ Choose(t) \/ ChefCommands(t) \/ TakeUpdate(t)
    BY <2>3, OpenStep, ChooseStep, CommandStep, StepKeeps
  <2>4. CASE TakeReply(t) \/ TakeEnd(t)
    BY <2>4, TakeStep, EndStep, StepKeeps
  <2>5. CASE Serve(t) \/ EndOfInput(t) \/ LastClose(t) \/ Stray(t)
    BY <2>5, ServeStep, EndOfInputStep, LastCloseStep, StrayStep, StepKeeps
  <2> QED BY <1>3, <2>1, <2>2, <2>3, <2>4, <2>5 DEF User, Client, Thread, Bridge
<1>4. CASE Die
  BY <1>4, DieStep
<1> QED BY <1>1, <1>2, <1>3, <1>4 DEF Next

LEMMA SessionInvInit == Init => SessionInv
<1> SUFFICES ASSUME Init PROVE SessionInv
  OBVIOUS
<1>1. "closed" \in PageNames
  BY DEF PageNames
<1>2. <<>> \in Seq(Answer) /\ <<>> \in Seq(Requests)
  OBVIOUS
<1>3. WireTypes
  BY <1>1, <1>2, NoOrder DEF Init, WireTypes, ThreadStates
<1>4. ASSUME NEW t \in Terminals PROVE Good(t)
  <2>1. page[t] = "closed" /\ session[t] = 0 /\ t \notin listed
    BY DEF Init
  <2> QED BY <2>1, ClosedFits DEF Good, ListedInPlace
<1> QED BY <1>3, <1>4 DEF SessionInv

\* Whatever a user does, in whatever order the terminals, the threads and the updates
\* of others run, a page never takes for its answer what answers something else.
THEOREM AnswersInTurn == Spec => []OwnAnswer
<1>1. SessionInv => OwnAnswer
  <2> SUFFICES ASSUME SessionInv, NEW t \in Terminals \ recycled, page[t] \in Waiting, replies[t] # <<>>
               PROVE  Head(replies[t]).to = Await(page[t]).request
    BY DEF OwnAnswer
  <2>1. page[t] \notin {"closed", "chef_dashboard"}
    BY WaitingPages DEF GuestWaits, AdminPages, AdminLists, AdminChanges
  <2>2. InTurn(thread[t], page[t], session[t], requests[t], replies[t])
    BY DEF SessionInv, Good, Fits
  <2> QED BY <2>1, <2>2 DEF InTurn, Asked, Lost, Answered
<1> QED BY <1>1, SessionInvInit, SessionInvNext, PTL DEF Spec

\* The page a user sees is one of the role and of the order the server's thread
\* serves on its connection.
THEOREM PagesOfTheSession == Spec => []ServedAsShown
<1>1. SessionInv => ServedAsShown
  <2> SUFFICES ASSUME SessionInv, NEW t \in Terminals \ recycled, Connected(t)
               PROVE  /\ page[t] \in AdminPages \cup {"admin_dashboard"} => thread[t] = "ADMIN"
                      /\ page[t] = "chef_dashboard" => thread[t] = "CHEF"
                      /\ page[t] \in AtTable =>
                           thread[t] = "GUEST" /\ shown[t] # 0 /\ session[t] = shown[t]
    BY DEF ServedAsShown
  <2>1. InPlace(thread[t], page[t], session[t], shown[t])
    BY DEF SessionInv, Good, Fits
  <2> QED BY <2>1 DEF InPlace, Connected, Lobby, LoginPages, BeforeTable, AtTable, AdminPages, AdminLists,
          AdminChanges
<1> QED BY <1>1, SessionInvInit, SessionInvNext, PTL DEF Spec

-----------------------------------------------------------------------------
(***************************************************************************)
(* What is on its way.  A page asks when there is room for its request, or *)
(* right after an answer, and then only from a page whose own request      *)
(* found room; a thread answers when there is room for the answer, and an  *)
(* update that comes first takes its room.                                 *)
(***************************************************************************)
\* The pages that are reached by such a request, and those after them.
AskedAtOnce == {"receipt", "receipt_shown", "chef_dashboard", "closed"}
RoomOf(p) == IF p \in AskedAtOnce THEN MaxWire + 1 ELSE MaxWire
RoomInv ==
  /\ \A t \in Terminals : Len(requests[t]) <= RoomOf(page[t]) /\ Len(replies[t]) <= MaxWire + 1
  /\ mixed \subseteq recycled /\ recycled \subseteq Terminals /\ listed \subseteq Terminals

\* The pages after an answer.
LEMMA NextPage ==
  ASSUME NEW p \in Waiting, NEW q \in {Await(p).ok, Await(p).error}
  PROVE  /\ q \in Waiting \cup {"chef_dashboard"} => q \in AskedAtOnce /\ p \notin AskedAtOnce
         /\ p \in AskedAtOnce => q \in AskedAtOnce
<1>1. Row(p, Await(p).request, Await(p).ok, Await(p).error)
  BY AwaitRow
<1>2. \A request, ok, error : Row(p, request, ok, error) =>
        \A r \in {ok, error} :
          /\ r \in Waiting \cup {"chef_dashboard"} => r \in AskedAtOnce /\ p \notin AskedAtOnce
          /\ p \in AskedAtOnce => r \in AskedAtOnce
  BY WaitingPages DEF Row, AskedAtOnce, GuestWaits, AdminPages, AdminLists, AdminChanges
<1> QED BY <1>1, <1>2

\* Entering a page adds a request at most.
LEMMA EnterRoom ==
  ASSUME WireTypes, NEW t \in Terminals, NEW q \in PageNames, Enter(t, q)
  PROVE  /\ page'[t] = q /\ Len(requests[t]) \in Nat
         /\ Len(requests'[t]) \in {Len(requests[t]), Len(requests[t]) + 1}
         /\ q \notin Waiting \cup {"chef_dashboard"} => Len(requests'[t]) = Len(requests[t])
         /\ \A u \in Terminals \ {t} : page'[u] = page[u] /\ requests'[u] = requests[u]
<1>1. /\ page'[t] = q /\ requests'[t] = Asking(thread[t], q, requests[t])
      /\ \A u \in Terminals \ {t} : page'[u] = page[u] /\ requests'[u] = requests[u]
  BY EnterTo
<1>2. requests[t] \in Seq(Requests)
  BY DEF WireTypes
<1>3. \A r : Len(Append(requests[t], r)) = Len(requests[t]) + 1
  BY <1>2
<1> QED BY <1>1, <1>2, <1>3 DEF Asking

\* What has been taken leaves the connection.
LEMMA Shorter ==
  ASSUME NEW S, NEW s \in Seq(S), NEW n \in 1 .. Len(s)
  PROVE  Len(SubSeq(s, n + 1, Len(s))) <= Len(s)
<1>1. Len(s) \in Nat /\ n \in Nat
  OBVIOUS
<1>2. Len(SubSeq(s, n + 1, Len(s))) = IF n + 1 <= Len(s) THEN Len(s) - (n + 1) + 1 ELSE 0
  OBVIOUS
<1> QED BY <1>1, <1>2

\* What a thread sends finds room.
LEMMA SentRoom ==
  ASSUME WireTypes, \A u \in Terminals : Len(replies[u]) <= MaxWire + 1,
         NEW t \in Terminals, NEW answers, NEW updates \in BOOLEAN, Sent(t, answers, updates),
         answers = <<>> \/ \E a \in Answer : answers = <<a>>,
         answers # <<>> => Len(replies[t]) < MaxWire \/ page[t] = "closed"
  PROVE  \A u \in Terminals : Len(replies'[u]) <= MaxWire + 1
<1> SUFFICES ASSUME NEW u \in Terminals PROVE Len(replies'[u]) <= MaxWire + 1
  OBVIOUS
<1> DEFINE told == {v \in listed : updates /\ Connected(v) /\ Len(replies[v]) < MaxWire}
           base == IF u \in told THEN Append(replies[u], Update) ELSE replies[u]
           tail == IF u = t /\ page[t] # "closed" THEN answers ELSE <<>>
<1>1. replies'[u] = base \o tail
  BY DEF Sent
<1>2. replies[u] \in Seq(Answer) /\ Len(replies[u]) \in Nat /\ Len(replies[u]) <= MaxWire + 1
      /\ MaxWire \in Nat
  BY TerminalsAssumption DEF WireTypes
<1>3. base \in Seq(Answer) /\ Len(base) <= MaxWire + 1
      /\ (Len(replies[u]) < MaxWire => Len(base) <= MaxWire)
  <2>1. Append(replies[u], Update) \in Seq(Answer) /\ Len(Append(replies[u], Update)) = Len(replies[u]) + 1
    BY <1>2, UpdateAnswers
  <2>2. CASE u \in told
    BY <1>2, <2>1, <2>2
  <2>3. CASE u \notin told
    BY <1>2, <2>3
  <2> QED BY <2>2, <2>3
<1>4. /\ tail \in Seq(Answer) /\ (tail = <<>> \/ Len(tail) = 1)
      /\ tail # <<>> => Len(replies[u]) < MaxWire
  <2>1. <<>> \in Seq(Answer)
    OBVIOUS
  <2>2. \A a \in Answer : <<a>> \in Seq(Answer) /\ Len(<<a>>) = 1
    OBVIOUS
  <2>3. answers \in Seq(Answer) /\ (answers = <<>> \/ Len(answers) = 1)
    BY <2>1, <2>2
  <2> QED BY <2>1, <2>3
<1> HIDE DEF base, tail
<1>5. CASE tail = <<>>
  BY <1>1, <1>3, <1>5
<1>6. CASE tail # <<>>
  <2>1. Len(tail) = 1 /\ Len(base) <= MaxWire /\ Len(base) \in Nat
    BY <1>2, <1>3, <1>4, <1>6
  <2>2. Len(base \o tail) = Len(base) + Len(tail)
    BY <1>3, <1>4
  <2> QED BY <1>1, <1>2, <2>1, <2>2
<1> QED BY <1>5, <1>6

\* A handler sends one answer at most, and may tell the chefs.
LEMMA HandlerSends ==
  ASSUME WireTypes, NEW t \in Terminals, NEW request \in Requests,
         Hello(t, request) \/ ServeGuest(t, request) \/ ServeAdmin(t, request) \/ ServeChef(t, request)
  PROVE  /\ \/ replies' = replies
            \/ \E answers, updates : /\ answers = <<>> \/ \E a \in Answer : answers = <<a>>
                                     /\ updates \in BOOLEAN /\ Sent(t, answers, updates)
         /\ listed' \in {listed, listed \cup {t}}
<1> DEFINE Sends == \/ replies' = replies
                    \/ \E answers, updates : /\ answers = <<>> \/ \E a \in Answer : answers = <<a>>
                                             /\ updates \in BOOLEAN /\ Sent(t, answers, updates)
<1>1. "OK" \in Statuses /\ "ERROR" \in Statuses /\ 0 \in Orders
  BY NoOrder DEF Statuses
<1>2. \A status \in {"OK", "ERROR"}, order \in Orders : Reply(request, status, order) \in Answer
  BY <1>1, ReplyAnswers
<1>3. ASSUME NEW status \in {"OK", "ERROR"}, NEW order \in Orders, NEW updates \in BOOLEAN,
             Sent(t, <<Reply(request, status, order)>>, updates)
      PROVE  Sends
  BY <1>2, <1>3
<1>4. ASSUME NEW answers \in Answers(request, {"OK", "ERROR"}, 0), NEW updates \in BOOLEAN,
             Sent(t, answers, updates)
      PROVE  Sends
  BY <1>1, <1>3, <1>4 DEF Answers
<1>5. ASSUME Hello(t, request) PROVE Sends /\ listed' \in {listed, listed \cup {t}}
  <2>1. PICK status \in {"OK", "ERROR"} : Sent(t, <<Reply(request, status, 0)>>, FALSE)
    BY <1>5 DEF Hello
  <2> QED BY <1>1, <1>3, <1>5, <2>1 DEF Hello
<1>6. ASSUME ServeGuest(t, request) PROVE Sends /\ listed' = listed
  <2>1. ASSUME Books(t, request), Sent(t, <<Reply(request, "OK", orders + 1)>>, FALSE) PROVE Sends
    <3>1. orders + 1 \in Orders
      BY <2>1, BookedOrder
    <3> QED BY <1>3, <2>1, <3>1
  <2>2. ASSUME NEW answers \in Answers(request, {"OK", "ERROR"}, 0), Sent(t, answers, FALSE) PROVE Sends
    BY <1>4, <2>2
  <2>3. ASSUME Sent(t, <<Reply(request, "ERROR", 0)>>, FALSE) PROVE Sends
    BY <1>1, <1>3, <2>3
  <2> QED BY <1>4, <1>6, <2>1, <2>2, <2>3 DEF ServeGuest
<1>7. ASSUME ServeAdmin(t, request) PROVE Sends /\ listed' = listed
  <2>1. ASSUME NEW answers \in Answers(request, {"OK", "ERROR"}, 0),
               NEW updates \in {FALSE, request = "DELETE_ORDER"}, Sent(t, answers, updates)
        PROVE  Sends
    <3>1. updates \in BOOLEAN
      OBVIOUS
    <3> QED BY <1>4, <2>1, <3>1
  <2> QED BY <1>7, <2>1 DEF ServeAdmin, server
<1>8. ASSUME ServeChef(t, request) PROVE Sends /\ listed' = listed
  <2>1. ASSUME Sent(t, <<Reply(request, "OK", 0)>>, FALSE) PROVE Sends
    BY <1>1, <1>3, <2>1
  <2>2. ASSUME Sent(t, <<>>, TRUE) PROVE Sends
    BY <2>2
  <2> QED BY <1>8, <2>1, <2>2 DEF ServeChef, server
<1> QED BY <1>5, <1>6, <1>7, <1>8

-----------------------------------------------------------------------------
\* Steps that leave what is on its way alone.
LEMMA RoomKept ==
  ASSUME RoomInv, NEW t \in Terminals, UNCHANGED <<listed, recycled, mixed>>,
         Len(requests'[t]) <= RoomOf(page'[t]) /\ Len(replies'[t]) <= MaxWire + 1,
         \A u \in Terminals \ {t} : page'[u] = page[u] /\ requests'[u] = requests[u] /\ replies'[u] = replies[u]
  PROVE  RoomInv'
<1>1. \A u \in Terminals : Len(requests'[u]) <= RoomOf(page'[u]) /\ Len(replies'[u]) <= MaxWire + 1
  BY DEF RoomInv
<1> QED BY <1>1 DEF RoomInv, RoomOf

LEMMA ClientRoom ==
  ASSUME WireTypes, RoomInv, NEW t \in Terminals,
         Choose(t) \/ ChefCommands(t) \/ Interrupt(t) \/ HangUp(t) \/ Client(t)
  PROVE  RoomInv'
<1>1. UNCHANGED <<listed, recycled, mixed>>
  BY DEF Choose, ChefCommands, Interrupt, HangUp, Client, TakeReply, TakeUpdate, TakeEnd, bridge, server
<1>2. /\ MaxWire \in Nat /\ Len(requests[t]) <= RoomOf(page[t]) /\ Len(replies[t]) <= MaxWire + 1
      /\ requests \in [Terminals -> Seq(Requests)] /\ replies \in [Terminals -> Seq(Answer)]
      /\ requests[t] \in Seq(Requests) /\ replies[t] \in Seq(Answer) /\ Len(requests[t]) \in Nat
  BY TerminalsAssumption DEF RoomInv, WireTypes
<1>3. ASSUME Exit(t) PROVE RoomInv'
  <2>1. "closed" \in PageNames /\ "closed" \notin Waiting \cup {"chef_dashboard"}
    BY WaitingPages DEF PageNames, GuestWaits, AdminPages, AdminLists, AdminChanges
  <2>2. /\ page'[t] = "closed" /\ Len(requests'[t]) = Len(requests[t])
        /\ \A u \in Terminals \ {t} : page'[u] = page[u] /\ requests'[u] = requests[u]
    BY <1>3, <2>1, EnterRoom DEF Exit
  <2>3. replies'[t] = <<>> /\ \A u \in Terminals \ {t} : replies'[u] = replies[u]
    BY <1>2, <1>3 DEF Exit
  <2>4. Len(requests'[t]) <= RoomOf(page'[t]) /\ Len(replies'[t]) <= MaxWire + 1
    BY <1>2, <2>2, <2>3 DEF RoomOf, AskedAtOnce
  <2> QED BY <1>1, <2>2, <2>3, <2>4, RoomKept
<1>4. CASE Choose(t)
  <2>1. ASSUME NEW q \in Pages, <<page[t], q>> \in Choices, Enter(t, q), UNCHANGED replies
        PROVE  RoomInv'
    <3>1. q \in PageNames
      BY <2>1, ChoiceTable DEF PageNames, Lobby, LoginPages, BeforeTable, AtTable
    <3>2. /\ Len(requests'[t]) \in {Len(requests[t]), Len(requests[t]) + 1}
          /\ \A u \in Terminals \ {t} : page'[u] = page[u] /\ requests'[u] = requests[u]
      BY <2>1, <3>1, EnterRoom
    <3>3. Len(requests[t]) < MaxWire
      BY <1>4 DEF Choose
    <3>4. Len(requests'[t]) <= RoomOf(page'[t])
      BY <1>2, <3>2, <3>3 DEF RoomOf
    <3> QED BY <1>1, <1>2, <2>1, <3>2, <3>4, RoomKept
  <2> QED BY <1>3, <1>4, <2>1 DEF Choose
<1>5. CASE ChefCommands(t)
  <2>1. PICK r : requests' = [requests EXCEPT ![t] = Append(@, r)]
    BY <1>5 DEF ChefCommands
  <2>2. requests'[t] = Append(requests[t], r) /\ \A u \in Terminals \ {t} : requests'[u] = requests[u]
    BY <1>2, <2>1
  <2>3. Len(requests'[t]) = Len(requests[t]) + 1
    BY <1>2, <2>2
  <2>4. Len(requests[t]) < MaxWire /\ UNCHANGED <<page, replies>>
    BY <1>5 DEF ChefCommands
  <2>5. Len(requests'[t]) <= RoomOf(page'[t])
    BY <1>2, <2>3, <2>4 DEF RoomOf
  <2> QED BY <1>1, <1>2, <2>2, <2>4, <2>5, RoomKept
<1>6. ASSUME page[t] \in Waiting, NEW q \in {Await(page[t]).ok, Await(page[t]).error}, Enter(t, q)
      PROVE  /\ Len(requests'[t]) <= RoomOf(page'[t])
             /\ \A u \in Terminals \ {t} : page'[u] = page[u] /\ requests'[u] = requests[u]
  <2>1. q \in PageNames
    BY <1>6, AwaitTypes
  <2>2. /\ q \in Waiting \cup {"chef_dashboard"} => q \in AskedAtOnce /\ page[t] \notin AskedAtOnce
        /\ page[t] \in AskedAtOnce => q \in AskedAtOnce
    BY <1>6, NextPage
  <2>3. /\ page'[t] = q
        /\ Len(requests'[t]) \in {Len(requests[t]), Len(requests[t]) + 1}
        /\ q \notin Waiting \cup {"chef_dashboard"} => Len(requests'[t]) = Len(requests[t])
        /\ \A u \in Terminals \ {t} : page'[u] = page[u] /\ requests'[u] = requests[u]
    BY <1>6, <2>1, EnterRoom
  <2> QED BY <1>2, <2>2, <2>3 DEF RoomOf
<1>7. CASE TakeReply(t)
  <2>1. PICK n \in 1 .. Len(replies[t]) : replies' = [replies EXCEPT ![t] = SubSeq(@, n + 1, Len(@))]
    BY <1>7 DEF TakeReply
  <2>2. Len(replies'[t]) <= Len(replies[t]) /\ \A u \in Terminals \ {t} : replies'[u] = replies[u]
    <3>1. Len(SubSeq(replies[t], n + 1, Len(replies[t]))) <= Len(replies[t])
      BY <1>2, Shorter
    <3> QED BY <1>2, <2>1, <3>1
  <2>3. Len(replies'[t]) <= MaxWire + 1
    <3>1. replies'[t] = SubSeq(replies[t], n + 1, Len(replies[t]))
      BY <1>2, <2>1
    <3>2. Len(replies'[t]) \in Nat
      BY <1>2, <3>1, OneTaken
    <3> QED BY <1>2, <2>2, <3>2
  <2>4. page[t] \in Waiting /\ \E q \in {Await(page[t]).ok, Await(page[t]).error} : Enter(t, q)
    BY <1>7 DEF TakeReply
  <2> QED BY <1>1, <1>6, <2>2, <2>3, <2>4, RoomKept
<1>8. CASE TakeUpdate(t)
  <2>1. /\ replies'[t] = <<>> /\ \A u \in Terminals \ {t} : replies'[u] = replies[u]
        /\ UNCHANGED <<page, requests>>
    BY <1>2, <1>8 DEF TakeUpdate
  <2> QED BY <1>1, <1>2, <2>1, RoomKept
<1>9. CASE TakeEnd(t)
  <2>1. CASE Exit(t)
    BY <1>3, <2>1
  <2>2. CASE page[t] \in Waiting /\ Enter(t, Await(page[t]).error) /\ UNCHANGED replies
    BY <1>1, <1>2, <1>6, <2>2, RoomKept
  <2> QED BY <1>9, <2>1, <2>2 DEF TakeEnd
<1> QED BY <1>3, <1>4, <1>5, <1>7, <1>8, <1>9 DEF Interrupt, HangUp, Client

LEMMA ServerRoom ==
  ASSUME WireTypes, RoomInv, NEW t \in Terminals, Thread(t) \/ OthersUpdate
  PROVE  RoomInv'
<1>1. MaxWire \in Nat /\ \A u \in Terminals : Len(replies[u]) <= MaxWire + 1
  BY TerminalsAssumption DEF RoomInv
<1>2. UNCHANGED <<page, recycled, mixed>>
  BY DEF Thread, Serve, EndOfInput, LastClose, OthersUpdate, bridge
<1>3. CASE Serve(t)
  <2>1. requests[t] \in Seq(Requests) /\ Len(requests[t]) \in Nat /\ requests[t] # <<>>
        /\ Head(requests[t]) \in Requests /\ requests \in [Terminals -> Seq(Requests)]
    BY <1>3 DEF WireTypes, Serve
  <2>2. PICK n \in 1 .. Len(requests[t]) : requests' = [requests EXCEPT ![t] = SubSeq(@, n + 1, Len(@))]
    BY <1>3 DEF Serve
  <2>3. requests'[t] = SubSeq(requests[t], n + 1, Len(requests[t]))
        /\ \A u \in Terminals \ {t} : requests'[u] = requests[u]
    BY <2>1, <2>2
  <2>4. Len(requests'[t]) <= Len(requests[t]) /\ Len(requests'[t]) \in Nat
    BY <2>1, <2>3, Shorter, OneTaken
  <2>5. \A u \in Terminals : Len(requests'[u]) <= RoomOf(page'[u])
    <3>1. Len(requests[t]) <= RoomOf(page[t]) /\ RoomOf(page[t]) \in Nat
      BY <1>1 DEF RoomInv, RoomOf
    <3>2. Len(requests'[t]) <= RoomOf(page'[t])
      BY <1>2, <2>1, <2>4, <3>1 DEF RoomOf
    <3> QED BY <1>2, <2>3, <3>2 DEF RoomInv, RoomOf
  <2>6. /\ \/ replies' = replies
           \/ \E answers, updates : /\ answers = <<>> \/ \E a \in Answer : answers = <<a>>
                                    /\ updates \in BOOLEAN /\ Sent(t, answers, updates)
        /\ listed' \in {listed, listed \cup {t}}
    BY <1>3, <2>1, HandlerSends DEF Serve
  <2>7. Len(replies[t]) < MaxWire \/ page[t] = "closed"
    BY <1>3 DEF Serve
  <2>8. \A u \in Terminals : Len(replies'[u]) <= MaxWire + 1
    BY <1>1, <2>6, <2>7, SentRoom
  <2> QED BY <1>2, <2>5, <2>6, <2>8 DEF RoomInv, RoomOf
<1>4. CASE EndOfInput(t)
  <2>1. PICK updates \in {FALSE, session[t] # 0} : Sent(t, <<>>, updates)
    BY <1>4 DEF EndOfInput
  <2>2. updates \in BOOLEAN
    OBVIOUS
  <2>3. \A u \in Terminals : Len(replies'[u]) <= MaxWire + 1
    BY <1>1, <2>1, <2>2, SentRoom
  <2> QED BY <1>2, <1>4, <2>3 DEF RoomInv, RoomOf, EndOfInput
<1>5. CASE OthersUpdate
  <2>1. PICK u \in Terminals : Sent(u, <<>>, TRUE)
    BY <1>5 DEF OthersUpdate
  <2>2. \A v \in Terminals : Len(replies'[v]) <= MaxWire + 1
    BY <1>1, <2>1, SentRoom
  <2> QED BY <1>2, <1>5, <2>2 DEF RoomInv, RoomOf, OthersUpdate, server
<1>6. CASE LastClose(t)
  BY <1>2, <1>6 DEF RoomInv, RoomOf, LastClose
<1> QED BY <1>3, <1>4, <1>5, <1>6 DEF Thread

LEMMA OthersRoom ==
  ASSUME WireTypes, RoomInv, (\E t \in Terminals : Stray(t)) \/ Die
  PROVE  RoomInv'
<1>1. /\ MaxWire \in Nat /\ UNCHANGED <<page, recycled, mixed, listed>>
      /\ requests \in [Terminals -> Seq(Requests)] /\ replies \in [Terminals -> Seq(Answer)]
  BY TerminalsAssumption DEF Stray, Die, bridge, WireTypes
<1>2. Len(<<>>) = 0 /\ \A u \in Terminals : 0 <= RoomOf(page[u])
  BY <1>1 DEF RoomOf
<1>3. CASE Die
  BY <1>1, <1>2, <1>3 DEF Die, RoomInv, RoomOf
<1>4. ASSUME NEW t \in Terminals, Stray(t) PROVE RoomInv'
  <2>1. \/ UNCHANGED requests
        \/ requests[t] # <<>> /\ requests' = [requests EXCEPT ![t] = Tail(@)]
        \/ requests' = [requests EXCEPT ![t] = <<>>]
    BY <1>4 DEF Stray
  <2>2. /\ Len(requests'[t]) <= RoomOf(page[t])
        /\ \A u \in Terminals \ {t} : requests'[u] = requests[u]
    <3>1. Len(requests[t]) <= RoomOf(page[t]) /\ requests[t] \in Seq(Requests) /\ RoomOf(page[t]) \in Nat
      BY <1>1 DEF RoomInv, RoomOf
    <3>2. requests[t] # <<>> => Len(Tail(requests[t])) <= RoomOf(page[t])
      BY <3>1
    <3>3. \/ requests'[t] = requests[t]
          \/ requests[t] # <<>> /\ requests'[t] = Tail(requests[t])
          \/ requests'[t] = <<>>
      BY <1>1, <2>1
    <3>4. Len(requests'[t]) <= RoomOf(page[t])
      <4>1. CASE requests'[t] = requests[t]
        BY <3>1, <4>1
      <4>2. CASE requests[t] # <<>> /\ requests'[t] = Tail(requests[t])
        BY <3>2, <4>2
      <4>3. CASE requests'[t] = <<>>
        BY <1>2, <4>3
      <4> QED BY <3>3, <4>1, <4>2, <4>3
    <3> QED BY <1>1, <2>1, <3>4
  <2>3. /\ Len(replies'[t]) <= MaxWire + 1
        /\ \A u \in Terminals \ {t} : replies'[u] = replies[u]
    <3>1. Len(replies[t]) <= MaxWire + 1 /\ replies[t] \in Seq(Answer)
      BY <1>1 DEF RoomInv
    <3>2. CASE UNCHANGED replies
      BY <3>1, <3>2
    <3>3. CASE Len(replies[t]) < MaxWire /\ \E stray \in Strays(t) : replies' = [replies EXCEPT ![t] = Append(@, stray)]
      <4>1. PICK stray \in Strays(t) : replies' = [replies EXCEPT ![t] = Append(@, stray)]
        BY <3>3
      <4>2. Len(Append(replies[t], stray)) = Len(replies[t]) + 1 /\ Len(replies[t]) \in Nat
        BY <3>1
      <4>3. replies'[t] = Append(replies[t], stray)
        BY <1>1, <4>1
      <4> QED BY <1>1, <3>3, <4>1, <4>2, <4>3
    <3> QED BY <1>4, <3>2, <3>3 DEF Stray
  <2> QED BY <1>1, <2>2, <2>3, RoomKept
<1> QED BY <1>3, <1>4

LEMMA RoomInvNext == SessionInv /\ RoomInv /\ [Next]_vars => RoomInv'
<1> SUFFICES ASSUME WireTypes, RoomInv, [Next]_vars PROVE RoomInv'
  BY DEF SessionInv
<1>1. CASE UNCHANGED vars
  BY <1>1 DEF vars, RoomInv, RoomOf
<1>2. ASSUME NEW t \in Terminals, CloseTab(t) \/ BreakTab(t) \/ ClientEnded(t) PROVE RoomInv'
  BY <1>2 DEF CloseTab, BreakTab, ClientEnded, server, RoomInv, RoomOf
<1>3. ASSUME NEW t \in Terminals, OpenTab(t) PROVE RoomInv'
  <2>1. /\ requests'[t] = <<>> /\ replies'[t] = <<>>
        /\ \A u \in Terminals \ {t} : page'[u] = page[u] /\ requests'[u] = requests[u] /\ replies'[u] = replies[u]
    BY <1>3 DEF OpenTab, WireTypes
  <2>2. Len(requests'[t]) = 0 /\ Len(replies'[t]) = 0
    BY <2>1
  <2>3. \A u \in Terminals : Len(requests'[u]) <= RoomOf(page'[u]) /\ Len(replies'[u]) <= MaxWire + 1
    BY <2>1, <2>2, TerminalsAssumption DEF RoomInv, RoomOf
  <2>4. listed' = listed /\ mixed' \subseteq recycled' /\ recycled' \subseteq Terminals
    <3>1. CASE Inherit(t)
      <4>1. mixed' \in {mixed, mixed \cup {t}} /\ recycled' \in {recycled, recycled \cup {t}}
        BY <3>1 DEF Inherit
      <4>2. t \in mixed' => t \in recycled'
        BY <3>1, <1>3 DEF Inherit, RoomInv
      <4> QED BY <1>3, <4>1, <4>2 DEF OpenTab, RoomInv
    <3>2. CASE UNCHANGED <<recycled, mixed>>
      BY <1>3, <3>2 DEF OpenTab, RoomInv
    <3> QED BY <1>3, <3>1, <3>2 DEF OpenTab
  <2> QED BY <2>3, <2>4 DEF RoomInv, RoomOf
<1>4. CASE OthersUpdate
  BY <1>4, ServerRoom DEF OthersUpdate
<1> QED BY <1>1, <1>2, <1>3, <1>4, ClientRoom, ServerRoom, OthersRoom DEF Next, User, Bridge

\* The pages of the tables are all there is.
LEMMA PagesNamed == PageNames \subseteq Pages
<1>1. Waiting \cup {"closed", "chef_dashboard"} \subseteq Pages
  BY DEF Pages
<1>2. /\ <<"landing", "closed">> \in Choices /\ <<"details", "tables">> \in Choices
      /\ <<"tables_shown", "booking">> \in Choices /\ <<"tables_failed", "tables">> \in Choices
      /\ <<"booked", "dashboard">> \in Choices
  BY DEF Choices, LandingPage, DetailsPage, TablesMenu
<1>3. /\ <<"dashboard_failed", "dashboard">> \in Choices /\ <<"dashboard_shown", "menu">> \in Choices
      /\ <<"menu_failed", "menu">> \in Choices /\ <<"ordered", "menu">> \in Choices
      /\ <<"menu_shown", "menu">> \in Choices
  BY DEF Choices, DashboardPage, ItemsPage
<1>4. /\ <<"view_shown", "dashboard">> \in Choices /\ <<"receipt_shown", "closed">> \in Choices
      /\ <<"admin_login", "admin_auth">> \in Choices /\ <<"admin_dashboard", "closed">> \in Choices
      /\ <<"chef_login", "chef_auth">> \in Choices
  BY DEF Choices, ViewPage, BillPage, AdminLogin, AdminDashboard, ChefLogin
<1>5. ASSUME NEW p, NEW q, <<p, q>> \in Choices PROVE p \in Pages
  <2>1. <<p, q>>[1] = p
    OBVIOUS
  <2> QED BY <1>5, <2>1 DEF Pages
<1>6. {"landing", "details", "tables_shown", "tables_failed", "booked", "dashboard_failed", "dashboard_shown",
       "menu_failed", "ordered", "menu_shown", "view_shown", "receipt_shown", "admin_login",
       "admin_dashboard", "chef_login"} \subseteq Pages
  BY <1>2, <1>3, <1>4, <1>5
<1> QED BY <1>1, <1>6, WaitingPages DEF PageNames, Lobby, LoginPages, BeforeTable, AtTable, GuestWaits

\* The shape of the state: what is on its way to the server and back never takes
\* more than a message above the room there is, the bridge's count never passes
\* MAX_CLIENTS and falls below zero only by the tabs that broke off, and no
\* session or page has an order that was not booked.
THEOREM SessionsTypeCorrect == Spec => []TypeOK
<1>1. Init => RoomInv
  <2> SUFFICES ASSUME Init PROVE RoomInv
    OBVIOUS
  <2>1. \A t \in Terminals : Len(requests[t]) = 0 /\ Len(replies[t]) = 0
    BY DEF Init
  <2> QED BY <2>1, TerminalsAssumption DEF Init, RoomInv, RoomOf
<1>2. SessionInv /\ CountInv /\ RoomInv => TypeOK
  <2> SUFFICES ASSUME SessionInv, CountInv, RoomInv PROVE TypeOK
    OBVIOUS
  <2>1. active \in -MaxBreaks .. MaxClients
    <3>1. IsFiniteSet(OpenTabs)
      BY TerminalsAssumption, FS_Subset DEF OpenTabs
    <3>2. Cardinality(OpenTabs) \in Nat
      BY <3>1, FS_CardinalityType
    <3> QED BY <3>2, TerminalsAssumption DEF CountInv
  <2>2. page \in [Terminals -> Pages]
    BY PagesNamed DEF SessionInv, WireTypes
  <2>3. \A t \in Terminals : Len(requests[t]) <= MaxWire + 1 /\ Len(replies[t]) <= MaxWire + 1
    <3> SUFFICES ASSUME NEW t \in Terminals PROVE Len(requests[t]) <= MaxWire + 1
      BY DEF RoomInv
    <3>1. requests[t] \in Seq(Requests)
      BY DEF SessionInv, WireTypes
    <3>2. Len(requests[t]) \in Nat
      BY <3>1
    <3> QED BY <3>2, TerminalsAssumption DEF RoomInv, RoomOf
  <2> QED BY <2>1, <2>2, <2>3 DEF SessionInv, WireTypes, CountInv, RoomInv, Orders, ThreadStates, TypeOK
<1> QED BY <1>1, <1>2, CountInvInit, CountInvNext, SessionInvInit, SessionInvNext, RoomInvNext, PTL DEF Spec
=============================================================================
