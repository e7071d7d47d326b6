----------------------------- MODULE Terminals -----------------------------
(***************************************************************************)
(* A guest's, a chef's or an admin's session from end to end: the browser  *)
(* tab, the bridge of server.js that runs the terminal client in it, the   *)
(* client's pages, the connection, and the thread of the server at its     *)
(* other end.  A page sends one request and takes the next thing that      *)
(* arrives for its answer; nothing in an answer says what it answers.      *)
(*   Messages arrive whole and one recv may return several; what an answer *)
(* lists is left out.  A terminal here is also the descriptor its          *)
(* connection has in the server, which its next connection gets again.     *)
(* The server closes it twice after a guest or an admin, so that two       *)
(* threads may come to share one: module Connections says how, here it is  *)
(* said what may then happen to the terminal.                              *)
(***************************************************************************)
EXTENDS Integers, FiniteSets, Sequences

CONSTANTS
  Terminals,
  MaxClients,   \* MAX_CLIENTS of the bridge
  MaxOrders,    \* bound on the tables booked
  MaxWire,      \* bound on the messages on their way
  MaxBreaks     \* bound on the tabs that end with an error event

ASSUME TerminalsAssumption ==
  /\ IsFiniteSet(Terminals) /\ MaxClients \in Nat
  /\ MaxOrders \in Nat /\ MaxWire \in Nat \ {0} /\ MaxBreaks \in Nat

VARIABLES
  tab,      \* the browser tab: open, or closed
  active,   \* activeConnections
  page,     \* where the client's program stands
  shown,    \* the order its pages are about, 0 for none
  requests, \* what the client has sent and the thread has not received
  replies,  \* what it has been sent and has not received
  thread,   \* the server's thread: hello, the role it serves, closed while it has
            \* still to close the descriptor again, or ended
  session,  \* orderID of guest_handler, 0 for none
  listed,   \* the descriptors in chef_fds
  alive,    \* whether the server runs
  orders, breaks,
  recycled, \* (of no code) the terminals whose descriptor was listed, or mixed, when
            \* they connected
  mixed     \* (of no code) those whose descriptor another thread has as well

vars == <<tab, active, page, shown, requests, replies, thread, session, listed, alive, orders, breaks,
          recycled, mixed>>
bridge == <<tab, active, breaks, recycled, mixed>>
server == <<thread, session, listed, alive, orders>>

-----------------------------------------------------------------------------
(* The pages.  A page with an entry in Awaits has sent a request and is in *)
(* recv; the others wait for the user.                                     *)
AdminLists   == {"GET_TABLES", "GET_MENU", "GET_ORDERS"}
AdminChanges == {"DELETE_TABLE", "DELETE_MENU", "DELETE_ORDER", "ADD_TABLE", "ADD_MENU"}
AdminPages   == AdminLists \cup AdminChanges

\* What a waiting page sent, and the pages after an answer and after an ERROR.
Wait(request, ok, error) == [request |-> request, ok |-> ok, error |-> error]
GuestAwaits ==
  [guest_auth |-> Wait("AUTH_GUEST", "details", "closed"),
   tables     |-> Wait("GET_TABLES", "tables_shown", "tables_failed"),
   booking    |-> Wait("BOOK_TABLE", "booked", "tables_failed"),
   dashboard  |-> Wait("GET_ORDER", "dashboard_shown", "dashboard_failed"),
   menu       |-> Wait("GET_MENU", "menu_shown", "menu_failed"),
   ordering   |-> Wait("ORDER_ITEM", "ordered", "ordered"),
   view       |-> Wait("GET_ORDER", "view_shown", "view_shown"),
   bill       |-> Wait("GENERATE_BILL", "receipt", "view_shown"),
   receipt    |-> Wait("GET_ORDER", "receipt_shown", "receipt_shown")]
StaffAwaits ==
  [admin_auth |-> Wait("AUTH_ADMIN", "admin_dashboard", "admin_login"),
   chef_auth  |-> Wait("AUTH_CHEF", "chef_dashboard", "chef_login")]
Await(p) == IF p \in DOMAIN GuestAwaits THEN GuestAwaits[p]
            ELSE IF p \in DOMAIN StaffAwaits THEN StaffAwaits[p]
            ELSE Wait(p, "admin_dashboard", "admin_dashboard")
Waiting == DOMAIN GuestAwaits \cup DOMAIN StaffAwaits \cup AdminPages

\* What the user may choose on a page, function by function: the page, and the next
\* one.  A wrong entry asks again.
LandingPage   == {"landing"} \X {"guest_auth", "admin_login", "chef_login", "closed"}
DetailsPage   == {<<"details", "tables">>}
TablesMenu    == {<<"tables_shown", "booking">>, <<"tables_shown", "landing">>,
                  <<"tables_failed", "tables">>, <<"booked", "dashboard">>}
DashboardPage == {<<"dashboard_failed", "dashboard">>}
  \cup {"dashboard_shown"} \X {"menu", "bill", "view", "dashboard", "closed"}
ItemsPage     == {"menu_failed", "ordered"} \X {"menu"} \cup {<<"ordered", "dashboard">>}
  \cup {"menu_shown"} \X {"menu", "ordering", "dashboard"}
ViewPage      == {<<"view_shown", "dashboard">>}
BillPage      == {<<"receipt_shown", "closed">>}
AdminLogin    == {<<"admin_login", "admin_auth">>}
AdminDashboard == {"admin_dashboard"} \X (AdminPages \cup {"closed"})
ChefLogin     == {<<"chef_login", "chef_auth">>}
Choices == LandingPage \cup DetailsPage \cup TablesMenu \cup DashboardPage \cup ItemsPage
           \cup ViewPage \cup BillPage \cup AdminLogin \cup AdminDashboard \cup ChefLogin
Pages == {choice[1] : choice \in Choices} \cup Waiting \cup {"closed", "chef_dashboard"}

\* The pages of a guest who has a table.
AtTable == {"booked", "dashboard", "dashboard_shown", "dashboard_failed", "menu", "menu_shown",
            "menu_failed", "ordering", "ordered", "view", "view_shown", "bill", "receipt", "receipt_shown"}

-----------------------------------------------------------------------------
Connected(t) == thread[t] \notin {"closed", "ended"}
Reply(to, status, order) == [to |-> to, status |-> status, order |-> order]
Update == Reply("none", "NEW_UPDATE", 0)

\* A page is entered; a waiting one sends its request, which is lost if the
\* server has closed the connection, and then a signal may end the client.
Enter(t, p) ==
  /\ page' = [page EXCEPT ![t] = p]
  /\ requests' = IF p \in Waiting /\ Connected(t)
                   THEN [requests EXCEPT ![t] = Append(@, Await(p).request)]
                 ELSE IF p = "chef_dashboard" /\ Connected(t)
                   THEN [requests EXCEPT ![t] = Append(@, "GET_DASHBOARD")]
                 ELSE requests

\* The program ends, and its connection with it.
Exit(t) ==
  /\ Enter(t, "closed")
  /\ shown' = [shown EXCEPT ![t] = 0] /\ replies' = [replies EXCEPT ![t] = <<>>]

Choose(t) ==
  /\ Len(requests[t]) < MaxWire
  /\ \E p \in Pages :
       /\ <<page[t], p>> \in Choices
       /\ \/ p # "closed" /\ Enter(t, p) /\ UNCHANGED <<shown, replies>>
          \/ (p = "closed" \/ (p \in Waiting /\ ~Connected(t))) /\ Exit(t)
  /\ UNCHANGED <<bridge, server>>

\* The chef's terminal sends commands without waiting.
ChefCommands(t) ==
  /\ page[t] = "chef_dashboard" /\ Connected(t) /\ Len(requests[t]) < MaxWire
  /\ \E request \in {"GET_DASHBOARD", "MARK_PREPARED"} :
       requests' = [requests EXCEPT ![t] = Append(@, request)]
  /\ UNCHANGED <<bridge, page, shown, replies, server>>

\* One recv returns n answers, and the page looks at the first.  The pages of the
\* login want OK; the others take whatever is not ERROR.
TakeReply(t) ==
  LET first == Head(replies[t])
      await == Await(page[t])
      good  == IF page[t] \in {"guest_auth", "admin_auth", "chef_auth"}
                 THEN first.status = "OK" ELSE first.status # "ERROR" IN
  /\ page[t] \in Waiting /\ replies[t] # <<>>
  /\ Enter(t, IF good THEN await.ok ELSE await.error)
  /\ shown' = IF page[t] = "booking" /\ good THEN [shown EXCEPT ![t] = first.order] ELSE shown
  /\ \E n \in 1 .. Len(replies[t]) :
       replies' = [replies EXCEPT ![t] = SubSeq(@, n + 1, Len(@))]
  /\ UNCHANGED <<bridge, server>>

\* chef_listener (module Kitchen says what it does with them).
TakeUpdate(t) ==
  /\ page[t] = "chef_dashboard" /\ replies[t] # <<>>
  /\ replies' = [replies EXCEPT ![t] = <<>>]
  /\ UNCHANGED <<bridge, page, shown, requests, server>>

\* The connection has ended; the logins ask again, and exit on an error of recv.
TakeEnd(t) ==
  /\ page[t] \in Waiting \cup {"chef_dashboard"}
  /\ replies[t] = <<>> /\ ~Connected(t)
  /\ \/ /\ page[t] \in Waiting \ DOMAIN GuestAwaits
        /\ Enter(t, Await(page[t]).error) /\ UNCHANGED <<shown, replies>>
     \/ page[t] \notin AdminPages /\ Exit(t)
  /\ UNCHANGED <<bridge, server>>

\* Ctrl+C, at any page.
Interrupt(t) ==
  /\ page[t] # "closed" /\ Exit(t)
  /\ UNCHANGED <<bridge, server>>

-----------------------------------------------------------------------------
\* A mutant: updates are sent whether there is room or not.
SentWithoutRoom(t, answers, updates) ==
  replies' = [u \in Terminals |->
    (IF updates /\ u \in listed /\ Connected(u) THEN Append(replies[u], Update) ELSE replies[u])
    \o (IF u = t /\ page[t] # "closed" THEN answers ELSE <<>>)]

\* What the thread sends: updates, to the listed descriptors that are connected and
\* have room, and then answers to its client, if it is still there.
Sent(t, answers, updates) ==
  LET told == {u \in listed : updates /\ Connected(u) /\ Len(replies[u]) < MaxWire} IN
  replies' = [u \in Terminals |->
    (IF u \in told THEN Append(replies[u], Update) ELSE replies[u])
    \o (IF u = t /\ page[t] # "closed" THEN answers ELSE <<>>)]

\* handle_client: the first line.  Whether a password is right is Accounts' matter.
Hello(t, request) ==
  /\ thread[t] = "hello"
  /\ \/ /\ request = "AUTH_GUEST"
        /\ thread' = [thread EXCEPT ![t] = "GUEST"] /\ UNCHANGED listed
        /\ Sent(t, <<Reply(request, "OK", 0)>>, FALSE)
     \/ /\ request = "AUTH_ADMIN"
        /\ thread' = [thread EXCEPT ![t] = "ADMIN"] /\ UNCHANGED listed
        /\ Sent(t, <<Reply(request, "OK", 0)>>, FALSE)
     \/ /\ request = "AUTH_CHEF"
        /\ thread' = [thread EXCEPT ![t] = "CHEF"] /\ listed' = listed \cup {t}
        /\ Sent(t, <<Reply(request, "OK", 0)>>, FALSE)
     \/ /\ request \in {"AUTH_ADMIN", "AUTH_CHEF"}
        /\ thread' = [thread EXCEPT ![t] = "ended"] /\ UNCHANGED listed
        /\ Sent(t, <<Reply(request, "ERROR", 0)>>, FALSE)
  /\ UNCHANGED <<session, alive, orders>>

Answers(request, statuses, order) == {<<Reply(request, s, order)>> : s \in statuses}

\* guest_handler; the database may have lost the order or may fail.  LOGOUT, which no
\* page sends, is not here.
Books(t, request)  == request = "BOOK_TABLE" /\ session[t] = 0 /\ orders < MaxOrders
GuestReads         == {"GET_TABLES", "GET_MENU", "GET_ORDER"}

\* Mutants: a failure is answered, and then the request as well; a failure is not
\* answered; the booking is not kept.
ServeGuestGoesOn(t, request) ==
  /\ thread[t] = "GUEST" /\ session[t] = 0 /\ request \in GuestReads
  /\ Sent(t, <<Reply(request, "ERROR", 0), Reply(request, "OK", 0)>>, FALSE)
  /\ UNCHANGED server
ServeGuestSilent(t, request) ==
  thread[t] = "GUEST" /\ request \in GuestReads /\ UNCHANGED <<replies, server>>
ServeGuestForgets(t, request) ==
  /\ thread[t] = "GUEST"
  /\ \/ /\ Books(t, request) /\ orders' = orders + 1 /\ UNCHANGED <<session>>
        /\ Sent(t, <<Reply(request, "OK", orders + 1)>>, FALSE)
     \/ /\ request \in GuestReads /\ UNCHANGED <<session, orders>>
        /\ Sent(t, <<Reply(request, "OK", 0)>>, FALSE)
  /\ UNCHANGED <<thread, listed, alive>>

ServeGuest(t, request) ==
  /\ thread[t] = "GUEST"
  /\ \/ /\ Books(t, request)
        /\ orders' = orders + 1 /\ session' = [session EXCEPT ![t] = orders + 1]
        /\ Sent(t, <<Reply(request, "OK", orders + 1)>>, FALSE)
     \/ /\ request \in GuestReads
        /\ \E answers \in Answers(request, {"OK", "ERROR"}, 0) : Sent(t, answers, FALSE)
        /\ UNCHANGED <<session, orders>>
     \/ /\ request \in {"ORDER_ITEM", "GENERATE_BILL"} /\ session[t] # 0
        /\ \E answers \in Answers(request, {"OK", "ERROR"}, 0), updates \in BOOLEAN :
             /\ updates => request = "GENERATE_BILL" \/ answers[1].status = "OK"
             /\ Sent(t, answers, updates)
        /\ UNCHANGED <<session, orders>>
     \/ /\ request \notin GuestReads
        /\ request \in {"ORDER_ITEM", "GENERATE_BILL"} => session[t] = 0
        /\ Sent(t, <<Reply(request, "ERROR", 0)>>, FALSE)
        /\ UNCHANGED <<session, orders>>
  /\ UNCHANGED <<thread, listed, alive>>

\* admin_handler.  A list that cannot be read is not answered at all.
ServeAdmin(t, request) ==
  /\ thread[t] = "ADMIN"
  /\ \/ \E answers \in Answers(request, {"OK", "ERROR"}, 0) :
          /\ request \in AdminLists => answers[1].status = "OK"
          /\ \E updates \in {FALSE, request = "DELETE_ORDER"} : Sent(t, answers, updates)
     \/ request \in AdminLists /\ UNCHANGED replies
  /\ UNCHANGED server

\* chef_handler: a dashboard, or an update to all, or nothing if a call fails.
ServeChef(t, request) ==
  /\ thread[t] = "CHEF"
  /\ \/ request = "GET_DASHBOARD" /\ Len(replies[t]) < MaxWire
        /\ Sent(t, <<Reply(request, "OK", 0)>>, FALSE)
     \/ request = "MARK_PREPARED" /\ Sent(t, <<>>, TRUE)
     \/ UNCHANGED replies
  /\ UNCHANGED server

\* What the chefs are told of a change by a client that is not one of Terminals.
OthersUpdate ==
  /\ \E t \in Terminals : Sent(t, <<>>, TRUE)
  /\ UNCHANGED <<bridge, page, shown, requests, server>>

\* One recv returns n requests, and the handler looks at the first.  The thread is
\* held up in send while its client has not read what it was sent.
Serve(t) ==
  /\ requests[t] # <<>> /\ (Len(replies[t]) < MaxWire \/ page[t] = "closed")
  /\ LET request == Head(requests[t]) IN
     Hello(t, request) \/ ServeGuest(t, request) \/ ServeAdmin(t, request) \/ ServeChef(t, request)
  /\ \E n \in 1 .. Len(requests[t]) :
       requests' = [requests EXCEPT ![t] = SubSeq(@, n + 1, Len(@))]
  /\ UNCHANGED <<bridge, page, shown>>

\* How the thread leaves: guest_handler and admin_handler close the descriptor, and
\* handle_client closes it.
Left(t) == IF thread[t] \in {"GUEST", "ADMIN"} THEN "closed" ELSE "ended"

\* A mutant: the guest's session is dropped without a bill.
EndOfInputUnbilled(t) ==
  /\ Connected(t) /\ page[t] = "closed" /\ requests[t] = <<>>
  /\ thread' = [thread EXCEPT ![t] = Left(t)]
  /\ UNCHANGED <<bridge, page, shown, requests, replies, session, listed, alive, orders>>

\* The client has gone: the handler returns, a guest's with the bill.
EndOfInput(t) ==
  /\ Connected(t) /\ page[t] = "closed" /\ requests[t] = <<>>
  /\ thread' = [thread EXCEPT ![t] = Left(t)]
  /\ session' = [session EXCEPT ![t] = 0]
  /\ \E updates \in {FALSE, session[t] # 0} : Sent(t, <<>>, updates)
  /\ UNCHANGED <<bridge, page, shown, requests, listed, alive, orders>>

\* The second close finds the descriptor closed: nobody got it in between, or this
\* is a thread that Strays stands for.
LastClose(t) ==
  /\ thread[t] = "closed"
  /\ thread' = [thread EXCEPT ![t] = "ended"]
  /\ UNCHANGED <<bridge, page, shown, requests, replies, session, listed, alive, orders>>

\* The threads that have the descriptor of a terminal, or list it, and are not its
\* own: they send it their updates and answers, take its requests for theirs, and
\* close its connection, which its own thread then leaves for another.
Strays(t) ==
  {Update} \cup IF t \in mixed THEN {Reply("none", "ERROR", 0)} \cup {Reply("none", "OK", o) : o \in 0 .. MaxOrders}
                ELSE {}
Stray(t) ==
  /\ t \in recycled /\ Connected(t) /\ page[t] # "closed"
  /\ \/ /\ Len(replies[t]) < MaxWire
        /\ \E stray \in Strays(t) : replies' = [replies EXCEPT ![t] = Append(@, stray)]
        /\ UNCHANGED <<requests, thread, session>>
     \/ /\ t \in mixed /\ requests[t] # <<>>
        /\ requests' = [requests EXCEPT ![t] = Tail(@)]
        /\ UNCHANGED <<replies, thread, session>>
     \/ /\ t \in mixed
        /\ thread' = [thread EXCEPT ![t] = "ended"] /\ session' = [session EXCEPT ![t] = 0]
        /\ requests' = [requests EXCEPT ![t] = <<>>]
        /\ UNCHANGED replies
  /\ UNCHANGED <<bridge, page, shown, listed, alive, orders>>

\* Something is sent again to a client that has gone: SIGPIPE ends the server, and
\* every connection with it.
Die ==
  /\ alive /\ alive' = FALSE
  /\ \E t \in Terminals : Connected(t) /\ page[t] = "closed"
                          /\ (requests[t] # <<>> \/ session[t] # 0 \/ t \in listed)
  /\ thread' = [t \in Terminals |-> "ended"] /\ session' = [t \in Terminals |-> 0]
  /\ requests' = [t \in Terminals |-> <<>>]
  /\ UNCHANGED <<bridge, page, shown, replies, listed, orders>>

-----------------------------------------------------------------------------
\* server.js.  A tab is opened; the bridge starts a client for it, which connects,
\* or does not and ends.
Busy == active >= MaxClients

\* The descriptor of the new connection: the terminal's own, which its last thread
\* may still have to close; or, once two threads share one or a listed one is free
\* while the client that had it is not gone, perhaps that one.
Inherit(t) ==
  /\ \/ (thread[t] = "closed" \/ mixed # {}) /\ mixed' = mixed \cup {t}
     \/ thread[t] # "closed" /\ UNCHANGED mixed
  /\ \/ (t \in listed \cup mixed' \/ recycled # {}) /\ recycled' = recycled \cup {t}
     \/ t \notin listed \cup mixed' /\ UNCHANGED recycled

OpenTab(t) ==
  /\ tab[t] = "closed" /\ page[t] = "closed" /\ ~Connected(t)
  /\ ~Busy
  /\ tab' = [tab EXCEPT ![t] = "open"] /\ active' = active + 1
  /\ \/ /\ alive
        /\ page' = [page EXCEPT ![t] = "landing"] /\ thread' = [thread EXCEPT ![t] = "hello"]
        /\ Inherit(t)
     \/ UNCHANGED <<page, thread, recycled, mixed>>
  /\ shown' = [shown EXCEPT ![t] = 0] /\ session' = [session EXCEPT ![t] = 0]
  /\ requests' = [requests EXCEPT ![t] = <<>>] /\ replies' = [replies EXCEPT ![t] = <<>>]
  /\ UNCHANGED <<listed, alive, orders, breaks>>

\* A mutant: cleanup of a closed tab does not count it out.
CloseTabUncounted(t) ==
  /\ tab[t] = "open" /\ tab' = [tab EXCEPT ![t] = "closed"]
  /\ UNCHANGED <<active, page, shown, requests, replies, server, breaks, recycled, mixed>>

\* cleanup, of a tab that is closed.
CloseTab(t) ==
  /\ tab[t] = "open"
  /\ tab' = [tab EXCEPT ![t] = "closed"] /\ active' = active - 1
  /\ UNCHANGED <<page, shown, requests, replies, server, breaks, recycled, mixed>>

\* A tab that breaks off raises error and then close: cleanup runs twice.
BreakTab(t) ==
  /\ tab[t] = "open" /\ breaks < MaxBreaks
  /\ breaks' = breaks + 1
  /\ tab' = [tab EXCEPT ![t] = "closed"] /\ active' = active - 2
  /\ UNCHANGED <<page, shown, requests, replies, server, recycled, mixed>>

\* The client ends with the pseudo terminal of the script that was killed.
HangUp(t) ==
  /\ tab[t] = "closed" /\ page[t] # "closed"
  /\ Exit(t)
  /\ UNCHANGED <<bridge, server>>

\* The client has ended: the bridge closes the tab, and cleanup runs.
ClientEnded(t) ==
  /\ tab[t] = "open" /\ page[t] = "closed"
  /\ tab' = [tab EXCEPT ![t] = "closed"] /\ active' = active - 1
  /\ UNCHANGED <<page, shown, requests, replies, server, breaks, recycled, mixed>>

-----------------------------------------------------------------------------
Init ==
  /\ tab = [t \in Terminals |-> "closed"] /\ active = 0
  /\ page = [t \in Terminals |-> "closed"] /\ shown = [t \in Terminals |-> 0]
  /\ requests = [t \in Terminals |-> <<>>] /\ replies = [t \in Terminals |-> <<>>]
  /\ thread = [t \in Terminals |-> "ended"] /\ session = [t \in Terminals |-> 0]
  /\ listed = {} /\ alive = TRUE /\ orders = 0 /\ breaks = 0
  /\ recycled = {} /\ mixed = {}

User(t)   == OpenTab(t) \/ CloseTab(t) \/ BreakTab(t) \/ Choose(t) \/ ChefCommands(t) \/ Interrupt(t)
Client(t) == TakeReply(t) \/ TakeUpdate(t) \/ TakeEnd(t)
Thread(t) == Serve(t) \/ EndOfInput(t) \/ LastClose(t)
Bridge(t) == HangUp(t) \/ ClientEnded(t)

Next ==
  \/ OthersUpdate \/ Die
  \/ \E t \in Terminals : User(t) \/ Client(t) \/ Thread(t) \/ Stray(t) \/ Bridge(t)
Spec == Init /\ [][Next]_vars
\* The programs run; no user has to do anything.
FairSpec == Spec /\ \A t \in Terminals : WF_vars(Client(t)) /\ WF_vars(Thread(t)) /\ WF_vars(Bridge(t))

-----------------------------------------------------------------------------
(***************************************************************************)
(* Properties.                                                             *)
(***************************************************************************)
\* The shape of the state.
TypeOK ==
  /\ tab \in [Terminals -> {"open", "closed"}] /\ active \in -MaxBreaks .. MaxClients
  /\ page \in [Terminals -> Pages]
  /\ shown \in [Terminals -> 0 .. MaxOrders] /\ session \in [Terminals -> 0 .. MaxOrders]
  /\ \A t \in Terminals : Len(requests[t]) <= MaxWire + 1 /\ Len(replies[t]) <= MaxWire + 1
  /\ thread \in [Terminals -> {"hello", "GUEST", "ADMIN", "CHEF", "closed", "ended"}]
  /\ listed \subseteq Terminals /\ orders \in 0 .. MaxOrders /\ alive \in BOOLEAN
  /\ breaks \in 0 .. MaxBreaks /\ mixed \subseteq recycled /\ recycled \subseteq Terminals

\* Answers carry no name.  Still what a page takes for the answer of its request
\* is the answer of its request, whatever went before, as long as the terminal's
\* descriptor is not one that chef_fds, or a thread with its second close before
\* it, still has from an earlier client.
OwnAnswer ==
  \A t \in Terminals \ recycled : page[t] \in Waiting /\ replies[t] # <<>> =>
    Head(replies[t]).to = Await(page[t]).request

\* What the pages show is what the server serves: an admin's or a chef's pages are
\* reached only with a thread of that role, and a guest's order is the session's;
\* with the same exception.
ServedAsShown ==
  \A t \in Terminals \ recycled : Connected(t) =>
    /\ page[t] \in AdminPages \cup {"admin_dashboard"} => thread[t] = "ADMIN"
    /\ page[t] = "chef_dashboard" => thread[t] = "CHEF"
    /\ page[t] \in AtTable =>
         thread[t] = "GUEST" /\ shown[t] # 0 /\ session[t] = shown[t]

\* The bridge turns nobody away while fewer than MAX_CLIENTS tabs are open.
NoFalseBusy == active <= Cardinality({t \in Terminals : tab[t] = "open"})

\* A request is answered or its connection ends, and the page goes on: only an
\* admin may wait for ever, for a list the database failed to read, and a terminal
\* with a descriptor of an earlier client's.
PagesAnswered ==
  \A t \in Terminals :
    page[t] \in Waiting \ AdminLists ~> page[t] \notin Waiting \ AdminLists \/ t \in recycled

\* However a tab goes away, its client ends, and with it the server's thread,
\* which bills a guest unless the server has died; a thread whose descriptor was
\* closed by another may go on with somebody else.
ClosedTabsEnd ==
  \A t \in Terminals :
    tab[t] = "closed" ~> \/ page[t] = "closed" /\ thread[t] = "ended" /\ session[t] = 0
                         \/ t \in mixed
=============================================================================
