---------------------------- MODULE Connections ----------------------------
(***************************************************************************)
(* The server's side of the TCP connections: main accepts a client and     *)
(* starts a detached thread for it, the thread authenticates the client    *)
(* and runs the handler of its role, and the list of chefs' descriptors    *)
(* receives the kitchen's updates.  A thread knows its client only by a    *)
(* descriptor, and a descriptor names whatever connection the process's    *)
(* table holds under it at the time of the call.                           *)
(***************************************************************************)
EXTENDS Integers, FiniteSets, SequencesExt

CONSTANTS
  Clients,   \* each has at most one connection at a time
  Fds,       \* the descriptors the process may have open for clients
  MaxChefs,  \* the length of chef_fds: 1000 in the code
  Nobody     \* the value of a free descriptor

ASSUME ConnectionAssumption ==
  /\ Fds \subseteq Nat \ {0} /\ IsFiniteSet(Fds)
  /\ MaxChefs \in Nat /\ Nobody \notin Clients

VARIABLES
  peer,    \* the client's end: away, open, left, aborted (with a reset) or reset
  table,   \* the descriptor table
  role,    \* the role its AUTH line asks for
  pc,      \* where the client's thread is
  fd,      \* its client_fd
  on,      \* the connection its blocked recv waits on
  booked,  \* the guests whose session has an order to be billed at the end
  chefs,   \* chef_fds
  alive    \* the server process has not been killed by SIGPIPE

vars == <<peer, table, role, pc, fd, on, booked, chefs, alive>>

Roles == {"GUEST", "ADMIN", "CHEF"}
Goto(c, p) == pc' = [pc EXCEPT ![c] = p]
Close(c) == table' = [table EXCEPT ![fd[c]] = Nobody]
Guest(c) == role[c] = "GUEST"

-----------------------------------------------------------------------------
\* send, to a set of descriptors: on a closed one it fails; after the client has
\* left the first may draw a reset, and one after the reset raises SIGPIPE,
\* which nothing catches.
Send(fds) ==
  LET hit == {table[f] : f \in fds} \ {Nobody} IN
  /\ \E answered \in SUBSET {c \in hit : peer[c] = "left"} :
       peer' = [c \in Clients |->
                  IF c \in answered \/ (c \in hit /\ peer[c] = "aborted") THEN "reset" ELSE peer[c]]
  /\ alive' = \A c \in hit : peer[c] # "reset"

\* broadcast_to_chefs sends to every entry of the list, under chef_fds_mutex.
Answer(c) == {fd[c]}
Updates == ToSet(chefs)

-----------------------------------------------------------------------------
\* A client connects and main accepts it, under the lowest free descriptor, and
\* starts its thread; when malloc or pthread_create fails it closes it again.
Accept(c) ==
  /\ pc[c] = "none" /\ on[c] = Nobody
  /\ c \notin {table[f] : f \in Fds} /\ c \notin {on[d] : d \in Clients}
  /\ \E f \in Fds :
       /\ table[f] = Nobody
       /\ \A g \in Fds : table[g] = Nobody => f <= g
       /\ table' = [table EXCEPT ![f] = c]
       /\ fd' = [fd EXCEPT ![c] = f]
  /\ peer' = [peer EXCEPT ![c] = "open"]
  /\ Goto(c, "hello")
  /\ UNCHANGED <<role, on, booked, chefs, alive>>

\* The client closes its end at any time, or dies with answers unread.
ClientLeaves(c) ==
  /\ peer[c] = "open"
  /\ peer' \in {[peer EXCEPT ![c] = p] : p \in {"left", "aborted"}}
  /\ UNCHANGED <<table, role, pc, fd, on, booked, chefs, alive>>

\* recv, in handle_client or in a handler, blocks on the connection it finds.
Recv(c) ==
  /\ pc[c] \in {"hello", "ready"} /\ on[c] = Nobody
  /\ table[fd[c]] # Nobody
  /\ on' = [on EXCEPT ![c] = table[fd[c]]]
  /\ UNCHANGED <<peer, table, role, pc, fd, booked, chefs, alive>>

\* recv returns a line.
Line(c) ==
  /\ on[c] # Nobody /\ peer[on[c]] = "open"
  /\ on' = [on EXCEPT ![c] = Nobody]
  /\ IF pc[c] = "hello"
     THEN Goto(c, "checking") /\ \E r \in Roles : role' = [role EXCEPT ![c] = r]
     ELSE Goto(c, "working") /\ UNCHANGED role
  /\ UNCHANGED <<peer, table, fd, booked, chefs, alive>>

\* Mutant of EndOfInput: a connection that ends before its first line is not closed.
EndOfInputUnclosed(c) ==
  /\ on[c] # Nobody /\ peer[on[c]] \in {"left", "reset"}
  /\ on' = [on EXCEPT ![c] = Nobody]
  /\ Goto(c, IF pc[c] = "hello" THEN "none"
             ELSE IF c \in booked THEN "billing"
             ELSE "closing")
  /\ UNCHANGED <<peer, table, role, fd, booked, chefs, alive>>

\* Mutant of EndOfInput: only a negative result of recv ends the chef's loop.
EndOfInputLoops(c) ==
  /\ on[c] # Nobody /\ peer[on[c]] \in {"left", "reset"}
  /\ on' = [on EXCEPT ![c] = Nobody]
  /\ Goto(c, IF pc[c] = "hello" THEN "last"
             ELSE IF role[c] = "CHEF" THEN "ready"
             ELSE IF c \in booked THEN "billing"
             ELSE "closing")
  /\ UNCHANGED <<peer, table, role, fd, booked, chefs, alive>>

\* recv returns 0.  A guest is billed before its handler closes.
EndOfInput(c) ==
  /\ on[c] # Nobody /\ peer[on[c]] \in {"left", "reset"}
  /\ on' = [on EXCEPT ![c] = Nobody]
  /\ Goto(c, IF pc[c] = "hello" THEN "last"
             ELSE IF c \in booked THEN "billing"
             ELSE "closing")
  /\ UNCHANGED <<peer, table, role, fd, booked, chefs, alive>>

\* recv returns -1: the descriptor is closed, or the connection was reset.
RecvError(c) ==
  /\ pc[c] \in {"hello", "ready"}
  /\ IF on[c] = Nobody THEN table[fd[c]] = Nobody /\ UNCHANGED peer
     ELSE peer[on[c]] = "aborted" /\ peer' = [peer EXCEPT ![on[c]] = "reset"]
  /\ on' = [on EXCEPT ![c] = Nobody]
  /\ Goto(c, IF pc[c] = "hello" THEN "last" ELSE IF Guest(c) THEN "broken" ELSE "closing")
  /\ UNCHANGED <<table, role, fd, booked, chefs, alive>>

-----------------------------------------------------------------------------
\* Mutant of Authenticated: the limit of chef_fds is one too high.
AuthenticatedOneMore(c) ==
  /\ pc[c] = "checking"
  /\ IF role[c] = "CHEF"
     THEN Len(chefs) <= MaxChefs /\ chefs' = Append(chefs, fd[c])
     ELSE UNCHANGED chefs
  /\ Send(Answer(c))
  /\ Goto(c, "ready")
  /\ UNCHANGED <<table, role, fd, on, booked>>


\* The client is let in; a chef is listed before its answer, under the mutex.
Authenticated(c) ==
  /\ pc[c] = "checking"
  /\ IF role[c] = "CHEF"
     THEN Len(chefs) < MaxChefs /\ chefs' = Append(chefs, fd[c])
     ELSE UNCHANGED chefs
  /\ Send(Answer(c))
  /\ Goto(c, "ready")
  /\ UNCHANGED <<table, role, fd, on, booked>>

\* Every other way out of the authentication: a malformed line, an unknown role,
\* a wrong password, a full list of chefs.
Refuse(c) ==
  /\ pc[c] = "checking"
  /\ Send(Answer(c))
  /\ Goto(c, "last")
  /\ UNCHANGED <<table, role, fd, on, booked, chefs>>

\* A command: some tell the kitchen, one of a guest's gives it an order, and
\* mark_prepared answers only by the update.
Serve(c) ==
  /\ pc[c] = "working"
  /\ \/ Send(Answer(c)) /\ UNCHANGED booked
     \/ Guest(c) /\ Send(Answer(c)) /\ booked' = booked \cup {c}
     \/ Send(Updates) /\ role[c] = "CHEF" /\ UNCHANGED booked
     \/ Send(Updates \cup Answer(c)) /\ (c \in booked \/ role[c] = "ADMIN") /\ UNCHANGED booked
  /\ Goto(c, "ready")
  /\ UNCHANGED <<table, role, fd, on, chefs>>

\* LOGOUT: the guest gets its goodbye first and the answer to the bill after it.
Logout(c) ==
  /\ pc[c] = "working" /\ Guest(c)
  /\ Send(Answer(c))
  /\ Goto(c, IF c \in booked THEN "billing" ELSE "closing")
  /\ UNCHANGED <<table, role, fd, on, booked, chefs>>

\* generate_bill at the end of a session; what is not prepared is taken off the
\* kitchen's lists.
Bill(c) ==
  /\ Send(Answer(c)) \/ Send(Updates \cup Answer(c))
  /\ booked' = booked \ {c}

BillAtEnd(c) ==
  /\ pc[c] = "billing"
  /\ Bill(c)
  /\ Goto(c, "closing")
  /\ UNCHANGED <<table, role, fd, on, chefs>>

\* Mutant of CloseThenBill: the bill is left out on this path.
CloseOnly(c) ==
  /\ pc[c] = "broken"
  /\ Close(c)
  /\ Goto(c, "closed")
  /\ UNCHANGED <<peer, role, fd, on, booked, chefs, alive>>

\* After an error of recv the descriptor is closed first.
CloseThenBill(c) ==
  /\ pc[c] = "broken"
  /\ Close(c)
  /\ Goto(c, IF c \in booked THEN "late" ELSE "closed")
  /\ UNCHANGED <<peer, role, fd, on, booked, chefs, alive>>

BillLate(c) ==
  /\ pc[c] = "late"
  /\ Bill(c)
  /\ Goto(c, "closed")
  /\ UNCHANGED <<table, role, fd, on, chefs>>

\* The handlers of guests and admins close their descriptor; a chef's does not.
HandlerReturns(c) ==
  /\ pc[c] = "closing"
  /\ IF role[c] = "CHEF" THEN Goto(c, "last") /\ UNCHANGED table
     ELSE Goto(c, "closed") /\ Close(c)
  /\ UNCHANGED <<peer, role, fd, on, booked, chefs, alive>>

\* Back in handle_client a guest falls through to the check of its password,
\* which it need not have sent, or of its role, which is not ADMIN or CHEF.
FallThrough(c) ==
  /\ pc[c] = "closed"
  /\ IF Guest(c) THEN Send(Answer(c)) ELSE UNCHANGED <<peer, alive>>
  /\ Goto(c, "last")
  /\ UNCHANGED <<table, role, fd, on, booked, chefs>>

\* handle_client closes the descriptor, and the thread ends and forgets it.
LastClose(c) ==
  /\ pc[c] = "last"
  /\ Close(c)
  /\ Goto(c, "none")
  /\ role' = [role EXCEPT ![c] = "none"]
  /\ fd' = [fd EXCEPT ![c] = 0]
  /\ UNCHANGED <<peer, on, booked, chefs, alive>>

-----------------------------------------------------------------------------
Init ==
  /\ peer = [c \in Clients |-> "away"]
  /\ table = [f \in Fds |-> Nobody]
  /\ role = [c \in Clients |-> "none"]
  /\ pc = [c \in Clients |-> "none"]
  /\ fd = [c \in Clients |-> 0]
  /\ on = [c \in Clients |-> Nobody]
  /\ booked = {}
  /\ chefs = <<>>
  /\ alive = TRUE

Thread(c) ==
  /\ alive
  /\ \/ Recv(c) \/ Line(c) \/ EndOfInput(c) \/ RecvError(c)
     \/ Authenticated(c) \/ Refuse(c)
     \/ Serve(c) \/ Logout(c) \/ BillAtEnd(c)
     \/ CloseThenBill(c) \/ BillLate(c)
     \/ HandlerReturns(c) \/ FallThrough(c) \/ LastClose(c)

Next == \E c \in Clients : (alive /\ Accept(c)) \/ ClientLeaves(c) \/ Thread(c)
Spec == Init /\ [][Next]_vars
\* Threads run; nobody has to connect, to ask for anything or to leave.
FairSpec == Spec /\ \A c \in Clients : WF_vars(Thread(c))

-----------------------------------------------------------------------------
TypeOK ==
  /\ peer \in [Clients -> {"away", "open", "left", "aborted", "reset"}]
  /\ table \in [Fds -> Clients \cup {Nobody}]
  /\ role \in [Clients -> Roles \cup {"none"}]
  /\ pc \in [Clients -> {"none", "hello", "checking", "ready", "working", "billing",
                         "broken", "late", "closing", "closed", "last"}]
  /\ fd \in [Clients -> Fds \cup {0}]
  /\ on \in [Clients -> Clients \cup {Nobody}]
  /\ booked \subseteq Clients
  /\ chefs \in Seq(Fds) /\ Len(chefs) <= MaxChefs
  /\ alive \in BOOLEAN

\* No path through handle_client and the handlers loses a descriptor: an open one
\* belongs to a thread that will still close it, even when others have closed it
\* under that thread before.
NoLostDescriptor ==
  \A f \in Fds : table[f] # Nobody => pc[table[f]] # "none" /\ fd[table[f]] = f

\* However its session ends, by logout, a departure, an error of recv or a
\* descriptor that another thread closed, guest_handler bills the guest's order.
EveryGuestBilled ==
  \A c \in Clients :
    pc[c] \in {"none", "hello", "checking", "closing", "closed", "last"} => c \notin booked

\* A chef who is served is on the list of broadcast_to_chefs, whatever the
\* limit of the list and whoever else has come and gone.
ChefsAreListed ==
  \A c \in Clients : role[c] = "CHEF" /\ pc[c] \in {"ready", "working"} => fd[c] \in ToSet(chefs)

\* A thread that waits on its own client's connection ends when the client leaves.
DepartureNoticed ==
  \A c \in Clients :
    (on[c] = c /\ peer[c] \in {"left", "aborted", "reset"}) ~> (pc[c] = "none" \/ ~alive)
=============================================================================
