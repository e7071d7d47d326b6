------------------------- MODULE ConnectionsProofs -------------------------
(* Machine-checked properties of the server's connections, for any clients, *)
(* descriptors and limit of the list of chefs.                              *)
EXTENDS Connections, TLAPS

\* A blocked recv is one of the two the code has.
RecvPlaces == \A c \in Clients : on[c] # Nobody => pc[c] \in {"hello", "ready"}
\* A running thread has a descriptor.
ThreadHasFd == \A c \in Clients : pc[c] # "none" => fd[c] \in Fds
\* Only guests have an order.
OnlyGuestsBook == \A c \in booked : role[c] = "GUEST"

ConnectionInv ==
  TypeOK /\ RecvPlaces /\ ThreadHasFd /\ OnlyGuestsBook
    /\ NoLostDescriptor /\ EveryGuestBilled /\ ChefsAreListed

(***************************************************************************)
(* Sending changes only the clients' ends and may kill the server.         *)
(***************************************************************************)
LEMMA SendTypes ==
  ASSUME NEW fds, TypeOK, Send(fds)
  PROVE  /\ peer' \in [Clients -> {"away", "open", "left", "aborted", "reset"}]
         /\ alive' \in BOOLEAN
<1>1. peer' \in [Clients -> {"away", "open", "left", "aborted", "reset"}]
  BY DEF Send, TypeOK
<1>2. alive' \in BOOLEAN
  BY DEF Send
<1> QED BY <1>1, <1>2

\* Closing keeps the table's type and gives nobody a connection.
LEMMA CloseTable ==
  ASSUME TypeOK, NEW c \in Clients, Close(c)
  PROVE  /\ table' \in [Fds -> Clients \cup {Nobody}]
         /\ \A f \in Fds : table'[f] # Nobody => table'[f] = table[f] /\ f # fd[c]
BY DEF TypeOK, Close

\* What is in the list stays in it when it grows, and the new entry is in it.
LEMMA ListGrows ==
  ASSUME chefs \in Seq(Fds), NEW f \in Fds, chefs' = Append(chefs, f)
  PROVE  /\ chefs' \in Seq(Fds) /\ Len(chefs') = Len(chefs) + 1
         /\ f \in ToSet(chefs') /\ ToSet(chefs) \subseteq ToSet(chefs')
<1>1. chefs' \in Seq(Fds) /\ Len(chefs') = Len(chefs) + 1
  OBVIOUS
<1>2. f = chefs'[Len(chefs) + 1]
  OBVIOUS
<1>3. \A i \in 1 .. Len(chefs) : chefs'[i] = chefs[i]
  OBVIOUS
<1> QED BY <1>1, <1>2, <1>3 DEF ToSet

-----------------------------------------------------------------------------
LEMMA InitInv == Init => ConnectionInv
<1> SUFFICES ASSUME Init PROVE ConnectionInv
  OBVIOUS
<1>1. TypeOK
  BY ConnectionAssumption DEF Init, TypeOK
<1> QED BY <1>1, ConnectionAssumption DEF Init, ConnectionInv, RecvPlaces, ThreadHasFd,
             OnlyGuestsBook, NoLostDescriptor, EveryGuestBilled, ChefsAreListed

\* A new connection.
LEMMA AcceptInv == ASSUME ConnectionInv, NEW c \in Clients, Accept(c) PROVE ConnectionInv'
<1> USE DEF ConnectionInv
<1>1. TypeOK'
  BY DEF TypeOK, Accept, Goto
<1>2. NoLostDescriptor'
  BY ConnectionAssumption DEF TypeOK, Accept, Goto, NoLostDescriptor
<1>3. RecvPlaces' /\ ThreadHasFd'
  BY DEF TypeOK, Accept, Goto, RecvPlaces, ThreadHasFd
<1>4. OnlyGuestsBook' /\ EveryGuestBilled' /\ ChefsAreListed'
  BY DEF TypeOK, Accept, Goto, OnlyGuestsBook, EveryGuestBilled, ChefsAreListed
<1> QED BY <1>1, <1>2, <1>3, <1>4

\* A client's departure changes only its own end.
LEMMA ClientInv == ASSUME ConnectionInv, NEW c \in Clients, ClientLeaves(c) PROVE ConnectionInv'
BY DEF ConnectionInv, ClientLeaves, TypeOK, RecvPlaces, ThreadHasFd, OnlyGuestsBook,
       NoLostDescriptor, EveryGuestBilled, ChefsAreListed

\* recv, while it waits and when it returns.
LEMMA RecvInv ==
  ASSUME ConnectionInv, NEW c \in Clients, Recv(c) \/ Line(c) \/ EndOfInput(c) \/ RecvError(c)
  PROVE  ConnectionInv'
<1> USE DEF ConnectionInv
<1>1. TypeOK'
  <2>1. CASE Recv(c) BY <2>1 DEF TypeOK, Recv, ThreadHasFd
  <2>2. CASE Line(c) BY <2>2 DEF TypeOK, Line, Goto, Roles
  <2>3. CASE EndOfInput(c) BY <2>3 DEF TypeOK, EndOfInput, Goto
  <2>4. CASE RecvError(c) BY <2>4 DEF TypeOK, RecvError, Goto
  <2> QED BY <2>1, <2>2, <2>3, <2>4
<1>2. RecvPlaces' /\ ThreadHasFd'
  BY DEF TypeOK, Recv, Line, EndOfInput, RecvError, Goto, RecvPlaces, ThreadHasFd
<1>3. NoLostDescriptor'
  BY DEF TypeOK, Recv, Line, EndOfInput, RecvError, Goto, RecvPlaces, NoLostDescriptor
<1>4. OnlyGuestsBook' /\ EveryGuestBilled'
  BY DEF TypeOK, Recv, Line, EndOfInput, RecvError, Goto, Guest, RecvPlaces, OnlyGuestsBook, EveryGuestBilled
<1>5. ChefsAreListed'
  BY DEF TypeOK, Recv, Line, EndOfInput, RecvError, Goto, RecvPlaces, ChefsAreListed
<1> QED BY <1>1, <1>2, <1>3, <1>4, <1>5

\* The way into a handler, or past it.
LEMMA AuthenticationInv ==
  ASSUME ConnectionInv, NEW c \in Clients, Authenticated(c) \/ Refuse(c)
  PROVE  ConnectionInv'
<1> USE DEF ConnectionInv
<1>1. Send(Answer(c)) /\ UNCHANGED <<table, role, fd, on, booked>> /\ pc[c] = "checking"
  BY DEF Authenticated, Refuse
<1>2. CASE Authenticated(c)
  <2>1. /\ chefs' \in Seq(Fds) /\ Len(chefs') <= MaxChefs
        /\ ToSet(chefs) \subseteq ToSet(chefs')
        /\ role[c] = "CHEF" => fd[c] \in ToSet(chefs')
    <3>1. CASE role[c] = "CHEF"
      <4>1. fd[c] \in Fds /\ chefs \in Seq(Fds)
        BY <1>1 DEF TypeOK, ThreadHasFd
      <4>2. chefs' = Append(chefs, fd[c]) /\ Len(chefs) < MaxChefs
        BY <1>2, <3>1 DEF Authenticated
      <4>3. /\ chefs' \in Seq(Fds) /\ Len(chefs') = Len(chefs) + 1
            /\ fd[c] \in ToSet(chefs') /\ ToSet(chefs) \subseteq ToSet(chefs')
        BY <4>1, <4>2, ListGrows
      <4>4. Len(chefs') <= MaxChefs
        <5>1. Len(chefs) \in Nat
          BY <4>1
        <5> QED BY <4>2, <4>3, <5>1, ConnectionAssumption
      <4> QED BY <4>3, <4>4
    <3>2. CASE role[c] # "CHEF"
      BY <1>2, <3>2 DEF Authenticated, TypeOK
    <3> QED BY <3>1, <3>2
  <2>2. pc' = [pc EXCEPT ![c] = "ready"]
    BY <1>2 DEF Authenticated, Goto
  <2>3. TypeOK'
    BY <1>1, <2>1, <2>2, SendTypes DEF TypeOK
  <2>4. RecvPlaces' /\ ThreadHasFd' /\ OnlyGuestsBook' /\ NoLostDescriptor' /\ EveryGuestBilled'
    BY <1>1, <2>2 DEF TypeOK, RecvPlaces, ThreadHasFd, OnlyGuestsBook, NoLostDescriptor, EveryGuestBilled
  <2>5. ChefsAreListed'
    BY <1>1, <2>1, <2>2 DEF TypeOK, ChefsAreListed
  <2> QED BY <2>3, <2>4, <2>5
<1>3. CASE Refuse(c)
  <2>1. pc' = [pc EXCEPT ![c] = "last"] /\ UNCHANGED chefs
    BY <1>3 DEF Refuse, Goto
  <2>2. TypeOK'
    BY <1>1, <2>1, SendTypes DEF TypeOK
  <2> QED BY <1>1, <2>1, <2>2 DEF TypeOK, RecvPlaces, ThreadHasFd, OnlyGuestsBook, NoLostDescriptor,
               EveryGuestBilled, ChefsAreListed
<1> QED BY <1>2, <1>3

\* Commands and bills: they send and change what is booked.
LEMMA ServiceInv ==
  ASSUME ConnectionInv, NEW c \in Clients, Serve(c) \/ Logout(c) \/ BillAtEnd(c) \/ BillLate(c)
  PROVE  ConnectionInv'
<1> USE DEF ConnectionInv
<1>1. /\ UNCHANGED <<table, role, fd, on, chefs>>
      /\ \E fds : Send(fds)
  BY DEF Serve, Logout, BillAtEnd, BillLate, Bill
<1>2. /\ pc' \in [Clients -> {"none", "hello", "checking", "ready", "working", "billing",
                              "broken", "late", "closing", "closed", "last"}]
      /\ booked' \subseteq Clients
  BY DEF TypeOK, Serve, Logout, BillAtEnd, BillLate, Bill, Goto
<1>3. TypeOK'
  BY <1>1, <1>2, SendTypes DEF TypeOK
<1>4. RecvPlaces' /\ ThreadHasFd' /\ NoLostDescriptor'
  BY <1>1 DEF TypeOK, Serve, Logout, BillAtEnd, BillLate, Goto, RecvPlaces, ThreadHasFd, NoLostDescriptor
<1>5. OnlyGuestsBook' /\ EveryGuestBilled'
  BY <1>1 DEF TypeOK, Serve, Logout, BillAtEnd, BillLate, Bill, Goto, Guest, OnlyGuestsBook, EveryGuestBilled
<1>6. ChefsAreListed'
  BY <1>1 DEF TypeOK, Serve, Logout, BillAtEnd, BillLate, Goto, ChefsAreListed
<1> QED BY <1>3, <1>4, <1>5, <1>6

\* The ways out of a handler and the end of the thread.
LEMMA CloseInv ==
  ASSUME ConnectionInv, NEW c \in Clients,
         CloseThenBill(c) \/ HandlerReturns(c) \/ FallThrough(c) \/ LastClose(c)
  PROVE  ConnectionInv'
<1> USE DEF ConnectionInv
<1>1. CASE CloseThenBill(c) \/ HandlerReturns(c)
  <2>1. /\ table' \in [Fds -> Clients \cup {Nobody}]
        /\ \A f \in Fds : table'[f] # Nobody => table'[f] = table[f]
    BY <1>1, CloseTable DEF CloseThenBill, HandlerReturns, TypeOK
  <2>2. TypeOK'
    BY <1>1, <2>1 DEF TypeOK, CloseThenBill, HandlerReturns, Goto
  <2> QED BY <1>1, <2>1, <2>2 DEF TypeOK, CloseThenBill, HandlerReturns, Goto, RecvPlaces, ThreadHasFd,
               OnlyGuestsBook, NoLostDescriptor, EveryGuestBilled, ChefsAreListed
<1>2. CASE FallThrough(c)
  <2>1. TypeOK'
    BY <1>2, SendTypes DEF TypeOK, FallThrough, Goto
  <2> QED BY <1>2, <2>1 DEF TypeOK, FallThrough, Goto, RecvPlaces, ThreadHasFd,
               OnlyGuestsBook, NoLostDescriptor, EveryGuestBilled, ChefsAreListed
<1>3. CASE LastClose(c)
  <2>1. /\ table' \in [Fds -> Clients \cup {Nobody}]
        /\ \A f \in Fds : table'[f] # Nobody => table'[f] = table[f] /\ f # fd[c]
    BY <1>3, CloseTable DEF LastClose
  <2>2. TypeOK'
    BY <1>3, <2>1 DEF TypeOK, LastClose, Goto
  <2>3. NoLostDescriptor'
    BY <1>3, <2>1 DEF TypeOK, LastClose, Goto, NoLostDescriptor
  <2> QED BY <1>3, <2>2, <2>3 DEF TypeOK, LastClose, Goto, RecvPlaces, ThreadHasFd,
               OnlyGuestsBook, EveryGuestBilled, ChefsAreListed
<1> QED BY <1>1, <1>2, <1>3

\* Every step keeps the invariant.
LEMMA StepInv == ConnectionInv /\ [Next]_vars => ConnectionInv'
<1> SUFFICES ASSUME ConnectionInv, [Next]_vars PROVE ConnectionInv'
  OBVIOUS
<1>1. CASE UNCHANGED vars
  BY <1>1 DEF vars, ConnectionInv, TypeOK, RecvPlaces, ThreadHasFd, OnlyGuestsBook,
              NoLostDescriptor, EveryGuestBilled, ChefsAreListed
<1>2. ASSUME NEW c \in Clients, Accept(c) \/ ClientLeaves(c) \/ Thread(c) PROVE ConnectionInv'
  <2>1. CASE Accept(c) \/ ClientLeaves(c)
    BY <2>1, AcceptInv, ClientInv
  <2>2. CASE Thread(c)
    BY <2>2, RecvInv, AuthenticationInv, ServiceInv, CloseInv DEF Thread
  <2> QED BY <1>2, <2>1, <2>2
<1> QED BY <1>1, <1>2 DEF Next

\* The whole inductive invariant.
THEOREM ConnectionsCorrect == Spec => []ConnectionInv
BY InitInv, StepInv, PTL DEF Spec

\* The list of chefs keeps within its limit and names only descriptors; and the
\* rest of the state has its shape.
THEOREM ConnectionTypes == Spec => []TypeOK
<1>1. ConnectionInv => TypeOK
  BY DEF ConnectionInv
<1> QED BY <1>1, ConnectionsCorrect, PTL

\* handle_client and the handlers lose no descriptor, whoever closes one twice.
THEOREM DescriptorsKept == Spec => []NoLostDescriptor
<1>1. ConnectionInv => NoLostDescriptor
  BY DEF ConnectionInv
<1> QED BY <1>1, ConnectionsCorrect, PTL

\* However a session ends, guest_handler has billed the guest's order.
THEOREM GuestsAreBilled == Spec => []EveryGuestBilled
<1>1. ConnectionInv => EveryGuestBilled
  BY DEF ConnectionInv
<1> QED BY <1>1, ConnectionsCorrect, PTL

\* A chef who is served is on the list that broadcast_to_chefs sends to.
THEOREM ServedChefsListed == Spec => []ChefsAreListed
<1>1. ConnectionInv => ChefsAreListed
  BY DEF ConnectionInv
<1> QED BY <1>1, ConnectionsCorrect, PTL
=============================================================================
