--------------------------- MODULE AccountsProofs ---------------------------
(* Machine-checked properties of the accounts, for any number of callers,   *)
(* names and slots.                                                         *)
EXTENDS Accounts, TLAPS

(***************************************************************************)
(* The shape of the state, and what a step does to the users file.         *)
(***************************************************************************)
CallFields == {"op", "account", "at", "slot", "length", "before", "answer"}
UserRecord == [name : DOMAIN Lower, password : DOMAIN Lower, role : {"ADMIN", "CHEF", "WAITER"}, deleted : BOOLEAN]
Shapes ==
  /\ users \in Seq(UserRecord) /\ Len(users) <= MaxUsers
  /\ \A s \in DOMAIN users : \E account \in Known :
       users[s] \in {Slot(account), [Slot(account) EXCEPT !.deleted = TRUE]}
  /\ failures \in Nat /\ failures <= MaxFailures
  /\ call = [c \in Callers |-> call[c]]
  /\ \A c \in Callers : DOMAIN call[c] = CallFields

\* What a call is, with the number of slots there are.
CallShape(k, n) ==
  /\ k.op \in Ops \cup {"none"} /\ k.account \in Known /\ k.at \in {"find", "change", "done"}
  /\ k.slot \in Nat /\ k.slot <= n + 1 /\ k.length \in Nat /\ k.length <= n
  /\ k.before \subseteq 1 .. k.length
  /\ k.op = "login" => k.at # "change"

\* The file grows: no account changes but for its mark, and the mark stays.
Grown(us, vs) ==
  /\ DOMAIN us \subseteq DOMAIN vs
  /\ \A s \in DOMAIN us : /\ vs[s].name = us[s].name /\ vs[s].password = us[s].password
                          /\ vs[s].role = us[s].role /\ (us[s].deleted => vs[s].deleted)

LEMMA SlotIs ==
  ASSUME NEW a \in Known
  PROVE  /\ Slot(a) \in UserRecord /\ [Slot(a) EXCEPT !.deleted = TRUE] \in UserRecord
         /\ Slot(a).name = a.name /\ Slot(a).deleted = FALSE
<1>1. a.name \in DOMAIN Lower /\ a.password \in DOMAIN Lower /\ a.role \in {"ADMIN", "CHEF", "WAITER"}
  BY AccountsAssumption
<1>2. Slot(a) = [name |-> a.name, password |-> a.password, role |-> a.role, deleted |-> FALSE]
  BY DEF Slot
<1>4. Slot(a) \in UserRecord /\ Slot(a).name = a.name /\ Slot(a).deleted = FALSE
  BY <1>1, <1>2 DEF UserRecord
<1>5. [Slot(a) EXCEPT !.deleted = TRUE] \in UserRecord
  BY <1>4 DEF UserRecord
<1> QED BY <1>4, <1>5

\* A record is added ...
LEMMA UserAdded ==
  ASSUME Shapes, NEW a \in Known, Len(users) < MaxUsers
  PROVE  LET vs == Append(users, Slot(a)) IN
         /\ vs \in Seq(UserRecord) /\ Len(vs) = Len(users) + 1 /\ Len(vs) <= MaxUsers /\ Grown(users, vs)
         /\ \A s \in DOMAIN vs : s \in DOMAIN users \/ (s = Len(users) + 1 /\ vs[s] = Slot(a))
         /\ \A s \in DOMAIN vs : \E b \in Known : vs[s] \in {Slot(b), [Slot(b) EXCEPT !.deleted = TRUE]}
<1> DEFINE e == Slot(a)
           vs == Append(users, e)
<1>1. e \in UserRecord /\ users \in Seq(UserRecord) /\ MaxUsers \in Nat
  BY SlotIs, AccountsAssumption DEF Shapes
<1> HIDE DEF e
<1>2. /\ vs \in Seq(UserRecord) /\ Len(vs) = Len(users) + 1 /\ Len(users) \in Nat
      /\ \A s \in DOMAIN vs : s \in DOMAIN users \/ (s = Len(users) + 1 /\ vs[s] = e)
      /\ \A s \in DOMAIN users : s \in DOMAIN vs /\ vs[s] = users[s]
  BY <1>1
<1>3. Len(vs) <= MaxUsers
  BY <1>1, <1>2
<1> HIDE DEF vs
<1>4. Grown(users, vs)
  BY <1>2 DEF Grown
<1>5. \A s \in DOMAIN vs : \E b \in Known : vs[s] \in {Slot(b), [Slot(b) EXCEPT !.deleted = TRUE]}
  <2>1. ASSUME NEW s \in DOMAIN users PROVE \E b \in Known : vs[s] \in {Slot(b), [Slot(b) EXCEPT !.deleted = TRUE]}
    BY <1>2 DEF Shapes
  <2>2. ASSUME NEW s \in DOMAIN vs, vs[s] = e PROVE \E b \in Known : vs[s] \in {Slot(b), [Slot(b) EXCEPT !.deleted = TRUE]}
    BY <2>2 DEF e
  <2> QED BY <1>2, <2>1, <2>2
<1> QED BY <1>2, <1>3, <1>4, <1>5 DEF vs, e

\* ... and a record is marked deleted.
LEMMA UserMarked ==
  ASSUME Shapes, NEW t \in DOMAIN users
  PROVE  LET vs == [users EXCEPT ![t].deleted = TRUE] IN
         /\ vs \in Seq(UserRecord) /\ Len(vs) = Len(users) /\ DOMAIN vs = DOMAIN users /\ Grown(users, vs)
         /\ \A s \in DOMAIN users : s # t => vs[s] = users[s]
         /\ \A s \in DOMAIN vs : \E b \in Known : vs[s] \in {Slot(b), [Slot(b) EXCEPT !.deleted = TRUE]}
<1> DEFINE e == [users[t] EXCEPT !.deleted = TRUE]
           vs == [users EXCEPT ![t].deleted = TRUE]
<1>1. users \in Seq(UserRecord) /\ users[t] \in UserRecord
  BY DEF Shapes
<1>2. e \in UserRecord /\ e.name = users[t].name /\ e.password = users[t].password /\ e.role = users[t].role /\ e.deleted = TRUE
  BY <1>1 DEF UserRecord
<1>3. vs = [users EXCEPT ![t] = e]
  BY <1>1
<1>4. \E b \in Known : e \in {Slot(b), [Slot(b) EXCEPT !.deleted = TRUE]}
  <2>1. PICK b \in Known : users[t] \in {Slot(b), [Slot(b) EXCEPT !.deleted = TRUE]}
    BY DEF Shapes
  <2>2. CASE users[t] = Slot(b)
    BY <2>2
  <2>3. CASE users[t] = [Slot(b) EXCEPT !.deleted = TRUE]
    <3>1. e = [Slot(b) EXCEPT !.deleted = TRUE]
      BY <2>3 DEF Slot
    <3> QED BY <3>1
  <2> QED BY <2>1, <2>2, <2>3
<1> HIDE DEF vs, e
<1>5. /\ vs \in Seq(UserRecord) /\ Len(vs) = Len(users) /\ DOMAIN vs = DOMAIN users
      /\ vs[t] = e /\ \A s \in DOMAIN users : s # t => vs[s] = users[s]
  BY <1>1, <1>2, <1>3
<1>6. Grown(users, vs)
  BY <1>2, <1>5 DEF Grown
<1>7. \A s \in DOMAIN vs : \E b \in Known : vs[s] \in {Slot(b), [Slot(b) EXCEPT !.deleted = TRUE]}
  BY <1>4, <1>5 DEF Shapes
<1> QED BY <1>5, <1>6, <1>7 DEF vs

-----------------------------------------------------------------------------
(***************************************************************************)
(* What a call knows of the file, and has to say for itself: the find of a *)
(* login has passed no account that fits, the find of an add has passed    *)
(* its name only if another add of it runs or ran beside it, and a remove  *)
(* is about to delete an account of its name.                              *)
(***************************************************************************)
NameOf(us, s, a) == Lower[us[s].name] = Lower[a.name]
Fits(us, s, a)   == NameOf(us, s, a) /\ Lower[us[s].password] = Lower[a.password]
There(us, s)     == s \in DOMAIN us /\ us[s].deleted = FALSE
\* Accounts there at some time of the call k.
Once(us, k, s)   == s \in k.before \/ (s \in DOMAIN us /\ s > k.length)

Covers(k, us) == k.at # "done" => \A s \in DOMAIN us : There(us, s) /\ s <= k.length => s \in k.before
Removes(k, us) == k.op = "remove" /\ k.at = "change" => k.slot \in DOMAIN us /\ NameOf(us, k.slot, k.account)
Passes(k, us) == k.op = "login" /\ k.at = "find" =>
                   \A s \in DOMAIN us : There(us, s) /\ s < k.slot => ~Fits(us, s, k.account)
LetIn(k, us) == k.op = "login" /\ k.at = "done" /\ k.answer = "OK" =>
  \/ IsRoot(k.account) /\ k.account.password = RootPassword
  \/ \E s \in DOMAIN us : Once(us, k, s) /\ Fits(us, s, k.account) /\ us[s].role = k.account.role
TurnedAway(k, us, failed) == k.op = "login" /\ k.at = "done" /\ k.answer = "FAILURE" /\ failed = 0 =>
  \A s \in DOMAIN us : s \in k.before /\ There(us, s) /\ Fits(us, s, k.account) /\ us[s].role = k.account.role =>
    \E t \in DOMAIN us : Once(us, k, t) /\ t < s /\ Fits(us, t, k.account) /\ us[t].role # k.account.role
Adds(k, us, failed, names) == failed = 0 /\ k.op = "add" /\ k.at # "done" =>
  \A s \in DOMAIN us : There(us, s) /\ NameOf(us, s, k.account) =>
    Lower[k.account.name] \in names \/ (k.at = "find" /\ k.slot <= s /\ s <= k.length)
Good(k, us, failed, names) ==
  /\ CallShape(k, Len(us)) /\ Covers(k, us) /\ Removes(k, us) /\ Passes(k, us)
  /\ LetIn(k, us) /\ TurnedAway(k, us, failed) /\ Adds(k, us, failed, names)

\* A call is none the worse for what the others do.
LEMMA GoodStays ==
  ASSUME NEW us \in Seq(UserRecord), NEW vs \in Seq(UserRecord), Grown(us, vs), Len(us) <= Len(vs),
         NEW k, NEW f \in Nat, NEW g \in Nat, f <= g, NEW N, NEW M, N \subseteq M, Good(k, us, f, N),
         g = 0 /\ k.op = "add" /\ k.at # "done" =>
           \A s \in DOMAIN vs \ DOMAIN us : There(vs, s) /\ NameOf(vs, s, k.account) => Lower[k.account.name] \in M
  PROVE  Good(k, vs, g, M)
<1>1. /\ \A s \in DOMAIN us : /\ s \in DOMAIN vs /\ (There(vs, s) => There(us, s))
                             /\ vs[s].role = us[s].role
                             /\ \A a : (NameOf(vs, s, a) <=> NameOf(us, s, a)) /\ (Fits(vs, s, a) <=> Fits(us, s, a))
  BY DEF Grown, There, NameOf, Fits, UserRecord
<1>2. /\ k.slot \in Nat /\ k.length \in Nat /\ k.slot <= Len(us) + 1 /\ k.length <= Len(us) /\ Len(us) \in Nat
      /\ k.before \subseteq 1 .. k.length
  BY DEF Good, CallShape
<1>3. \A s \in DOMAIN vs : s \in DOMAIN us \/ (s >= k.slot /\ s > k.length)
  BY <1>2
<1>4. CallShape(k, Len(vs))
  <2>1. Len(vs) \in Nat
    OBVIOUS
  <2>2. k.slot <= Len(vs) + 1 /\ k.length <= Len(vs)
    <3>1. \A m, n, l \in Nat : n <= l /\ m <= n + 1 => m <= l + 1
      OBVIOUS
    <3>2. \A m, n, l \in Nat : n <= l /\ m <= n => m <= l
      OBVIOUS
    <3>3. Len(us) <= Len(vs)
      OBVIOUS
    <3> QED BY <1>2, <2>1, <3>1, <3>2, <3>3
  <2> QED BY <2>2 DEF Good, CallShape
<1>a. \A s \in DOMAIN vs : s \in Int
  OBVIOUS
<1>5. Covers(k, vs)
  BY <1>1, <1>2, <1>3, <1>a DEF Good, Covers
<1>6. Removes(k, vs)
  BY <1>1 DEF Good, Removes
<1>7. Passes(k, vs)
  BY <1>1, <1>2, <1>3, <1>a DEF Good, Passes
<1>b. \A s \in DOMAIN us : Once(us, k, s) => Once(vs, k, s)
  BY <1>1 DEF Once
<1>8. LetIn(k, vs)
  BY <1>1, <1>b DEF Good, LetIn
<1>9. TurnedAway(k, vs, g)
  <2> SUFFICES ASSUME k.op = "login", k.at = "done", k.answer = "FAILURE", g = 0,
                      NEW s \in DOMAIN vs, s \in k.before, There(vs, s), Fits(vs, s, k.account), vs[s].role = k.account.role
               PROVE  \E t \in DOMAIN vs : Once(vs, k, t) /\ t < s /\ Fits(vs, t, k.account) /\ vs[t].role # k.account.role
    BY DEF TurnedAway
  <2>1. s \in DOMAIN us /\ f = 0
    BY <1>2
  <2>2. PICK t \in DOMAIN us : Once(us, k, t) /\ t < s /\ Fits(us, t, k.account) /\ us[t].role # k.account.role
    BY <1>1, <2>1 DEF Good, TurnedAway
  <2> QED BY <1>1, <1>b, <2>2
<1>10. Adds(k, vs, g, M)
  <2> SUFFICES ASSUME g = 0, k.op = "add", k.at # "done", NEW s \in DOMAIN vs, There(vs, s), NameOf(vs, s, k.account)
               PROVE  Lower[k.account.name] \in M \/ (k.at = "find" /\ k.slot <= s /\ s <= k.length)
    BY DEF Adds
  <2>1. CASE s \in DOMAIN us
    <3>1. f = 0
      OBVIOUS
    <3> QED BY <1>1, <2>1, <3>1 DEF Good, Adds
  <2>2. CASE s \notin DOMAIN us
    BY <2>2
  <2> QED BY <2>1, <2>2
<1> QED BY <1>4, <1>5, <1>6, <1>7, <1>8, <1>9, <1>10 DEF Good

-----------------------------------------------------------------------------
Rushes(calls, names) ==
  \A c, d \in Callers : c # d /\ calls[c].op = "add" /\ calls[c].at # "done" /\ calls[d].op = "add"
      /\ calls[d].at # "done" /\ Lower[calls[c].account.name] = Lower[calls[d].account.name] =>
    Lower[calls[c].account.name] \in names
AccountsInv ==
  /\ Shapes /\ Rushes(call, rushed)
  /\ \A c \in Callers : Good(call[c], users, failures, rushed)

\* A call moves on, and the others stand.
Moves(c) == /\ call' = [d \in Callers |-> call'[d]] /\ DOMAIN call'[c] = CallFields
            /\ \A d \in Callers \ {c} : call'[d] = call[d]

\* A step of c that leaves the file as it was.
LEMMA QuietStep ==
  ASSUME AccountsInv, NEW c \in Callers, Moves(c), users' = users,
         failures' \in Nat, failures <= failures', failures' <= MaxFailures, rushed \subseteq rushed',
         Good(call'[c], users, failures', rushed'),
         call'[c].op = "add" /\ call'[c].at # "done" => call[c].op = "add" /\ call[c].at # "done" /\ call'[c].account = call[c].account
  PROVE  AccountsInv'
<1>1. Shapes'
  BY DEF AccountsInv, Shapes, Moves
<1>2. ASSUME NEW d \in Callers PROVE Good(call'[d], users', failures', rushed')
  <2>1. CASE d = c
    BY <2>1
  <2>2. CASE d # c
    <3>1. Grown(users, users) /\ Len(users) <= Len(users) /\ users \in Seq(UserRecord) /\ failures \in Nat
      BY DEF Grown, AccountsInv, Shapes
    <3>2. call'[d] = call[d] /\ Good(call[d], users, failures, rushed)
      BY <2>2 DEF AccountsInv, Moves
    <3> QED BY <3>1, <3>2, GoodStays
  <2> QED BY <2>1, <2>2
<1>3. Rushes(call', rushed')
  BY DEF AccountsInv, Rushes, Moves
<1> QED BY <1>1, <1>2, <1>3 DEF AccountsInv

\* Nothing is asked of a call that is over and was no login.
LEMMA GoodIdle ==
  ASSUME NEW us, Len(us) \in Nat, NEW f, NEW N
  PROVE  Good(Idle, us, f, N) /\ DOMAIN Idle = CallFields /\ Idle.op = "none" /\ Idle.at = "done"
<1>1. (CHOOSE a \in Known : TRUE) \in Known
  BY AccountsAssumption
<1>2. /\ Idle.op = "none" /\ Idle.account \in Known /\ Idle.at = "done" /\ Idle.slot = 0 /\ Idle.length = 0
      /\ Idle.before = {} /\ DOMAIN Idle = CallFields
  BY <1>1 DEF Idle, CallFields
<1>3. CallShape(Idle, Len(us))
  BY <1>2 DEF CallShape
<1> QED BY <1>2, <1>3 DEF Good, Covers, Removes, Passes, LetIn, TurnedAway, Adds

LEMMA AnswerIs ==
  ASSUME AccountsInv, NEW c \in Callers, NEW a, Answer(c, a)
  PROVE  /\ Moves(c)
         /\ call[c].op = "login" =>
              /\ call'[c].op = "login" /\ call'[c].account = call[c].account /\ call'[c].at = "done"
              /\ call'[c].slot = 0 /\ call'[c].length = call[c].length /\ call'[c].before = call[c].before
              /\ call'[c].answer = a
         /\ call[c].op # "login" => call'[c] = Idle
<1>0. call = [d \in Callers |-> call[d]] /\ DOMAIN call[c] = CallFields /\ Len(users) \in Nat
  BY DEF AccountsInv, Shapes
<1>1. CASE call[c].op = "login"
  <2> DEFINE k == [call[c] EXCEPT !.at = "done", !.slot = 0, !.answer = a]
  <2>1. call' = [call EXCEPT ![c] = k]
    BY <1>1 DEF Answer
  <2>2. /\ DOMAIN k = CallFields /\ k.op = "login" /\ k.account = call[c].account /\ k.at = "done"
        /\ k.slot = 0 /\ k.length = call[c].length /\ k.before = call[c].before /\ k.answer = a
    BY <1>0, <1>1 DEF CallFields
  <2> HIDE DEF k
  <2>3. call'[c] = k /\ call' = [d \in Callers |-> call'[d]] /\ \A d \in Callers \ {c} : call'[d] = call[d]
    BY <1>0, <2>1
  <2> QED BY <1>1, <2>2, <2>3 DEF Moves
<1>2. CASE call[c].op # "login"
  <2>1. call' = [call EXCEPT ![c] = Idle]
    BY <1>2 DEF Answer
  <2>2. call'[c] = Idle /\ call' = [d \in Callers |-> call'[d]] /\ \A d \in Callers \ {c} : call'[d] = call[d]
    BY <1>0, <2>1
  <2> QED BY <1>0, <1>2, <2>2, GoodIdle DEF Moves
<1> QED BY <1>1, <1>2

\* A call that only goes on: to another slot, or to the change.
LEMMA NextSlot ==
  ASSUME AccountsInv, NEW c \in Callers, NEW slot, call' = [call EXCEPT ![c].slot = slot]
  PROVE  /\ Moves(c) /\ call'[c].op = call[c].op /\ call'[c].account = call[c].account /\ call'[c].at = call[c].at
         /\ call'[c].slot = slot /\ call'[c].length = call[c].length /\ call'[c].before = call[c].before
         /\ call'[c].answer = call[c].answer
<1>0. call = [d \in Callers |-> call[d]] /\ DOMAIN call[c] = CallFields
  BY DEF AccountsInv, Shapes
<1> QED BY <1>0 DEF CallFields, Moves

LEMMA ChangeIs ==
  ASSUME AccountsInv, NEW c \in Callers, Change(c)
  PROVE  /\ Moves(c) /\ call'[c].op = call[c].op /\ call'[c].account = call[c].account /\ call'[c].at = "change"
         /\ call'[c].slot = call[c].slot /\ call'[c].length = call[c].length /\ call'[c].before = call[c].before
         /\ call'[c].answer = call[c].answer
<1>0. call = [d \in Callers |-> call[d]] /\ DOMAIN call[c] = CallFields
  BY DEF AccountsInv, Shapes
<1> QED BY <1>0 DEF CallFields, Moves, Change

LEMMA ThereIs ==
  ASSUME Shapes
  PROVE  \A s \in DOMAIN users : /\ s \in Int /\ s >= 1 /\ s <= Len(users)
                                 /\ (There(users, s) <=> ~users[s].deleted) /\ (There(users, s) <=> s \in Live)
BY DEF Shapes, There, UserRecord, Live, Slots

LEMMA MatchIs ==
  ASSUME NEW c, NEW s
  PROVE  Matches(c, s) <=> /\ ~users[s].deleted /\ NameOf(users, s, call[c].account)
                           /\ call[c].op = "login" => Fits(users, s, call[c].account)
BY DEF Matches, SameName, SamePassword, NameOf, Fits

-----------------------------------------------------------------------------
(***************************************************************************)
(* The steps of a call.                                                    *)
(***************************************************************************)
LEMMA BeginStep ==
  ASSUME AccountsInv, NEW c \in Callers, NEW op \in Ops, NEW account \in Known, Begin(c, op, account)
  PROVE  AccountsInv'
<1> DEFINE k == [op |-> op, account |-> account, at |-> "find", slot |-> 1, length |-> Len(users),
                 before |-> Live, answer |-> "none"]
<1>0. Shapes /\ failures \in Nat /\ Len(users) \in Nat /\ call = [d \in Callers |-> call[d]] /\ failures <= MaxFailures
  BY DEF AccountsInv, Shapes
<1>1. call' = [call EXCEPT ![c] = k] /\ UNCHANGED <<users, failures>> /\ call[c].at = "done"
  BY DEF Begin, Running
<1>2. /\ DOMAIN k = CallFields /\ k.op = op /\ k.account = account /\ k.at = "find" /\ k.slot = 1
      /\ k.length = Len(users) /\ k.before = Live
  BY DEF CallFields
<1> HIDE DEF k
<1>3. call'[c] = k /\ Moves(c)
  BY <1>0, <1>1, <1>2 DEF Moves
<1>4. rushed' = rushed \cup
       {Lower[account.name] : d \in {d \in Callers : op = "add" /\ Running(d) /\ call[d].op = "add"
          /\ Lower[call[d].account.name] = Lower[account.name]}}
  BY DEF Begin
<1>5. rushed \subseteq rushed'
  BY <1>4
<1>6. ASSUME op = "add", NEW d \in Callers \ {c}, call[d].op = "add", call[d].at # "done",
             Lower[call[d].account.name] = Lower[account.name]
      PROVE  Lower[account.name] \in rushed'
  BY <1>4, <1>6 DEF Running
<1>7. \A s \in DOMAIN users : /\ s >= 1 /\ s <= Len(users) /\ s \in Int /\ (There(users, s) <=> s \in Live)
  BY <1>0, ThereIs
<1>8. Good(k, users, failures, rushed')
  <2>1. CallShape(k, Len(users))
    <3>1. Live \subseteq 1 .. Len(users)
      BY <1>0 DEF Live, Slots, Shapes
    <3> QED BY <1>0, <1>2, <3>1 DEF CallShape
  <2>2. Covers(k, users) /\ Removes(k, users) /\ LetIn(k, users) /\ TurnedAway(k, users, failures)
    BY <1>2, <1>7 DEF Covers, Removes, LetIn, TurnedAway
  <2>3. Passes(k, users) /\ Adds(k, users, failures, rushed')
    BY <1>2, <1>7 DEF Passes, Adds
  <2> QED BY <2>1, <2>2, <2>3 DEF Good
<1>9. Shapes'
  BY <1>1, <1>2, <1>3 DEF AccountsInv, Shapes, Moves
<1>10. ASSUME NEW d \in Callers PROVE Good(call'[d], users', failures', rushed')
  <2>1. CASE d = c
    BY <1>1, <1>3, <1>8, <2>1
  <2>2. CASE d # c
    <3>1. Grown(users, users) /\ Len(users) <= Len(users) /\ users \in Seq(UserRecord) /\ failures <= failures
      BY <1>0 DEF Grown, Shapes
    <3>2. call'[d] = call[d] /\ Good(call[d], users, failures, rushed)
      BY <1>3, <2>2 DEF AccountsInv, Moves
    <3>3. Good(call[d], users, failures, rushed')
      BY <1>0, <1>5, <3>1, <3>2, GoodStays
    <3> QED BY <1>1, <3>2, <3>3
  <2> QED BY <2>1, <2>2
<1>11. Rushes(call', rushed')
  <2> SUFFICES ASSUME NEW d \in Callers, NEW e \in Callers, d # e,
                      call'[d].op = "add", call'[d].at # "done", call'[e].op = "add", call'[e].at # "done",
                      Lower[call'[d].account.name] = Lower[call'[e].account.name]
               PROVE  Lower[call'[d].account.name] \in rushed'
    BY DEF Rushes
  <2>1. CASE d = c
    <3>1. call'[e] = call[e] /\ e \in Callers \ {c} /\ k.op = "add"
      BY <1>3, <2>1 DEF Moves
    <3> QED BY <1>2, <1>3, <1>6, <2>1, <3>1
  <2>2. CASE e = c
    <3>1. call'[d] = call[d] /\ d \in Callers \ {c} /\ k.op = "add"
      BY <1>3, <2>2 DEF Moves
    <3> QED BY <1>2, <1>3, <1>6, <2>2, <3>1
  <2>3. CASE d # c /\ e # c
    <3>1. call'[d] = call[d] /\ call'[e] = call[e]
      BY <1>3, <2>3 DEF Moves
    <3> QED BY <1>5, <3>1 DEF AccountsInv, Rushes
  <2> QED BY <2>1, <2>2, <2>3
<1> QED BY <1>9, <1>10, <1>11 DEF AccountsInv

LEMMA RootStep ==
  ASSUME AccountsInv, NEW c \in Callers, NEW account \in Known, RootLogin(c, account)
  PROVE  AccountsInv'
<1> DEFINE k == [Idle EXCEPT !.op = "login", !.account = account, !.answer = "OK"]
<1>0. Shapes /\ failures \in Nat /\ Len(users) \in Nat /\ call = [d \in Callers |-> call[d]] /\ failures <= MaxFailures
  BY DEF AccountsInv, Shapes
<1>1. /\ call' = [call EXCEPT ![c] = k] /\ UNCHANGED <<users, failures, rushed>>
      /\ IsRoot(account) /\ account.password = RootPassword
  BY DEF RootLogin
<1>2. /\ DOMAIN k = CallFields /\ k.op = "login" /\ k.account = account /\ k.at = "done" /\ k.slot = 0
      /\ k.length = 0 /\ k.before = {}
  BY DEF CallFields, Idle
<1> HIDE DEF k
<1>3. call'[c] = k /\ Moves(c)
  BY <1>0, <1>1, <1>2 DEF Moves
<1>4. Good(k, users, failures, rushed)
  <2>1. CallShape(k, Len(users))
    BY <1>0, <1>2 DEF CallShape, Ops
  <2>2. /\ Covers(k, users) /\ Removes(k, users) /\ Passes(k, users) /\ LetIn(k, users)
        /\ TurnedAway(k, users, failures) /\ Adds(k, users, failures, rushed)
    BY <1>1, <1>2 DEF Covers, Removes, Passes, LetIn, TurnedAway, Adds
  <2> QED BY <2>1, <2>2 DEF Good
<1>5. call'[c].op # "add"
  BY <1>2, <1>3
<1> QED BY <1>0, <1>1, <1>3, <1>4, <1>5, QuietStep

LEMMA FindNextStep ==
  ASSUME AccountsInv, NEW c \in Callers, FindNext(c)
  PROVE  AccountsInv'
<1> DEFINE k == call[c]
           j == call'[c]
           t == call[c].slot
<1>0. /\ Shapes /\ failures \in Nat /\ Len(users) \in Nat /\ failures <= MaxFailures /\ Good(k, users, failures, rushed)
  BY DEF AccountsInv, Shapes
<1>1. /\ k.at = "find" /\ t \in DOMAIN users /\ ~Matches(c, t) /\ UNCHANGED <<users, failures, rushed>>
      /\ call' = [call EXCEPT ![c].slot = t + 1]
  BY DEF FindNext, Finding, Slots
<1>2. /\ Moves(c) /\ j.op = k.op /\ j.account = k.account /\ j.at = k.at /\ j.slot = t + 1
      /\ j.length = k.length /\ j.before = k.before
  BY <1>1, NextSlot
<1>3. \A s \in DOMAIN users : /\ s \in Int /\ s <= Len(users) /\ (There(users, s) <=> ~users[s].deleted)
  BY <1>0, ThereIs
<1>4. /\ There(users, t) /\ NameOf(users, t, k.account) => k.op = "login" /\ ~Fits(users, t, k.account)
  BY <1>1, <1>3, MatchIs
<1>5. /\ CallShape(k, Len(users)) /\ Covers(k, users) /\ Passes(k, users) /\ Adds(k, users, failures, rushed)
  BY <1>0 DEF Good
<1> HIDE DEF j, k, t
<1>6. CallShape(j, Len(users))
  <2>1. t + 1 \in Nat /\ t + 1 <= Len(users) + 1
    BY <1>0, <1>1, <1>3, <1>5 DEF CallShape, t, k
  <2> QED BY <1>2, <1>5, <2>1 DEF CallShape
<1>a. k.slot = t /\ t \in Int
  BY <1>1, <1>3 DEF k, t
<1>7. Passes(j, users)
  <2>1. \A s \in DOMAIN users : s < t + 1 => s < t \/ s = t
    BY <1>3, <1>a
  <2> QED BY <1>1, <1>2, <1>4, <1>5, <1>a, <2>1 DEF Passes, Fits
<1>8. Adds(j, users, failures, rushed)
  <2>1. \A s \in DOMAIN users : t <= s /\ s # t => t + 1 <= s
    BY <1>3, <1>a
  <2> QED BY <1>1, <1>2, <1>4, <1>5, <1>a, <2>1 DEF Adds
<1>9. Covers(j, users) /\ Removes(j, users) /\ LetIn(j, users) /\ TurnedAway(j, users, failures)
  BY <1>1, <1>2, <1>5 DEF Covers, Removes, LetIn, TurnedAway
<1>10. Good(j, users, failures, rushed)
  BY <1>6, <1>7, <1>8, <1>9 DEF Good
<1> QED BY <1>0, <1>1, <1>2, <1>10, QuietStep DEF j, k

LEMMA FoundIs ==
  ASSUME AccountsInv, NEW c \in Callers, Found(c)
  PROVE  LET k == call[c]
             t == call[c].slot IN
         /\ k.at = "find" /\ t \in DOMAIN users /\ There(users, t) /\ NameOf(users, t, k.account)
         /\ k.op = "login" => Fits(users, t, k.account) /\ Once(users, k, t)
<1> DEFINE k == call[c]
           t == call[c].slot
<1>1. k.at = "find" /\ t \in DOMAIN users /\ Matches(c, t)
  BY DEF Found, Finding, Slots
<1>2. There(users, t) /\ t \in Int
  BY <1>1, ThereIs, MatchIs DEF AccountsInv
<1>3. NameOf(users, t, k.account) /\ (k.op = "login" => Fits(users, t, k.account))
  BY <1>1, MatchIs
<1>4. Covers(k, users) /\ k.length \in Nat
  BY DEF AccountsInv, Good, CallShape
<1> HIDE DEF k, t
<1>5. Once(users, k, t)
  <2>1. t <= k.length \/ t > k.length
    BY <1>2, <1>4
  <2> QED BY <1>1, <1>2, <1>4, <2>1 DEF Once, Covers
<1> QED BY <1>1, <1>2, <1>3, <1>5 DEF k, t

LEMMA LoginStep ==
  ASSUME AccountsInv, NEW c \in Callers, Login(c)
  PROVE  AccountsInv'
<1> DEFINE k == call[c]
           j == call'[c]
           t == call[c].slot
           a == k.account
<1>0. /\ Shapes /\ failures \in Nat /\ Len(users) \in Nat /\ failures <= MaxFailures /\ Good(k, users, failures, rushed)
  BY DEF AccountsInv, Shapes
<1>1. k.op = "login" /\ UNCHANGED <<users, failures, rushed>>
  BY DEF Login
<1>2. ASSUME NEW answer, Answer(c, answer)
      PROVE  /\ Moves(c) /\ j.op = "login" /\ j.account = a /\ j.at = "done" /\ j.slot = 0
             /\ j.length = k.length /\ j.before = k.before /\ j.answer = answer
  BY <1>1, <1>2, AnswerIs
<1>3. ASSUME NEW answer, Answer(c, answer), LetIn(j, users), TurnedAway(j, users, failures)
      PROVE  AccountsInv'
  <2>1. /\ Moves(c) /\ j.op = "login" /\ j.account = a /\ j.at = "done" /\ j.slot = 0
        /\ j.length = k.length /\ j.before = k.before
    BY <1>2, <1>3
  <2>2. CallShape(j, Len(users))
    <3>1. 0 \in Nat /\ 0 <= Len(users) + 1
      BY <1>0
    <3> QED BY <1>0, <2>1, <3>1 DEF Good, CallShape, Ops
  <2>3. Covers(j, users) /\ Removes(j, users) /\ Passes(j, users) /\ Adds(j, users, failures, rushed)
    BY <2>1 DEF Covers, Removes, Passes, Adds
  <2>4. Good(j, users, failures, rushed)
    BY <1>3, <2>2, <2>3 DEF Good
  <2> QED BY <1>0, <1>1, <2>1, <2>4, QuietStep
<1>4. CASE Found(c) /\ Answer(c, IF users[t].role = a.role THEN "OK" ELSE "FAILURE")
  <2>1. /\ k.at = "find" /\ t \in DOMAIN users /\ There(users, t) /\ Fits(users, t, a) /\ Once(users, k, t)
    BY <1>1, <1>4, FoundIs
  <2>3. CASE users[t].role = a.role /\ Answer(c, "OK")
    <3>1. LetIn(j, users) /\ TurnedAway(j, users, failures)
      BY <1>2, <2>1, <2>3 DEF LetIn, TurnedAway, Once
    <3> QED BY <1>3, <2>3, <3>1
  <2>4. CASE users[t].role # a.role /\ Answer(c, "FAILURE")
    <3>1. /\ j.op = "login" /\ j.account = a /\ j.length = k.length /\ j.before = k.before /\ j.answer = "FAILURE"
      BY <1>2, <2>4
    <3>2. ASSUME NEW s \in DOMAIN users, There(users, s), Fits(users, s, a), users[s].role = a.role
          PROVE  t < s
      <4>1. ~(s < t) /\ s # t
        BY <1>0, <1>1, <2>1, <2>4, <3>2 DEF Good, Passes
      <4>2. s \in Int /\ t \in Int
        BY <1>0, <2>1, ThereIs
      <4> QED BY <4>1, <4>2
    <3>3. TurnedAway(j, users, failures)
      <4>1. Once(users, j, t)
        BY <2>1, <3>1 DEF Once
      <4> QED BY <2>1, <2>4, <3>1, <3>2, <4>1 DEF TurnedAway
    <3>4. LetIn(j, users)
      BY <3>1 DEF LetIn
    <3> QED BY <1>3, <2>4, <3>3, <3>4
  <2> QED BY <1>4, <2>3, <2>4
<1>5. CASE NotFound(c) /\ Answer(c, "FAILURE")
  <2>1. /\ j.op = "login" /\ j.account = a /\ j.length = k.length /\ j.before = k.before /\ j.answer = "FAILURE"
    BY <1>2, <1>5
  <2>2. \A s \in DOMAIN users : s \in k.before /\ There(users, s) => ~Fits(users, s, a)
    <3>1. /\ k.at = "find" /\ t > k.length /\ t \in Nat /\ k.length \in Nat /\ k.before \subseteq 1 .. k.length
      BY <1>0, <1>5 DEF NotFound, Finding, Good, CallShape
    <3>2. \A s \in k.before : s < t
      BY <3>1
    <3> QED BY <1>0, <1>1, <3>1, <3>2 DEF Good, Passes
  <2>3. TurnedAway(j, users, failures) /\ LetIn(j, users)
    BY <2>1, <2>2 DEF TurnedAway, LetIn
  <2> QED BY <1>3, <1>5, <2>3
<1> QED BY <1>4, <1>5 DEF Login

\* A call that is no login ends, and the file stays.
LEMMA EndsStep ==
  ASSUME AccountsInv, NEW c \in Callers, NEW a, Answer(c, a), call[c].op # "login", UNCHANGED <<users, rushed>>,
         failures' \in Nat, failures <= failures', failures' <= MaxFailures
  PROVE  AccountsInv'
<1>1. Moves(c) /\ call'[c] = Idle
  BY AnswerIs
<1>2. Len(users) \in Nat
  BY DEF AccountsInv, Shapes
<1>3. Good(call'[c], users, failures', rushed) /\ call'[c].op = "none"
  BY <1>1, <1>2, GoodIdle
<1> QED BY <1>1, <1>3, QuietStep

\* An add or a remove goes on to its change.
LEMMA ChangeStep ==
  ASSUME AccountsInv, NEW c \in Callers, Change(c), call[c].op # "login", call[c].at = "find",
         UNCHANGED <<users, rushed>>, failures' \in Nat, failures <= failures', failures' <= MaxFailures,
         call[c].op = "remove" => call[c].slot \in DOMAIN users /\ NameOf(users, call[c].slot, call[c].account),
         call[c].op = "add" => failures' # 0 \/ NotFound(c)
  PROVE  AccountsInv'
<1> DEFINE k == call[c]
           j == call'[c]
<1>0. Good(k, users, failures, rushed) /\ failures \in Nat
  BY DEF AccountsInv, Shapes
<1>1. /\ Moves(c) /\ j.op = k.op /\ j.account = k.account /\ j.at = "change" /\ j.slot = k.slot
      /\ j.length = k.length /\ j.before = k.before
  BY ChangeIs
<1>2. CallShape(j, Len(users))
  BY <1>0, <1>1 DEF Good, CallShape
<1>3. Covers(j, users) /\ Removes(j, users) /\ Passes(j, users) /\ LetIn(j, users) /\ TurnedAway(j, users, failures')
  BY <1>0, <1>1 DEF Good, Covers, Removes, Passes, LetIn, TurnedAway
<1>4. Adds(j, users, failures', rushed)
  <2> SUFFICES ASSUME failures' = 0, k.op = "add", NEW s \in DOMAIN users, There(users, s), NameOf(users, s, k.account)
               PROVE  Lower[k.account.name] \in rushed
    BY <1>1 DEF Adds
  <2>1. NotFound(c) /\ failures = 0
    BY <1>0
  <2>2. k.slot > k.length /\ k.slot \in Nat /\ k.length \in Nat
    BY <1>0, <2>1 DEF NotFound, Good, CallShape
  <2>3. s \in Int
    BY ThereIs DEF AccountsInv
  <2>4. ~(k.slot <= s /\ s <= k.length)
    BY <2>2, <2>3
  <2> QED BY <1>0, <2>1, <2>4 DEF Good, Adds
<1>5. Good(j, users, failures', rushed)
  BY <1>2, <1>3, <1>4 DEF Good
<1> QED BY <1>1, <1>5, QuietStep

LEMMA FindSteps ==
  ASSUME AccountsInv, NEW c \in Callers, AddFind(c) \/ RemoveFind(c) \/ CallFails(c)
  PROVE  AccountsInv'
<1>0. /\ failures \in Nat /\ failures <= MaxFailures /\ MaxFailures \in Nat /\ failures <= failures
      /\ Good(call[c], users, failures, rushed)
  BY AccountsAssumption DEF AccountsInv, Shapes
<1>1. CASE AddFind(c)
  <2>1. call[c].op = "add" /\ UNCHANGED <<users, failures, rushed>>
    BY <1>1 DEF AddFind
  <2>2. CASE Answer(c, "FAILURE")
    BY <1>0, <2>1, <2>2, EndsStep
  <2>3. CASE NotFound(c) /\ Change(c)
    BY <1>0, <2>1, <2>3, ChangeStep DEF NotFound, Finding
  <2> QED BY <1>1, <2>2, <2>3 DEF AddFind
<1>2. CASE RemoveFind(c)
  <2>1. call[c].op = "remove" /\ UNCHANGED <<users, failures, rushed>>
    BY <1>2 DEF RemoveFind
  <2>2. CASE Answer(c, "FAILURE")
    BY <1>0, <2>1, <2>2, EndsStep
  <2>3. CASE Found(c) /\ Change(c)
    <3>1. call[c].at = "find" /\ call[c].slot \in DOMAIN users /\ NameOf(users, call[c].slot, call[c].account)
      BY <2>3, FoundIs
    <3> QED BY <1>0, <2>1, <2>3, <3>1, ChangeStep
  <2> QED BY <1>2, <2>2, <2>3 DEF RemoveFind
<1>3. CASE CallFails(c)
  <2>1. /\ failures < MaxFailures /\ failures' = failures + 1 /\ UNCHANGED <<users, rushed>> /\ call[c].at # "done"
    BY <1>3 DEF CallFails, Running
  <2>2. failures' \in Nat /\ failures <= failures' /\ failures' <= MaxFailures /\ failures' # 0
    BY <1>0, <2>1
  <2>3. CASE call[c].op = "add" /\ call[c].at = "find" /\ Change(c)
    BY <2>1, <2>2, <2>3, ChangeStep
  <2>4. CASE Answer(c, "FAILURE") /\ call[c].op # "login"
    BY <2>1, <2>2, <2>4, EndsStep
  <2>5. CASE Answer(c, "FAILURE") /\ call[c].op = "login"
    <3> DEFINE j == call'[c]
    <3>1. /\ Moves(c) /\ j.op = "login" /\ j.account = call[c].account /\ j.at = "done" /\ j.slot = 0
          /\ j.length = call[c].length /\ j.before = call[c].before /\ j.answer = "FAILURE"
      BY <2>5, AnswerIs
    <3>2. CallShape(j, Len(users))
      <4>1. Len(users) \in Nat /\ 0 \in Nat /\ 0 <= Len(users) + 1
        BY DEF AccountsInv, Shapes
      <4> QED BY <1>0, <3>1, <4>1 DEF Good, CallShape, Ops
    <3>3. /\ Covers(j, users) /\ Removes(j, users) /\ Passes(j, users) /\ LetIn(j, users)
          /\ TurnedAway(j, users, failures') /\ Adds(j, users, failures', rushed)
      BY <2>2, <3>1 DEF Covers, Removes, Passes, LetIn, TurnedAway, Adds
    <3>4. Good(j, users, failures', rushed)
      BY <3>2, <3>3 DEF Good
    <3> QED BY <2>1, <2>2, <3>1, <3>4, QuietStep
  <2> QED BY <1>3, <2>3, <2>4, <2>5 DEF CallFails, Finding
<1> QED BY <1>1, <1>2, <1>3

\* A call that is no login ends, and the file grows by what is not of another's name,
\* unless the two ran together.
LEMMA WriteStep ==
  ASSUME AccountsInv, NEW c \in Callers, NEW a, Answer(c, a), call[c].op # "login", UNCHANGED <<rushed, failures>>,
         users' \in Seq(UserRecord), Len(users') <= MaxUsers, Grown(users, users'), Len(users) <= Len(users'),
         \A s \in DOMAIN users' : \E b \in Known : users'[s] \in {Slot(b), [Slot(b) EXCEPT !.deleted = TRUE]},
         \A d \in Callers \ {c} : call[d].op = "add" /\ call[d].at # "done" =>
           \A s \in DOMAIN users' \ DOMAIN users : NameOf(users', s, call[d].account) => Lower[call[d].account.name] \in rushed
  PROVE  AccountsInv'
<1>1. Moves(c) /\ call'[c] = Idle
  BY AnswerIs
<1>2. Len(users') \in Nat
  OBVIOUS
<1>3. Good(call'[c], users', failures', rushed') /\ call'[c].op = "none" /\ DOMAIN call'[c] = CallFields
  BY <1>1, <1>2, GoodIdle
<1>4. users \in Seq(UserRecord) /\ failures \in Nat /\ failures <= failures
  BY DEF AccountsInv, Shapes
<1>5. ASSUME NEW d \in Callers \ {c} PROVE Good(call'[d], users', failures', rushed')
  <2>1. call'[d] = call[d] /\ Good(call[d], users, failures, rushed)
    BY <1>1 DEF AccountsInv, Moves
  <2> QED BY <1>4, <2>1, GoodStays
<1>6. Shapes'
  BY <1>1, <1>3 DEF AccountsInv, Shapes, Moves
<1>7. Rushes(call', rushed')
  BY <1>1, <1>3 DEF AccountsInv, Rushes, Moves
<1> QED BY <1>3, <1>5, <1>6, <1>7 DEF AccountsInv

\* Two accounts of one name only after two adds of it ran together.
NoDoubles(us, failed, names) == failed = 0 =>
  \A s, t \in DOMAIN us : There(us, s) /\ There(us, t) /\ s # t /\ Lower[us[s].name] = Lower[us[t].name] =>
    Lower[us[s].name] \in names

LEMMA AddInsertStep ==
  ASSUME AccountsInv, NEW c \in Callers, AddInsert(c)
  PROVE  /\ AccountsInv' /\ (users' = users \/ (Grown(users, users') /\ \A s \in DOMAIN users : users'[s] = users[s]))
         /\ NoDoubles(users, failures, rushed) => NoDoubles(users', failures', rushed')
<1> DEFINE k == call[c]
           a == call[c].account
<1>0. /\ Shapes /\ failures \in Nat /\ failures <= MaxFailures /\ failures <= failures /\ Good(k, users, failures, rushed)
      /\ a \in Known
  BY DEF AccountsInv, Shapes, Good, CallShape
<1>1. k.op = "add" /\ k.at = "change" /\ UNCHANGED <<failures, rushed>>
  BY DEF AddInsert
<1>2. CASE Answer(c, "FAILURE") /\ UNCHANGED users
  BY <1>0, <1>1, <1>2, EndsStep
<1>3. CASE Len(users) < MaxUsers /\ users' = Append(users, Slot(a)) /\ Answer(c, "OK")
  <2>1. /\ users' \in Seq(UserRecord) /\ Len(users') = Len(users) + 1 /\ Len(users') <= MaxUsers /\ Grown(users, users')
        /\ \A s \in DOMAIN users' : s \in DOMAIN users \/ (s = Len(users) + 1 /\ users'[s] = Slot(a))
        /\ \A s \in DOMAIN users' : \E b \in Known : users'[s] \in {Slot(b), [Slot(b) EXCEPT !.deleted = TRUE]}
    BY <1>0, <1>3, UserAdded
  <2>2. Slot(a).name = a.name
    BY <1>0, SlotIs
  <2>3. ASSUME NEW d \in Callers \ {c}, call[d].op = "add", call[d].at # "done",
               NEW s \in DOMAIN users' \ DOMAIN users, NameOf(users', s, call[d].account)
        PROVE  Lower[call[d].account.name] \in rushed
    <3>1. Lower[a.name] = Lower[call[d].account.name]
      BY <2>1, <2>2, <2>3 DEF NameOf
    <3> QED BY <1>1, <2>3, <3>1 DEF AccountsInv, Rushes
  <2>4. Len(users) <= Len(users')
    <3>1. Len(users) \in Nat
      BY <1>0 DEF Shapes
    <3> QED BY <2>1, <3>1
  <2>5. AccountsInv'
    BY <1>1, <1>3, <2>1, <2>3, <2>4, WriteStep
  <2>6. \A s \in DOMAIN users : users'[s] = users[s]
    BY <1>0, <1>3 DEF Shapes
  <2>7. ASSUME NoDoubles(users, failures, rushed), failures' = 0, NEW s \in DOMAIN users', NEW t \in DOMAIN users',
               There(users', s), There(users', t), s # t, Lower[users'[s].name] = Lower[users'[t].name]
        PROVE  Lower[users'[s].name] \in rushed'
    <3>1. CASE s \in DOMAIN users /\ t \in DOMAIN users
      BY <1>1, <2>6, <2>7, <3>1 DEF NoDoubles, There
    <3>2. ASSUME NEW u \in DOMAIN users, There(users', u), Lower[users'[u].name] = Lower[a.name]
          PROVE  Lower[a.name] \in rushed
      <4>1. There(users, u) /\ NameOf(users, u, a)
        BY <2>6, <3>2 DEF There, NameOf
      <4> QED BY <1>0, <1>1, <2>7, <4>1 DEF Good, Adds
    <3>3. CASE s \notin DOMAIN users
      <4>1. users'[s].name = a.name /\ t \in DOMAIN users
        BY <2>1, <2>2, <2>7, <3>3
      <4>2. Lower[a.name] \in rushed
        BY <2>7, <3>2, <4>1
      <4> QED BY <1>1, <4>1, <4>2
    <3>4. CASE t \notin DOMAIN users
      <4>1. users'[t].name = a.name /\ s \in DOMAIN users
        BY <2>1, <2>2, <2>7, <3>4
      <4>2. Lower[a.name] \in rushed
        BY <2>7, <3>2, <4>1
      <4> QED BY <1>1, <2>7, <4>1, <4>2
    <3> QED BY <3>1, <3>3, <3>4
  <2> QED BY <2>1, <2>5, <2>6, <2>7 DEF NoDoubles
<1> QED BY <1>1, <1>2, <1>3 DEF AddInsert

LEMMA RemoveDeleteStep ==
  ASSUME AccountsInv, NEW c \in Callers, RemoveDelete(c)
  PROVE  /\ AccountsInv' /\ Grown(users, users') /\ DOMAIN users' = DOMAIN users
         /\ call[c].op = "remove" /\ \A s \in DOMAIN users : users'[s] = users[s] \/ NameOf(users, s, call[c].account)
<1> DEFINE k == call[c]
           t == call[c].slot
<1>0. /\ Shapes /\ failures \in Nat /\ failures <= MaxFailures /\ failures <= failures /\ Good(k, users, failures, rushed)
  BY DEF AccountsInv, Shapes
<1>1. k.op = "remove" /\ k.at = "change" /\ UNCHANGED <<failures, rushed>>
  BY DEF RemoveDelete
<1>2. t \in DOMAIN users /\ NameOf(users, t, k.account)
  BY <1>0, <1>1 DEF Good, Removes
<1>3. CASE Answer(c, "FAILURE") /\ UNCHANGED users
  <2>1. AccountsInv'
    BY <1>0, <1>1, <1>3, EndsStep
  <2>2. Grown(users, users)
    BY DEF Grown
  <2> QED BY <1>1, <1>3, <2>1, <2>2
<1>4. CASE users' = [users EXCEPT ![t].deleted = TRUE] /\ Answer(c, "OK")
  <2> HIDE DEF t
  <2>1. /\ users' \in Seq(UserRecord) /\ Len(users') = Len(users) /\ DOMAIN users' = DOMAIN users /\ Grown(users, users')
        /\ \A s \in DOMAIN users : s # t => users'[s] = users[s]
        /\ \A s \in DOMAIN users' : \E b \in Known : users'[s] \in {Slot(b), [Slot(b) EXCEPT !.deleted = TRUE]}
    BY <1>0, <1>2, <1>4, UserMarked
  <2>2. Len(users') <= MaxUsers /\ Len(users) <= Len(users')
    BY <1>0, <2>1 DEF Shapes
  <2>3. AccountsInv'
    BY <1>1, <1>4, <2>1, <2>2, WriteStep
  <2> QED BY <1>1, <1>2, <2>1, <2>3
<1> QED BY <1>3, <1>4 DEF RemoveDelete

\* What a step does to the accounts: it marks only one that a remove asked for.
Marked(us, vs, calls) == \A s \in DOMAIN us : s \in DOMAIN vs /\ (us[s].deleted = FALSE /\ vs[s].deleted = TRUE =>
  \E c \in Callers : calls[c].op = "remove" /\ NameOf(us, s, calls[c].account))

LEMMA AccountsNext ==
  ASSUME AccountsInv, [Next]_vars
  PROVE  /\ AccountsInv' /\ Marked(users, users', call)
         /\ NoDoubles(users, failures, rushed) => NoDoubles(users', failures', rushed')
<1>0. failures \in Nat
  BY DEF AccountsInv, Shapes
<1>1. ASSUME users' = users, rushed \subseteq rushed', failures' = 0 => failures = 0, AccountsInv'
      PROVE  /\ AccountsInv' /\ Marked(users, users', call)
             /\ NoDoubles(users, failures, rushed) => NoDoubles(users', failures', rushed')
  <2>1. Marked(users, users', call)
    BY <1>1 DEF Marked
  <2>2. NoDoubles(users, failures, rushed) => NoDoubles(users', failures', rushed')
    BY <1>1 DEF NoDoubles, There
  <2> QED BY <1>1, <2>1, <2>2
<1>2. CASE UNCHANGED vars
  <2>1. UNCHANGED <<users, call, failures, rushed>>
    BY <1>2 DEF vars
  <2>2. AccountsInv'
    BY <2>1 DEF AccountsInv, Shapes
  <2> QED BY <1>1, <2>1, <2>2
<1>3. ASSUME NEW c \in Callers, NEW op \in Ops, NEW account \in Known, Begin(c, op, account)
      PROVE  users' = users /\ rushed \subseteq rushed' /\ failures' = failures /\ AccountsInv'
  BY <1>3, BeginStep DEF Begin
<1>4. ASSUME NEW c \in Callers, NEW account \in Known, RootLogin(c, account)
      PROVE  users' = users /\ rushed' = rushed /\ failures' = failures /\ AccountsInv'
  <2>1. UNCHANGED <<users, failures, rushed>>
    BY <1>4, Zenon DEF RootLogin
  <2> QED BY <1>4, <2>1, RootStep
<1>5. ASSUME NEW c \in Callers, FindNext(c) \/ Login(c) \/ AddFind(c) \/ RemoveFind(c) \/ CallFails(c)
      PROVE  users' = users /\ rushed' = rushed /\ (failures' = 0 => failures = 0) /\ AccountsInv'
  <2>1. AccountsInv'
    BY <1>5, FindNextStep, LoginStep, FindSteps
  <2>2. users' = users /\ rushed' = rushed /\ (failures' = failures \/ failures' = failures + 1)
    BY <1>5 DEF FindNext, Login, AddFind, RemoveFind, CallFails
  <2> QED BY <1>0, <2>1, <2>2
<1>6. ASSUME NEW c \in Callers, AddInsert(c)
      PROVE  /\ AccountsInv' /\ Marked(users, users', call)
             /\ NoDoubles(users, failures, rushed) => NoDoubles(users', failures', rushed')
  <2>1. /\ AccountsInv' /\ \A s \in DOMAIN users : users'[s] = users[s]
        /\ NoDoubles(users, failures, rushed) => NoDoubles(users', failures', rushed')
    BY <1>6, AddInsertStep
  <2>2. \A s \in DOMAIN users : s \in DOMAIN users'
    BY <1>6, AddInsertStep DEF Grown
  <2> QED BY <2>1, <2>2 DEF Marked
<1>7. ASSUME NEW c \in Callers, RemoveDelete(c)
      PROVE  /\ AccountsInv' /\ Marked(users, users', call)
             /\ NoDoubles(users, failures, rushed) => NoDoubles(users', failures', rushed')
  <2>1. /\ AccountsInv' /\ Grown(users, users') /\ DOMAIN users' = DOMAIN users
        /\ call[c].op = "remove" /\ \A s \in DOMAIN users : users'[s] = users[s] \/ NameOf(users, s, call[c].account)
    BY <1>7, RemoveDeleteStep
  <2>2. Marked(users, users', call)
    BY <2>1 DEF Marked
  <2>3. failures' = failures /\ rushed' = rushed
    BY <1>7 DEF RemoveDelete
  <2>4. \A s \in DOMAIN users' : s \in DOMAIN users /\ users'[s].name = users[s].name /\ (There(users', s) => There(users, s))
    <3>1. \A s \in DOMAIN users : users[s].deleted \in BOOLEAN
      <4>1. \A s \in DOMAIN users : users[s] \in UserRecord
        BY DEF AccountsInv, Shapes
      <4> QED BY <4>1 DEF UserRecord
    <3> QED BY <2>1, <3>1 DEF Grown, There
  <2>5. NoDoubles(users, failures, rushed) => NoDoubles(users', failures', rushed')
    BY <2>3, <2>4 DEF NoDoubles
  <2> QED BY <2>1, <2>2, <2>5
<1>8. CASE Next
  BY <1>0, <1>1, <1>3, <1>4, <1>5, <1>6, <1>7, <1>8 DEF Next, Step
<1> QED BY <1>2, <1>8

LEMMA AccountsInit == ASSUME Init PROVE AccountsInv
<1>1. /\ users = [s \in DOMAIN FirstUsers |-> Slot(FirstUsers[s])] /\ call = [c \in Callers |-> Idle]
      /\ failures = 0 /\ rushed = {}
  BY DEF Init
<1>2. FirstUsers \in Seq(Known) /\ Len(FirstUsers) <= MaxUsers /\ MaxFailures \in Nat
  BY AccountsAssumption
<1>3. \A s \in DOMAIN FirstUsers : Slot(FirstUsers[s]) \in UserRecord /\ FirstUsers[s] \in Known
  <2>1. \A s \in DOMAIN FirstUsers : FirstUsers[s] \in Known
    BY <1>2
  <2> QED BY <2>1, SlotIs
<1>4. users \in Seq(UserRecord) /\ Len(users) = Len(FirstUsers)
  <2>1. DOMAIN FirstUsers = 1 .. Len(FirstUsers) /\ Len(FirstUsers) \in Nat
    BY <1>2
  <2> QED BY <1>1, <1>3, <2>1
<1>5. \A c \in Callers : call[c] = Idle /\ Good(call[c], users, failures, rushed) /\ DOMAIN call[c] = CallFields
  <2>1. Len(users) \in Nat
    BY <1>4
  <2> QED BY <1>1, <2>1, GoodIdle
<1>6. \A s \in DOMAIN users : \E a \in Known : users[s] \in {Slot(a), [Slot(a) EXCEPT !.deleted = TRUE]}
  BY <1>1, <1>3
<1>7. Shapes
  BY <1>1, <1>2, <1>4, <1>5, <1>6 DEF Shapes
<1>8. Rushes(call, rushed)
  BY <1>5, GoodIdle, <1>4 DEF Rushes
<1> QED BY <1>5, <1>7, <1>8 DEF AccountsInv

\* authenticate_*: a login that is let in is root's, or names an account that was there in that
\* role at some time of the call; one that is turned away, while no database call
\* failed, had none unless a namesake of another role stood before it.
THEOREM LoginsRegular == Spec => []LoginRegular
<1>1. AccountsInv => LoginRegular
  <2> SUFFICES ASSUME AccountsInv, NEW c \in Callers
               PROVE  LET a == call[c].account IN
                      /\ Logged(c, "OK") => \/ IsRoot(a) /\ a.password = RootPassword
                                            \/ \E s \in Ever(c) : Same(s, a) /\ users[s].role = a.role
                      /\ Logged(c, "FAILURE") /\ failures = 0 =>
                           \A s \in Always(c) : Same(s, a) /\ users[s].role = a.role =>
                             \E t \in Ever(c) : t < s /\ Same(t, a) /\ users[t].role # a.role
    BY DEF LoginRegular
  <2> DEFINE a == call[c].account
             k == call[c]
  <2>1. LetIn(k, users) /\ TurnedAway(k, users, failures)
    BY DEF AccountsInv, Good
  <2>2. \A s : Same(s, a) <=> Fits(users, s, a)
    BY DEF Same, SameName, SamePassword, Fits, NameOf
  <2>3. \A s \in DOMAIN users : Once(users, k, s) => s \in Ever(c)
    BY DEF Once, Ever, Slots
  <2>4. \A s \in Always(c) : s \in DOMAIN users /\ There(users, s) /\ s \in k.before
    BY ThereIs DEF AccountsInv, Always, Live, Slots
  <2>5. \A answer : Logged(c, answer) <=> k.op = "login" /\ k.at = "done" /\ k.answer = answer
    BY DEF Logged, Running
  <2> HIDE DEF a, k
  <2>6. ASSUME Logged(c, "OK")
        PROVE  \/ IsRoot(k.account) /\ k.account.password = RootPassword
               \/ \E s \in Ever(c) : Same(s, a) /\ users[s].role = a.role
    BY <2>1, <2>2, <2>3, <2>5, <2>6 DEF LetIn, a, k
  <2>7. ASSUME Logged(c, "FAILURE"), failures = 0, NEW s \in Always(c), Same(s, a), users[s].role = a.role
        PROVE  \E t \in Ever(c) : t < s /\ Same(t, a) /\ users[t].role # a.role
    BY <2>1, <2>2, <2>3, <2>4, <2>5, <2>7 DEF TurnedAway, a, k
  <2> QED BY <2>6, <2>7 DEF a, k
<1>2. AccountsInv /\ [Next]_vars => AccountsInv'
  BY AccountsNext
<1> QED BY AccountsInit, <1>1, <1>2, PTL DEF Spec

\* Unless populate put them there, two accounts have one name only if two adds of
\* it (add_*_user, a find and then an insert) ran at the same time.
THEOREM NamesakesByRush ==
  ASSUME \A s, t \in DOMAIN FirstUsers : s # t => Lower[FirstUsers[s].name] # Lower[FirstUsers[t].name]
  PROVE  Spec => []DuplicatesOnlyByRush
<1>1. AccountsInv /\ NoDoubles(users, failures, rushed) => DuplicatesOnlyByRush
  <2> SUFFICES ASSUME AccountsInv, NoDoubles(users, failures, rushed) PROVE DuplicatesOnlyByRush
    OBVIOUS
  <2>1. \A s \in Live : s \in DOMAIN users /\ There(users, s)
    BY ThereIs DEF AccountsInv, Live, Slots
  <2> QED BY <2>1 DEF DuplicatesOnlyByRush, NoDoubles
<1>2. Init => NoDoubles(users, failures, rushed)
  <2> SUFFICES ASSUME Init PROVE NoDoubles(users, failures, rushed)
    OBVIOUS
  <2>1. \A s \in DOMAIN FirstUsers : Slot(FirstUsers[s]).name = FirstUsers[s].name
    BY DEF Slot
  <2>2. users = [s \in DOMAIN FirstUsers |-> Slot(FirstUsers[s])]
    BY DEF Init
  <2> QED BY <2>1, <2>2 DEF NoDoubles
<1>3. AccountsInv /\ NoDoubles(users, failures, rushed) /\ [Next]_vars =>
        AccountsInv' /\ NoDoubles(users, failures, rushed)'
  BY AccountsNext
<1> QED BY AccountsInit, <1>1, <1>2, <1>3, PTL DEF Spec

\* The account that remove_*_user deletes is of the name that was asked for, whatever
\* became of the file since it was found.
THEOREM RemovesAsked == Spec => RemovesNamesake
<1>1. AccountsInv /\ [Next]_vars => AccountsInv' /\ Marked(users, users', call)
  BY AccountsNext
<1>2. AccountsInv /\ AccountsInv' /\ Marked(users, users', call) =>
        \A s \in Slots : ~users[s].deleted /\ users'[s].deleted =>
          \E c \in Callers : call[c].op = "remove" /\ SameName(s, call[c].account)
  <2> SUFFICES ASSUME AccountsInv, AccountsInv', Marked(users, users', call), NEW s \in Slots,
                      ~users[s].deleted, users'[s].deleted
               PROVE  \E c \in Callers : call[c].op = "remove" /\ SameName(s, call[c].account)
    OBVIOUS
  <2>1. users[s].deleted = FALSE
    BY ThereIs DEF AccountsInv, There, Slots
  <2>2. s \in DOMAIN users'
    BY DEF Marked, Slots
  <2>3. users'[s].deleted = TRUE
    <3>1. users' \in Seq(UserRecord)
      BY DEF AccountsInv, Shapes
    <3>2. users'[s] \in UserRecord
      BY <2>2, <3>1
    <3> QED BY <3>2 DEF UserRecord
  <2> QED BY <2>1, <2>3 DEF Marked, NameOf, SameName, Slots
<1> QED BY AccountsInit, <1>1, <1>2, PTL DEF Spec, RemovesNamesake

\* The calls of Auth.c keep the shape of the state and the bound of the users file.
THEOREM AccountTypes == Spec => []TypeOK
<1>1. AccountsInv => TypeOK
  <2> SUFFICES ASSUME AccountsInv PROVE TypeOK
    OBVIOUS
  <2>1. Len(users) \in Nat /\ DOMAIN users = 1 .. Len(users) /\ failures \in 0 .. MaxFailures
    BY AccountsAssumption DEF AccountsInv, Shapes
  <2>2. \A c \in Callers : CallShape(call[c], Len(users))
    BY DEF AccountsInv, Good
  <2>3. ASSUME NEW c \in Callers
        PROVE  call[c].slot \in 0 .. Len(users) + 1 /\ call[c].length \in 0 .. Len(users) /\ call[c].before \subseteq Slots
    BY <2>1, <2>2 DEF CallShape, Slots
  <2>4. \A s \in Slots : \E account \in Known : users[s] \in {Slot(account), [Slot(account) EXCEPT !.deleted = TRUE]}
    BY DEF AccountsInv, Shapes, Slots
  <2>5. Len(users) <= MaxUsers
    BY DEF AccountsInv, Shapes
  <2>6. \A c \in Callers : /\ call[c].op \in Ops \cup {"none"} /\ call[c].account \in Known
                           /\ call[c].at \in {"find", "change", "done"}
    BY <2>2 DEF CallShape
  <2> QED BY <2>1, <2>3, <2>4, <2>5, <2>6 DEF TypeOK
<1>2. AccountsInv /\ [Next]_vars => AccountsInv'
  BY AccountsNext
<1> QED BY AccountsInit, <1>1, <1>2, PTL DEF Spec
=============================================================================
