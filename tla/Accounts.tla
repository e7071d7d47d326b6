------------------------------ MODULE Accounts ------------------------------
(***************************************************************************)
(* The user accounts behind the logins (Auth.c).  Logging in, adding and   *)
(* removing an account each begin with a find over the users file, which   *)
(* looks at one slot after the other and lets other calls run in between;  *)
(* adding and removing then change the file in a second call.              *)
(***************************************************************************)
EXTENDS Integers, Sequences, FiniteSets

CONSTANTS
  Callers,            \* threads and programs that call Auth.c
  Known,              \* the names, passwords and roles they are asked about
  Lower,              \* a name or password without its case, as str_eq_nocase sees it
  RootName, RootPassword,
  FirstUsers,         \* what populate put into the users file
  MaxUsers,           \* slots of the users file, never reused
  MaxFailures         \* bound on the calls the database answers with FAILURE

ASSUME AccountsAssumption ==
  /\ \A a \in Known : /\ a.role \in {"ADMIN", "CHEF", "WAITER"}
                      /\ {a.name, a.password} \subseteq DOMAIN Lower
  /\ Known # {} /\ MaxUsers \in Nat /\ MaxFailures \in Nat
  /\ FirstUsers \in Seq(Known) /\ Len(FirstUsers) <= MaxUsers

VARIABLES
  users,    \* the users file: its slots in order, each with the deleted mark
  call,     \* the call a caller has running, or the answer it got
  failures,
  rushed    \* history: the names for which two adds ran at the same time

vars == <<users, call, failures, rushed>>

Slots == DOMAIN users
Live  == {s \in Slots : ~users[s].deleted}
Slot(account) == [name |-> account.name, password |-> account.password,
                  role |-> account.role, deleted |-> FALSE]

\* users_match compares without case.
SameName(s, account)     == Lower[users[s].name] = Lower[account.name]
SamePassword(s, account) == Lower[users[s].password] = Lower[account.password]

Ops == {"login", "add", "remove"}
Idle == [op |-> "none", account |-> CHOOSE a \in Known : TRUE, at |-> "done",
         slot |-> 0, length |-> 0, before |-> {}, answer |-> "none"]
Running(c) == call[c].at # "done"
Finding(c) == call[c].at = "find"
IsRoot(account) == account.role = "ADMIN" /\ account.name = RootName

\* The end of a call.  What a login was about and how it ended is kept for the
\* properties; nothing depends on what the others return.
Answer(c, answer) ==
  call' = [call EXCEPT ![c] = IF @.op = "login"
                                THEN [@ EXCEPT !.at = "done", !.slot = 0, !.answer = answer]
                                ELSE Idle]
Change(c)         == call' = [call EXCEPT ![c].at = "change"]

-----------------------------------------------------------------------------
\* A caller asks: the find begins.  add_admin_user and remove_admin_user refuse root.
Begin(c, op, account) ==
  /\ ~Running(c)
  /\ IsRoot(account) => op = "login" /\ account.password # RootPassword
  /\ call' = [call EXCEPT ![c] =
       [op |-> op, account |-> account, at |-> "find", slot |-> 1,
        length |-> Len(users), before |-> Live, answer |-> "none"]]
  /\ rushed' = rushed \cup
       {Lower[account.name] : d \in {d \in Callers :
          op = "add" /\ Running(d) /\ call[d].op = "add"
          /\ Lower[call[d].account.name] = Lower[account.name]}}
  /\ UNCHANGED <<users, failures>>

\* authenticate_admin lets root in without the file.
RootLogin(c, account) ==
  /\ ~Running(c) /\ IsRoot(account) /\ account.password = RootPassword
  /\ call' = [call EXCEPT ![c] = [Idle EXCEPT !.op = "login", !.account = account, !.answer = "OK"]]
  /\ UNCHANGED <<users, failures, rushed>>

Matches(c, s) ==
  /\ ~users[s].deleted /\ SameName(s, call[c].account)
  /\ call[c].op = "login" => SamePassword(s, call[c].account)

\* One slot of db_find.  The length was read when the find began and counts slots
\* whose insert had not finished; so a slot inserted since may be looked at.
FindNext(c) ==
  /\ Finding(c) /\ call[c].slot \in Slots /\ ~Matches(c, call[c].slot)
  /\ call' = [call EXCEPT ![c].slot = @ + 1]
  /\ UNCHANGED <<users, failures, rushed>>

Found(c)    == Finding(c) /\ call[c].slot \in Slots /\ Matches(c, call[c].slot)
NotFound(c) == Finding(c) /\ call[c].slot > call[c].length

\* Mutant of Login: the role of the record is not looked at.
LoginAnyRole(c) ==
  /\ call[c].op = "login"
  /\ \/ Found(c) /\ Answer(c, "OK")
     \/ NotFound(c) /\ Answer(c, "FAILURE")
  /\ UNCHANGED <<users, failures, rushed>>

\* authenticate_*: the first match must have the role.
Login(c) ==
  /\ call[c].op = "login"
  /\ \/ Found(c) /\ Answer(c, IF users[call[c].slot].role = call[c].account.role THEN "OK" ELSE "FAILURE")
     \/ NotFound(c) /\ Answer(c, "FAILURE")
  /\ UNCHANGED <<users, failures, rushed>>

\* Mutant of AddFind: an account that exists is added all the same.
AddFindIgnored(c) ==
  /\ call[c].op = "add"
  /\ Found(c) \/ NotFound(c)
  /\ Change(c)
  /\ UNCHANGED <<users, failures, rushed>>

\* add_*_user: nobody of that name may be there ...
AddFind(c) ==
  /\ call[c].op = "add"
  /\ \/ Found(c) /\ Answer(c, "FAILURE")
     \/ NotFound(c) /\ Change(c)
  /\ UNCHANGED <<users, failures, rushed>>

\* ... then the record is inserted.
AddInsert(c) ==
  /\ call[c].op = "add" /\ call[c].at = "change"
  /\ \/ /\ Len(users) < MaxUsers
        /\ users' = Append(users, Slot(call[c].account))
        /\ Answer(c, "OK")
     \/ Len(users) >= MaxUsers /\ Answer(c, "FAILURE") /\ UNCHANGED users
  /\ UNCHANGED <<failures, rushed>>

\* remove_*_user: the first of that name, whatever its role, ...
RemoveFind(c) ==
  /\ call[c].op = "remove"
  /\ \/ Found(c) /\ Change(c)
     \/ NotFound(c) /\ Answer(c, "FAILURE")
  /\ UNCHANGED <<users, failures, rushed>>

\* Mutant of RemoveDelete: the slot counts from zero.
RemoveDeleteBefore(c) ==
  LET s == IF call[c].slot = 1 THEN Len(users) ELSE call[c].slot - 1 IN
  /\ call[c].op = "remove" /\ call[c].at = "change"
  /\ users' = [users EXCEPT ![s].deleted = TRUE] /\ Answer(c, "OK")
  /\ UNCHANGED <<failures, rushed>>

\* ... is deleted by its userID, which is its slot.
RemoveDelete(c) ==
  /\ call[c].op = "remove" /\ call[c].at = "change"
  /\ \/ /\ call[c].slot \in Live
        /\ users' = [users EXCEPT ![call[c].slot].deleted = TRUE]
        /\ Answer(c, "OK")
     \/ call[c].slot \notin Live /\ Answer(c, "FAILURE") /\ UNCHANGED users
  /\ UNCHANGED <<failures, rushed>>

\* Only a find that says "found" is believed: a FAILURE of the find reads as "not
\* there", and of the insert or delete as the end of the call.
CallFails(c) ==
  /\ Running(c) /\ failures < MaxFailures /\ failures' = failures + 1
  /\ IF Finding(c) /\ call[c].op = "add"
       THEN Change(c)
       ELSE Answer(c, "FAILURE")
  /\ UNCHANGED <<users, rushed>>

-----------------------------------------------------------------------------
Init ==
  /\ users = [s \in DOMAIN FirstUsers |-> Slot(FirstUsers[s])]
  /\ call = [c \in Callers |-> Idle]
  /\ failures = 0 /\ rushed = {}

Step(c) ==
  \/ FindNext(c) \/ Login(c) \/ AddFind(c) \/ AddInsert(c) \/ RemoveFind(c) \/ RemoveDelete(c)
  \/ CallFails(c)
Next == \E c \in Callers :
  \/ Step(c)
  \/ \E op \in Ops, account \in Known : Begin(c, op, account)
  \/ \E account \in Known : RootLogin(c, account)

Spec == Init /\ [][Next]_vars

-----------------------------------------------------------------------------
(***************************************************************************)
(* Properties.                                                             *)
(***************************************************************************)
\* The shape of the state.
TypeOK ==
  /\ Len(users) <= MaxUsers
  /\ \A s \in Slots : \E account \in Known :
       users[s] \in {Slot(account), [Slot(account) EXCEPT !.deleted = TRUE]}
  /\ \A c \in Callers :
       /\ call[c].op \in Ops \cup {"none"} /\ call[c].account \in Known
       /\ call[c].at \in {"find", "change", "done"}
       /\ call[c].slot \in 0 .. Len(users) + 1 /\ call[c].length \in 0 .. Len(users)
       /\ call[c].before \subseteq Slots
  /\ failures \in 0 .. MaxFailures

\* The accounts there were all the time of a call, and at some time of it.
Always(c) == call[c].before \cap Live
Ever(c)   == call[c].before \cup {s \in Slots : s > call[c].length}
Same(s, account)  == SameName(s, account) /\ SamePassword(s, account)
Logged(c, answer) == call[c].op = "login" /\ ~Running(c) /\ call[c].answer = answer

\* A login that is let in is root's, or names an account that was there, in that
\* role, at some time of the call.  One that is turned away has no account that
\* was there all the time, unless one of another role with the same name and
\* password stands before it.
LoginRegular ==
  \A c \in Callers : LET a == call[c].account IN
    /\ Logged(c, "OK") => \/ IsRoot(a) /\ a.password = RootPassword
                          \/ \E s \in Ever(c) : Same(s, a) /\ users[s].role = a.role
    /\ Logged(c, "FAILURE") /\ failures = 0 =>
         \A s \in Always(c) : Same(s, a) /\ users[s].role = a.role =>
           \E t \in Ever(c) : t < s /\ Same(t, a) /\ users[t].role # a.role

\* The check and the insert of add_*_user are two calls.  Two accounts have one
\* name, case aside, only if two adds of it ran at the same time.
DuplicatesOnlyByRush ==
  failures = 0 =>
    \A s, t \in Live : s # t /\ Lower[users[s].name] = Lower[users[t].name] =>
      Lower[users[s].name] \in rushed

\* Between the find and the delete of remove_*_user the file may change; still
\* the account that goes is of the name that was asked for.
RemovesNamesake ==
  [][\A s \in Slots : ~users[s].deleted /\ users'[s].deleted =>
       \E c \in Callers : call[c].op = "remove" /\ SameName(s, call[c].account)]_vars
=============================================================================
