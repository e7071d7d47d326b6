------------------------------ MODULE Seating ------------------------------
(***************************************************************************)
(* What the server promises about the tables of the restaurant.  A table   *)
(* is new until an admin adds it, then free or taken until an admin        *)
(* removes it.  It is taken by one guest, who has it while the booking is  *)
(* made, while dining and, when the bill is paid, until it is free again:  *)
(* nobody else takes it in between, nobody else frees it, and no guest has *)
(* two.  Only a database call that failed, or an admin who dismisses its   *)
(* guest, leaves a table taken by nobody; a failed call may also take      *)
(* effect late, and then takes a free table or frees one nobody has.       *)
(***************************************************************************)
EXTENDS Integers

CONSTANTS
  Guests, Tables, NoTable,
  MayDismiss  \* TRUE if admins delete orders

VARIABLES
  table,    \* new, free, taken or removed, for each table
  stage,    \* out, booking, dining or paid, for each guest
  seat,     \* the guest's table
  failures  \* the database calls that failed

seatingVars == <<table, stage, seat, failures>>

Sits(g, s, t) == /\ stage' = [stage EXCEPT ![g] = s]
                 /\ seat' = [seat EXCEPT ![g] = t]
GoesOut(g) == Sits(g, "out", NoTable)
Vacated(t) == table' = [table EXCEPT ![t] = IF @ = "taken" THEN "free" ELSE @]

Take(g, t) ==
  /\ stage[g] = "out" /\ table[t] = "free"
  /\ table' = [table EXCEPT ![t] = "taken"]
  /\ Sits(g, "booking", t)
  /\ UNCHANGED failures

Dine(g) ==
  /\ stage[g] = "booking"
  /\ Sits(g, "dining", seat[g])
  /\ UNCHANGED <<table, failures>>

\* There is no order to be had: the booking is undone.
GiveUp(g) ==
  /\ stage[g] = "booking"
  /\ Vacated(seat[g])
  /\ GoesOut(g)
  /\ UNCHANGED failures

Pay(g) ==
  /\ stage[g] = "dining"
  /\ Sits(g, "paid", seat[g])
  /\ UNCHANGED <<table, failures>>

Free(g) ==
  /\ stage[g] = "paid"
  /\ Vacated(seat[g])
  /\ GoesOut(g)
  /\ UNCHANGED failures

\* The call that fails may be the one that was to free a guest's table, or to bill
\* a guest whose bill is there already.
Fail ==
  /\ failures' = failures + 1
  /\ \/ UNCHANGED <<stage, seat>>
     \/ \E g \in Guests : stage[g] # "out" /\ GoesOut(g)
  /\ UNCHANGED table

\* A guest's order is gone, or its bill was written when it had been told that it
\* was not: it leaves the table taken.
Desert(g) ==
  /\ failures > 0 \/ MayDismiss
  /\ stage[g] = "dining"
  /\ GoesOut(g)
  /\ UNCHANGED <<table, failures>>

\* A claim, or a release, takes effect after it has failed.
TakeLate(t) ==
  /\ failures > 0 /\ table[t] = "free"
  /\ table' = [table EXCEPT ![t] = "taken"]
  /\ UNCHANGED <<stage, seat, failures>>
FreeLate(t) ==
  /\ failures > 0 /\ \A g \in Guests : seat[g] # t
  /\ Vacated(t)
  /\ UNCHANGED <<stage, seat, failures>>

Add(t) ==
  /\ table[t] = "new"
  /\ table' = [table EXCEPT ![t] = "free"]
  /\ UNCHANGED <<stage, seat, failures>>

Remove(t) ==
  /\ table[t] \in {"free", "taken"}
  /\ table' = [table EXCEPT ![t] = "removed"]
  /\ UNCHANGED <<stage, seat, failures>>

SeatingInit ==
  /\ table \in [Tables -> {"new", "free"}]
  /\ stage = [g \in Guests |-> "out"]
  /\ seat = [g \in Guests |-> NoTable]
  /\ failures = 0

SeatingNext ==
  \/ \E g \in Guests : \/ \E t \in Tables : Take(g, t)
                       \/ Dine(g) \/ GiveUp(g) \/ Pay(g) \/ Free(g) \/ Desert(g)
  \/ Fail
  \/ \E t \in Tables : Add(t) \/ Remove(t) \/ TakeLate(t) \/ FreeLate(t)

SeatingSpec == SeatingInit /\ [][SeatingNext]_seatingVars
=============================================================================
