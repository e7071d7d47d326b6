---------------------------- MODULE RecordStore ----------------------------
(***************************************************************************)
(* What the storage engine promises its clients: a set of cells that each  *)
(* hold a record or nothing, and calls that take effect at one instant     *)
(* between their start and their return.  A cell is given out once; a      *)
(* record that is deleted never comes back.  A search that reports "not    *)
(* found" has examined every cell at some instant of the call, but not all *)
(* of them at the same one.                                                *)
(***************************************************************************)
EXTENDS Integers

CONSTANTS Clients, DbTypes, Slots, Record, Requests, MayFail, Absent, NoCell,
  NoCall, NoAnswer  \* what an idle client's call and answer hold

Cells == DbTypes \X Slots

VARIABLES
  store,  \* the record of a cell, or Absent
  spent,  \* the cells given out so far
  phase,  \* idle, busy (before the effect), settled (after it) or answered
  call,   \* the request of a client's call
  cell,   \* the cell an insert was given
  seen,   \* the cells a search has examined and found not to match
  answer  \* status, key and record returned

storeVars == <<store, spent, phase, call, cell, seen, answer>>

TypeCells(c) == {d \in Cells : d[1] = call[c].type}
Matches(c, d) == store[d] # Absent /\ store[d] \in call[c].match
Holds(c, d) == d \in TypeCells(c) /\ d[2] = call[c].key /\ store[d] # Absent
Asked(c, op) == phase[c] = "busy" /\ call[c].op = op
Become(c, p) == phase' = [phase EXCEPT ![c] = p]
Forget(c) == /\ cell' = [cell EXCEPT ![c] = NoCell]
             /\ seen' = [seen EXCEPT ![c] = {}]

\* The call ends with this answer; rec is irrelevant unless the call reads.
Reply(c, status, key, rec) ==
  /\ Become(c, "answered")
  /\ answer' = [answer EXCEPT ![c] = [status |-> status, key |-> key, rec |-> rec]]
  /\ Forget(c)

Call(c) ==
  /\ phase[c] = "idle"
  /\ \E r \in Requests : call' = [call EXCEPT ![c] = r]
  /\ Become(c, "busy")
  /\ UNCHANGED <<store, spent, cell, seen, answer>>

Return(c) ==
  /\ phase[c] = "answered"
  /\ Become(c, "idle")
  /\ call' = [call EXCEPT ![c] = NoCall]
  /\ answer' = [answer EXCEPT ![c] = NoAnswer]
  /\ UNCHANGED <<store, spent, cell, seen>>

Refuse(c) ==
  /\ Asked(c, "insert")
  /\ TypeCells(c) \subseteq spent
  /\ Reply(c, "failure", -1, NoAnswer.rec)
  /\ UNCHANGED <<store, spent, call>>

Reserve(c) ==
  /\ Asked(c, "insert") /\ cell[c] = NoCell
  /\ \E d \in TypeCells(c) \ spent :
       /\ cell' = [cell EXCEPT ![c] = d]
       /\ spent' = spent \cup {d}
  /\ UNCHANGED <<store, phase, call, seen, answer>>

\* The record appears whole, under the number of its cell.
Insert(c) ==
  /\ Asked(c, "insert") /\ cell[c] # NoCell
  /\ store' = [store EXCEPT ![cell[c]] = [call[c].rec EXCEPT !.id = cell[c][2]]]
  /\ Become(c, "settled")
  /\ UNCHANGED <<spent, call, cell, seen, answer>>

Delete(c) ==
  /\ Asked(c, "delete")
  /\ \E d \in TypeCells(c) : Holds(c, d) /\ store' = [store EXCEPT ![d] = Absent]
  /\ Become(c, "settled")
  /\ UNCHANGED <<spent, call, cell, seen, answer>>

Acknowledge(c) ==
  /\ phase[c] = "settled"
  /\ Reply(c, "success", IF cell[c] = NoCell THEN -1 ELSE cell[c][2], NoAnswer.rec)
  /\ UNCHANGED <<store, spent, call>>

Update(c) ==
  /\ Asked(c, "update")
  /\ \E d \in TypeCells(c) : Holds(c, d) /\ store' = [store EXCEPT ![d] = call[c].rec]
  /\ Reply(c, "success", -1, NoAnswer.rec)
  /\ UNCHANGED <<spent, call>>

Read(c) ==
  /\ Asked(c, "read")
  /\ \E d \in TypeCells(c) : Holds(c, d) /\ Reply(c, "success", -1, store[d])
  /\ UNCHANGED <<store, spent, call>>

Missing(c) ==
  /\ phase[c] = "busy" /\ call[c].op \in {"update", "delete", "read"}
  /\ \A d \in TypeCells(c) : ~Holds(c, d)
  /\ Reply(c, "not_found", -1, NoAnswer.rec)
  /\ UNCHANGED <<store, spent, call>>

Find(c) ==
  /\ Asked(c, "find")
  /\ \E d \in TypeCells(c) : Matches(c, d) /\ Reply(c, "success", -1, store[d])
  /\ UNCHANGED <<store, spent, call>>

\* The match and the write are one step: two calls never both match one record.
FindAndUpdate(c) ==
  /\ Asked(c, "find_and_update")
  /\ \E d \in TypeCells(c) : Matches(c, d) /\ store' = [store EXCEPT ![d] = call[c].rec]
  /\ Reply(c, "success", -1, NoAnswer.rec)
  /\ UNCHANGED <<spent, call>>

Examine(c) ==
  /\ Asked(c, "find") \/ Asked(c, "find_and_update")
  /\ \E S \in SUBSET {d \in TypeCells(c) : ~Matches(c, d)} :
       seen' = [seen EXCEPT ![c] = @ \cup S]
  /\ UNCHANGED <<store, spent, phase, call, cell, answer>>

NotFound(c) ==
  /\ Asked(c, "find") \/ Asked(c, "find_and_update")
  /\ \A d \in TypeCells(c) \ seen[c] : ~Matches(c, d)
  /\ Reply(c, "not_found", -1, NoAnswer.rec)
  /\ UNCHANGED <<store, spent, call>>

\* An I/O error: the effect may have happened, and the caller is told FAILURE.
Fail(c) ==
  /\ MayFail
  /\ phase[c] \in {"busy", "settled"}
  /\ Reply(c, "failure", -1, NoAnswer.rec)
  /\ UNCHANGED <<store, spent, call>>

StoreInit ==
  /\ store = [d \in Cells |-> Absent]
  /\ spent = {}
  /\ phase = [c \in Clients |-> "idle"]
  /\ call = [c \in Clients |-> NoCall]
  /\ cell = [c \in Clients |-> NoCell]
  /\ seen = [c \in Clients |-> {}]
  /\ answer = [c \in Clients |-> NoAnswer]

StoreNext == \E c \in Clients :
  \/ Call(c) \/ Return(c)
  \/ Refuse(c) \/ Reserve(c) \/ Insert(c) \/ Delete(c) \/ Acknowledge(c)
  \/ Update(c) \/ Read(c) \/ Missing(c)
  \/ Find(c) \/ FindAndUpdate(c) \/ Examine(c) \/ NotFound(c)
  \/ Fail(c)

StoreSpec == StoreInit /\ [][StoreNext]_storeVars
=============================================================================
