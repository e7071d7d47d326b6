------------------------------ MODULE DBEngine ------------------------------
(***************************************************************************)
(* The storage engine of DB_Service: the worker threads of DB_engine.c     *)
(* running the operations of DB_File_IO_Handler.c against one in-memory    *)
(* index, one mutex (db_mutex_db_info), one reader-writer lock per slot    *)
(* and two files per record type.                                          *)
(*                                                                         *)
(* A step is the code between two points where a thread can be suspended   *)
(* with an effect others can see: taking the mutex, waiting for a slot     *)
(* lock, one pread or pwrite.  A critical section that cannot block inside *)
(* is one step; the sections that wait for a slot lock while they own the  *)
(* mutex are two, so that the wait is a state.                             *)
(***************************************************************************)
EXTENDS Integers, FiniteSets

CONSTANTS
  Workers,      \* the engine's threads (DB_MAX_THREADS of them)
  DbTypes,      \* record types: orders, menu, tables, users
  MaxRecords,   \* slots per type (1000 in the code); no slot is ever reused
  Contents,     \* what a record holds besides its id field
  Zero,         \* the contents of a record that reads back as zero bytes
  Requests,     \* the requests the clients send
  IOFaults,     \* TRUE if pread and pwrite may fail
  Nobody,       \* the owner of a free lock
  Unwritten,    \* a file position no pwrite has reached
  Absent,       \* no record, in the abstract store
  NoCell        \* no cell, in the abstract store

Slots  == 0 .. MaxRecords - 1
Cells  == DbTypes \X Slots
Record == [id : Slots, val : Contents]
IndexEntry == [key : Slots, offset : Slots, is_deleted : BOOLEAN]
Ops    == {"insert", "update", "delete", "read", "find", "find_and_update"}

(***************************************************************************)
(* struct msg_request.  The partial record and the match_mask of a find    *)
(* are one predicate on records, the set of the records it accepts.        *)
(***************************************************************************)
Request == [op : Ops, type : DbTypes, key : Int, match : SUBSET Record, rec : Record]

\* The two marks of the abstract store are nothing a client could have stored.
ASSUME StoreAssumption == Absent \notin Record /\ NoCell \notin Cells

ASSUME EngineAssumption ==
  /\ MaxRecords \in Nat \ {0}
  /\ Zero \in Contents
  /\ Requests \subseteq Request
  /\ Requests # {}
  /\ IOFaults \in BOOLEAN
  /\ Nobody \notin Workers
  /\ Unwritten \notin Record \cup IndexEntry

VARIABLES
  num,      \* num_records_*: slots handed out so far, per type
  index,    \* index_*: the in-memory index
  data,     \* the .db files, by slot-sized position
  idx,      \* the .idx files, by slot
  mutex,    \* owner of db_mutex_db_info
  writer,   \* owner of a slot's write lock
  readers,  \* holders of a slot's read lock
  pc,       \* where each worker stands
  req,      \* the request it works on
  slot,     \* my_index / target_slot
  limit,    \* target_num_records, the scan's bound
  reply     \* the reply under construction

vars == <<num, index, data, idx, mutex, writer, readers, pc, req, slot, limit, reply>>
files == <<data, idx>>
locks == <<mutex, writer, readers>>

ZeroRecord == [id |-> 0, val |-> Zero]
NoEntry    == [key |-> 0, offset |-> 0, is_deleted |-> TRUE]
NoReply    == [status |-> "none", key |-> -1, rec |-> ZeroRecord]
NoRequest  == CHOOSE r \in Requests : TRUE

\* Program points, by the lock the worker holds while it stands there.
WritePc == {"insert_write", "publish", "insert_persist", "update_write",
            "delete_persist", "claim_read", "claim_write"}
ReadPc  == {"read_record", "find_read"}
FreePc  == {"idle", "start", "insert_lock", "rescan", "done"}
Pc      == WritePc \cup ReadPc \cup FreePc \cup {"acquire"}

\* The slot a worker works on, and the place of its record in the data file.
Cell(w) == <<req[w].type, slot[w]>>
Place(w) == <<req[w].type, index[Cell(w)].offset>>

\* What pread returns at a place: a hole in a file reads as zero bytes.
Stored(c) == IF data[c] = Unwritten THEN ZeroRecord ELSE data[c]

At(w, point) == pc[w] = point
Asks(w, ops) == req[w].op \in ops
Goto(w, point) == pc' = [pc EXCEPT ![w] = point]
Answer(w, status, key, rec) ==
  /\ reply' = [reply EXCEPT ![w] = [status |-> status, key |-> key, rec |-> rec]]
  /\ Goto(w, "done")

\* Mutant of LockWrite: the writer does not wait for the readers.
LockWriteOverReaders(w) == /\ writer[Cell(w)] = Nobody
                           /\ writer' = [writer EXCEPT ![Cell(w)] = w]
                           /\ UNCHANGED readers

LockWrite(w) == /\ writer[Cell(w)] = Nobody
                /\ readers[Cell(w)] = {}
                /\ writer' = [writer EXCEPT ![Cell(w)] = w]
                /\ UNCHANGED readers
LockRead(w)  == /\ writer[Cell(w)] = Nobody
                /\ readers' = [readers EXCEPT ![Cell(w)] = @ \cup {w}]
                /\ UNCHANGED writer
Unlock(w)    == /\ writer' = [writer EXCEPT ![Cell(w)] = IF @ = w THEN Nobody ELSE @]
                /\ readers' = [readers EXCEPT ![Cell(w)] = @ \ {w}]

-----------------------------------------------------------------------------
\* msgrcv hands the worker a request; msgsnd takes the reply from it.
Receive(w) ==
  /\ At(w, "idle")
  /\ \E r \in Requests : req' = [req EXCEPT ![w] = r]
  /\ Goto(w, "start")
  /\ UNCHANGED <<num, index, files, locks, slot, limit, reply>>

Send(w) ==
  /\ At(w, "done")
  /\ Goto(w, "idle")
  /\ req' = [req EXCEPT ![w] = NoRequest]
  /\ slot' = [slot EXCEPT ![w] = 0]
  /\ limit' = [limit EXCEPT ![w] = 0]
  /\ reply' = [reply EXCEPT ![w] = NoReply]
  /\ UNCHANGED <<num, index, files, locks>>

-----------------------------------------------------------------------------
\* db_insert, first critical section: the type is full, or a slot is taken.
InsertFull(w) ==
  /\ At(w, "start") /\ Asks(w, {"insert"})
  /\ mutex = Nobody
  /\ num[req[w].type] >= MaxRecords
  /\ Answer(w, "failure", -1, ZeroRecord)
  /\ UNCHANGED <<num, index, files, locks, req, slot, limit>>


InsertTakeSlot(w) ==
  LET t == req[w].type IN
  /\ At(w, "start") /\ Asks(w, {"insert"})
  /\ mutex = Nobody
  /\ num[t] < MaxRecords
  /\ slot' = [slot EXCEPT ![w] = num[t]]
  /\ num' = [num EXCEPT ![t] = @ + 1]
  /\ index' = [index EXCEPT ![<<t, num[t]>>].is_deleted = TRUE]
  /\ Goto(w, "insert_lock")
  /\ UNCHANGED <<files, locks, req, limit, reply>>

InsertLock(w) ==
  /\ At(w, "insert_lock")
  /\ LockWrite(w)
  /\ Goto(w, "insert_write")
  /\ UNCHANGED <<num, index, files, mutex, req, slot, limit, reply>>

\* Mutant of InsertWrite: the id field is left as the client sent it.
InsertWriteUnstamped(w) ==
  /\ At(w, "insert_write")
  /\ data' = [data EXCEPT ![Cell(w)] = req[w].rec]
  /\ Goto(w, "publish")
  /\ UNCHANGED <<num, index, idx, locks, req, slot, limit, reply>>

\* The record is written with its slot number stamped into its id field.
InsertWrite(w) ==
  /\ At(w, "insert_write")
  /\ data' = [data EXCEPT ![Cell(w)] = [req[w].rec EXCEPT !.id = slot[w]]]
  /\ Goto(w, "publish")
  /\ UNCHANGED <<num, index, idx, locks, req, slot, limit, reply>>

\* Second critical section, entered while the slot's write lock is held.
InsertPublish(w) ==
  /\ At(w, "publish")
  /\ mutex = Nobody
  /\ index' = [index EXCEPT ![Cell(w)] =
                 [key |-> slot[w], offset |-> slot[w], is_deleted |-> FALSE]]
  /\ Goto(w, "insert_persist")
  /\ UNCHANGED <<num, files, locks, req, slot, limit, reply>>

InsertPersist(w) ==
  /\ At(w, "insert_persist")
  /\ idx' = [idx EXCEPT ![Cell(w)] = index[Cell(w)]]
  /\ Unlock(w)
  /\ Answer(w, "success", slot[w], ZeroRecord)
  /\ UNCHANGED <<num, index, data, mutex, req, slot, limit>>

-----------------------------------------------------------------------------
\* Mutant of Live: the scans do not look at is_deleted.
LiveOrNot(t, from, to) == {i \in Slots : from <= i /\ i < to}

\* The live slots of a type in a range, as the linear scans visit them.
Live(t, from, to) == {i \in Slots : from <= i /\ i < to /\ ~index[<<t, i>>].is_deleted}
First(S) == CHOOSE i \in S : \A j \in S : i <= j

\* Take the mutex, choose a slot and keep the mutex, or leave with NOT_FOUND.
Choose(w, candidates) ==
  IF candidates = {}
    THEN /\ Answer(w, "not_found", -1, ZeroRecord)
         /\ mutex' = Nobody
         /\ UNCHANGED slot
    ELSE /\ mutex' = w
         /\ slot' = [slot EXCEPT ![w] = First(candidates)]
         /\ Goto(w, "acquire")
         /\ UNCHANGED reply

\* The scan by key that opens db_update, db_delete and db_read.
Lookup(w) ==
  LET t == req[w].type IN
  /\ At(w, "start") /\ Asks(w, {"update", "delete", "read"})
  /\ mutex = Nobody
  /\ Choose(w, {i \in Live(t, 0, num[t]) : index[<<t, i>>].key = req[w].key})
  /\ UNCHANGED <<num, index, files, writer, readers, req, limit>>

\* db_find and db_find_and_update: the first slot of the scan ...
ScanStart(w) ==
  LET t == req[w].type IN
  /\ At(w, "start") /\ Asks(w, {"find", "find_and_update"})
  /\ mutex = Nobody
  /\ limit' = [limit EXCEPT ![w] = num[t]]
  /\ Choose(w, Live(t, 0, num[t]))
  /\ UNCHANGED <<num, index, files, writer, readers, req>>

\* Mutant of Rescan: the scan stays at the slot that did not match.
RescanSameSlot(w) ==
  /\ At(w, "rescan")
  /\ mutex = Nobody
  /\ Choose(w, Live(req[w].type, slot[w], limit[w]))
  /\ UNCHANGED <<num, index, files, writer, readers, req, limit>>

\* ... and the next one, after the slot at hand did not match.
Rescan(w) ==
  /\ At(w, "rescan")
  /\ mutex = Nobody
  /\ Choose(w, Live(req[w].type, slot[w] + 1, limit[w]))
  /\ UNCHANGED <<num, index, files, writer, readers, req, limit>>

-----------------------------------------------------------------------------
\* The slot lock is granted to the owner of the mutex, which re-validates the
\* slot and releases the mutex.  (The scans would go on with the next slot; a
\* stale slot ends the other operations with NOT_FOUND.)
Granted(w, point) ==
  IF index[Cell(w)].is_deleted
    THEN /\ UNCHANGED <<writer, readers>>
         /\ IF Asks(w, {"find", "find_and_update"})
              THEN Choose(w, Live(req[w].type, slot[w] + 1, limit[w]))
              ELSE Choose(w, {})
    ELSE /\ IF point \in ReadPc THEN LockRead(w) ELSE LockWrite(w)
         /\ mutex' = Nobody
         /\ Goto(w, point)
         /\ UNCHANGED <<slot, reply>>

UpdateLock(w) ==
  /\ At(w, "acquire") /\ Asks(w, {"update"})
  /\ Granted(w, "update_write")
  /\ UNCHANGED <<num, index, files, req, limit>>

\* db_delete marks the slot deleted before it lets the mutex go.
DeleteLock(w) ==
  /\ At(w, "acquire") /\ Asks(w, {"delete"})
  /\ Granted(w, "delete_persist")
  /\ index' = [index EXCEPT ![Cell(w)].is_deleted = TRUE]
  /\ UNCHANGED <<num, files, req, limit>>

ReadLock(w) ==
  /\ At(w, "acquire") /\ Asks(w, {"read"})
  /\ Granted(w, "read_record")
  /\ UNCHANGED <<num, index, files, req, limit>>

FindLock(w) ==
  /\ At(w, "acquire") /\ Asks(w, {"find"})
  /\ Granted(w, "find_read")
  /\ UNCHANGED <<num, index, files, req, limit>>

FindAndUpdateLock(w) ==
  /\ At(w, "acquire") /\ Asks(w, {"find_and_update"})
  /\ Granted(w, "claim_read")
  /\ UNCHANGED <<num, index, files, req, limit>>

-----------------------------------------------------------------------------
UpdateWrite(w) ==
  /\ At(w, "update_write")
  /\ data' = [data EXCEPT ![Place(w)] = req[w].rec]
  /\ Unlock(w)
  /\ Answer(w, "success", -1, ZeroRecord)
  /\ UNCHANGED <<num, index, idx, mutex, req, slot, limit>>

\* Mutants of DeletePersist: the index file keeps the live entry; the entry
\* from before the delete is put back into the index.
DeletePersistNothing(w) ==
  /\ At(w, "delete_persist")
  /\ Unlock(w)
  /\ Answer(w, "success", -1, ZeroRecord)
  /\ UNCHANGED <<num, index, files, mutex, req, slot, limit>>
DeletePutBack(w) ==
  /\ At(w, "delete_persist")
  /\ index' = [index EXCEPT ![Cell(w)].is_deleted = FALSE]
  /\ idx' = [idx EXCEPT ![Cell(w)] = index'[Cell(w)]]
  /\ Unlock(w)
  /\ Answer(w, "success", -1, ZeroRecord)
  /\ UNCHANGED <<num, data, mutex, req, slot, limit>>

DeletePersist(w) ==
  /\ At(w, "delete_persist")
  /\ idx' = [idx EXCEPT ![Cell(w)] = index[Cell(w)]]
  /\ Unlock(w)
  /\ Answer(w, "success", -1, ZeroRecord)
  /\ UNCHANGED <<num, index, data, mutex, req, slot, limit>>

ReadRecord(w) ==
  /\ At(w, "read_record")
  /\ Unlock(w)
  /\ Answer(w, "success", -1, Stored(Place(w)))
  /\ UNCHANGED <<num, index, files, mutex, req, slot, limit>>

FindRead(w) ==
  /\ At(w, "find_read")
  /\ Unlock(w)
  /\ IF Stored(Place(w)) \in req[w].match
       THEN Answer(w, "success", -1, Stored(Place(w)))
       ELSE Goto(w, "rescan") /\ UNCHANGED reply
  /\ UNCHANGED <<num, index, files, mutex, req, slot, limit>>

\* Mutant of ClaimRead: the slot is unlocked between the match and the write.
ClaimReadUnlocked(w) ==
  /\ At(w, "claim_read")
  /\ Goto(w, IF Stored(Place(w)) \in req[w].match THEN "claim_write" ELSE "rescan")
  /\ Unlock(w)
  /\ UNCHANGED <<num, index, files, mutex, req, slot, limit, reply>>

\* db_find_and_update keeps the write lock from the match to the write.
ClaimRead(w) ==
  /\ At(w, "claim_read")
  /\ IF Stored(Place(w)) \in req[w].match
       THEN Goto(w, "claim_write") /\ UNCHANGED <<writer, readers>>
       ELSE Goto(w, "rescan") /\ Unlock(w)
  /\ UNCHANGED <<num, index, files, mutex, req, slot, limit, reply>>

ClaimWrite(w) ==
  /\ At(w, "claim_write")
  /\ data' = [data EXCEPT ![Place(w)] = req[w].rec]
  /\ Unlock(w)
  /\ Answer(w, "success", -1, ZeroRecord)
  /\ UNCHANGED <<num, index, idx, mutex, req, slot, limit>>

\* Mutant of IOFail: the slot of a failed insert is given back, although a later
\* one may be in use.
IOFailSlotBack(w) ==
  /\ IOFaults
  /\ pc[w] \in (WritePc \ {"publish"}) \cup ReadPc
  /\ Unlock(w)
  /\ num' = IF Asks(w, {"insert"}) THEN [num EXCEPT ![req[w].type] = @ - 1] ELSE num
  /\ Answer(w, "failure", -1, ZeroRecord)
  /\ UNCHANGED <<index, files, mutex, req, slot, limit>>

\* A failed pread or pwrite: unlock the slot and answer FAILURE, leaving what
\* earlier steps of the operation did.
IOFail(w) ==
  /\ IOFaults
  /\ pc[w] \in (WritePc \ {"publish"}) \cup ReadPc
  /\ Unlock(w)
  /\ Answer(w, "failure", -1, ZeroRecord)
  /\ UNCHANGED <<num, index, files, mutex, req, slot, limit>>

-----------------------------------------------------------------------------
\* db_init on empty files.
Init ==
  /\ num = [t \in DbTypes |-> 0]
  /\ index = [c \in Cells |-> NoEntry]
  /\ data = [c \in Cells |-> Unwritten]
  /\ idx = [c \in Cells |-> Unwritten]
  /\ mutex = Nobody
  /\ writer = [c \in Cells |-> Nobody]
  /\ readers = [c \in Cells |-> {}]
  /\ pc = [w \in Workers |-> "idle"]
  /\ req = [w \in Workers |-> NoRequest]
  /\ slot = [w \in Workers |-> 0]
  /\ limit = [w \in Workers |-> 0]
  /\ reply = [w \in Workers |-> NoReply]

\* The steps that begin by taking the mutex, and the others of an operation.
MutexStep(w) ==
  \/ InsertFull(w) \/ InsertTakeSlot(w) \/ InsertPublish(w)
  \/ Lookup(w) \/ ScanStart(w) \/ Rescan(w)

OwnStep(w) ==
  \/ InsertLock(w) \/ InsertWrite(w) \/ InsertPersist(w)
  \/ UpdateLock(w) \/ DeleteLock(w) \/ ReadLock(w) \/ FindLock(w) \/ FindAndUpdateLock(w)
  \/ UpdateWrite(w) \/ DeletePersist(w) \/ ReadRecord(w) \/ FindRead(w)
  \/ ClaimRead(w) \/ ClaimWrite(w)

Next == \E w \in Workers : Receive(w) \/ MutexStep(w) \/ OwnStep(w) \/ IOFail(w) \/ Send(w)

Spec == Init /\ [][Next]_vars

\* Worker threads are scheduled fairly.  A pthread mutex is not a queue: all
\* that can be asked of it is that a thread which finds it free again and again
\* does get it.  No fairness on requests: clients may stop asking.
Fairness == \A w \in Workers : WF_vars(OwnStep(w) \/ Send(w)) /\ SF_vars(MutexStep(w))
FairSpec == Spec /\ Fairness

-----------------------------------------------------------------------------
(***************************************************************************)
(* Properties.                                                             *)
(***************************************************************************)
Reply == [status : {"none", "success", "failure", "not_found"},
          key : Slots \cup {-1}, rec : Record]

\* The shape of the state.
TypeOK ==
  /\ num \in [DbTypes -> 0 .. MaxRecords]
  /\ index \in [Cells -> IndexEntry]
  /\ data \in [Cells -> Record \cup {Unwritten}]
  /\ idx \in [Cells -> IndexEntry \cup {Unwritten}]
  /\ mutex \in Workers \cup {Nobody}
  /\ writer \in [Cells -> Workers \cup {Nobody}]
  /\ readers \in [Cells -> SUBSET Workers]
  /\ pc \in [Workers -> Pc]
  /\ req \in [Workers -> Requests]
  /\ slot \in [Workers -> Slots]
  /\ limit \in [Workers -> 0 .. MaxRecords]
  /\ reply \in [Workers -> Reply]

\* Who holds a lock is who stands where the code holds it: no path out of an
\* operation (success, not found, failed I/O) leaks the mutex or a slot lock.
LockDiscipline ==
  /\ \A w \in Workers : mutex = w <=> pc[w] = "acquire"
  /\ \A c \in Cells, w \in Workers :
       /\ writer[c] = w <=> pc[w] \in WritePc /\ Cell(w) = c
       /\ w \in readers[c] <=> pc[w] \in ReadPc /\ Cell(w) = c
  /\ \A c \in Cells : writer[c] # Nobody => readers[c] = {}

\* A slot being inserted is invisible to every lookup and nothing was persisted
\* for it; it has been counted, and no other worker uses it or waits for it.
Inserting == {"insert_lock", "insert_write", "publish"}
OnSlot == WritePc \cup ReadPc \cup {"acquire", "insert_lock"}
InsertUnseen ==
  \A w \in Workers : pc[w] \in Inserting =>
    /\ index[Cell(w)].is_deleted
    /\ idx[Cell(w)] = Unwritten
    /\ \A v \in Workers \ {w} : pc[v] \in OnSlot => Cell(v) # Cell(w)

\* The slot a worker waits for while it owns the mutex is live: the scan that
\* chose it has held the mutex ever since, so the "re-validate" branches after
\* the lock is granted (lines 348, 435, 536, 672 and 793) are never taken.  And
\* a slot whose record is being read or written stays live until it is unlocked.
OnRecord == ReadPc \cup {"update_write", "claim_read", "claim_write", "insert_persist"}
LockTargetLive ==
  \A w \in Workers : pc[w] \in OnRecord \cup {"acquire"} => ~index[Cell(w)].is_deleted

\* db_insert takes a slot lock and then the mutex; every other operation takes
\* the mutex and then a slot lock.  What keeps the two orders from closing a
\* cycle: nobody who owns the mutex waits for the slot of an insert that wants it.
NoLockCycle ==
  \A v, w \in Workers :
    (pc[v] = "publish" /\ pc[w] = "acquire") => Cell(v) # Cell(w)

\* The counter covers every slot in use, in memory and on disk.
Counted ==
  /\ \A w \in Workers : pc[w] \in OnSlot => slot[w] < num[req[w].type]
  /\ \A c \in Cells : c[2] >= num[c[1]] => index[c].is_deleted /\ idx[c] = Unwritten

\* No two workers are at a pread or pwrite of one record's place (or one index
\* entry) unless both read.
IndexIO == {"insert_persist", "delete_persist"}
RecordWrite == {"insert_write", "update_write", "claim_read", "claim_write"}
RecordIO == RecordWrite \cup ReadPc
Target(w) == IF pc[w] = "insert_write" THEN Cell(w) ELSE Place(w)
NoConflictingIO ==
  \A v, w \in Workers : v # w =>
    /\ (pc[v] \in IndexIO /\ pc[w] \in IndexIO) => Cell(v) # Cell(w)
    /\ (pc[v] \in RecordWrite /\ pc[w] \in RecordIO) => Target(v) # Target(w)

\* "key == slot number": a live entry is at its own slot, points at its own
\* place, and its record has been written.
IndexSound ==
  /\ \A c \in Cells : ~index[c].is_deleted =>
       index[c].key = c[2] /\ index[c].offset = c[2] /\ data[c] # Unwritten
  /\ \A w \in Workers : pc[w] = "publish" => data[Cell(w)] # Unwritten

\* Between the match of db_find_and_update and its write nobody changes the
\* record: it still matches when it is overwritten.
ClaimHolds ==
  \A w \in Workers : pc[w] = "claim_write" => Stored(Place(w)) \in req[w].match

\* While no pread or pwrite fails, an index entry nobody is writing is the same
\* in memory and on disk: every answered insert and delete survives a restart.
IndexDurable ==
  ~IOFaults => \A c \in Cells : writer[c] = Nobody =>
    \/ idx[c] = index[c]
    \/ idx[c] = Unwritten /\ index[c].is_deleted

\* The inductive invariant: the part that holds whatever the index holds, and
\* the whole.
LockInv == TypeOK /\ LockDiscipline /\ Counted /\ InsertUnseen /\ LockTargetLive
EngineInv == LockInv /\ IndexSound /\ ClaimHolds

\* A record that was deleted never comes back: after its insert a slot only
\* goes from live to deleted.
Used == {c \in Cells : idx[c] # Unwritten}
NoResurrection ==
  [][\A c \in Used : index[c].is_deleted => index'[c].is_deleted]_vars

\* Every request a worker picked up is answered, whatever the others do.
EveryCallAnswered ==
  \A w \in Workers : pc[w] = "start" ~> pc[w] = "done"

-----------------------------------------------------------------------------
(***************************************************************************)
(* The engine implements RecordStore: the index decides which cells are    *)
(* occupied, an insert takes effect when it publishes its entry, a delete  *)
(* when it marks the entry, an update at its pwrite.                       *)
(***************************************************************************)
Searching(w) == Asks(w, {"find", "find_and_update"}) /\ pc[w] \notin {"idle", "start", "done"}
Passed(w) == IF pc[w] = "rescan" THEN slot[w] ELSE slot[w] - 1

Kept(c) == IF index[c].is_deleted THEN Absent ELSE Stored(<<c[1], index[c].offset>>)
PhaseOf(w) == CASE pc[w] = "idle" -> "idle"
                [] pc[w] = "done" -> "answered"
                [] pc[w] \in IndexIO -> "settled"
                [] OTHER -> "busy"
GivenTo(w) == IF pc[w] \in Inserting \cup {"insert_persist"} THEN Cell(w) ELSE NoCell
ExaminedBy(w) ==
  IF Searching(w)
    THEN {c \in Cells : c[1] = req[w].type /\ (c[2] <= Passed(w) \/ c[2] >= limit[w])}
    ELSE {}

storeBar == [c \in Cells |-> Kept(c)]
spentBar == {c \in Cells : c[2] < num[c[1]]}
phaseBar == [w \in Workers |-> PhaseOf(w)]
cellBar  == [w \in Workers |-> GivenTo(w)]
seenBar  == [w \in Workers |-> ExaminedBy(w)]

Store == INSTANCE RecordStore WITH
  Clients <- Workers, MayFail <- IOFaults, NoCall <- NoRequest, NoAnswer <- NoReply,
  store <- storeBar, spent <- spentBar, phase <- phaseBar, call <- req, cell <- cellBar,
  seen <- seenBar, answer <- reply

\* Every step of the engine is a step of the abstract store, or changes nothing
\* its clients can tell.
ImplementsStore == Store!StoreSpec
=============================================================================
