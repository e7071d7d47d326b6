--------------------------- MODULE DBEngineProofs ---------------------------
(* Machine-checked properties of the storage engine, for any number of       *)
(* threads, types and slots and any set of requests.                         *)
EXTENDS DBEngine, WellFoundedInduction, TLAPS

(***************************************************************************)
(* The scans.                                                              *)
(***************************************************************************)
\* The first slot of a scan is one of the slots it may choose from, and none is
\* before it.
LEMMA FirstIsChosen ==
  ASSUME NEW S \in SUBSET Nat, S # {}
  PROVE  First(S) \in S /\ \A i \in S : First(S) <= i
<1> DEFINE R == {p \in Nat \X Nat : p[1] < p[2]}
<1>1. IsWellFoundedOn(R, Nat)
  BY NatLessThanWellFounded DEF OpToRel, R
<1>2. PICK x \in S : \A y \in S : ~(<<y, x>> \in R)
  <2> HIDE DEF R
  <2> QED BY <1>1, WFMin
<1>3. ASSUME NEW y \in S PROVE x <= y
  <2>1. <<y, x>> \in Nat \X Nat /\ <<y, x>>[1] = y /\ <<y, x>>[2] = x
    OBVIOUS
  <2>2. ~(y < x)
    BY <1>2, <2>1 DEF R
  <2> QED BY <2>2, <2>1
<1> QED BY <1>3 DEF First

LEMMA LiveSlots ==
  ASSUME NEW t, NEW a, NEW b
  PROVE  /\ Live(t, a, b) \in SUBSET Nat
         /\ \A i \in Live(t, a, b) : i \in Slots /\ a <= i /\ i < b /\ ~index[<<t, i>>].is_deleted
BY EngineAssumption DEF Live, Slots

(***************************************************************************)
(* Types.                                                                  *)
(***************************************************************************)
LEMMA RequestTypes ==
  ASSUME NEW r \in Requests
  PROVE  r.op \in Ops /\ r.type \in DbTypes /\ r.rec \in Record
BY EngineAssumption DEF Request

LEMMA Defaults ==
  /\ NoRequest \in Requests
  /\ 0 \in Slots
  /\ ZeroRecord \in Record
  /\ NoReply \in Reply
  /\ NoEntry \in IndexEntry
<1>1. NoRequest \in Requests
  BY EngineAssumption DEF NoRequest
<1>2. 0 \in Slots
  BY EngineAssumption DEF Slots
<1>3. ZeroRecord \in Record
  BY <1>2, EngineAssumption DEF ZeroRecord, Record
<1> QED BY <1>1, <1>2, <1>3 DEF NoReply, Reply, NoEntry, IndexEntry

LEMMA CellTypes ==
  ASSUME TypeOK, NEW w \in Workers
  PROVE  /\ req[w] \in Requests
         /\ req[w].type \in DbTypes
         /\ slot[w] \in Slots
         /\ Cell(w) \in Cells
         /\ Cell(w) = <<req[w].type, slot[w]>>
BY RequestTypes DEF TypeOK, Cell, Cells

LEMMA StoredType ==
  ASSUME TypeOK, NEW c \in Cells
  PROVE  Stored(c) \in Record
BY Defaults DEF TypeOK, Stored

LEMMA PlaceType ==
  ASSUME TypeOK, NEW w \in Workers
  PROVE  Place(w) \in Cells
BY CellTypes DEF TypeOK, Place, Cells, IndexEntry

LEMMA AnswerType ==
  ASSUME TypeOK, NEW w \in Workers, NEW s \in {"none", "success", "failure", "not_found"},
         NEW k \in Slots \cup {-1}, NEW r \in Record, Answer(w, s, k, r)
  PROVE  reply' \in [Workers -> Reply] /\ pc' \in [Workers -> Pc]
BY DEF TypeOK, Answer, Reply, Goto, Pc, FreePc

LEMMA LockTypes ==
  ASSUME TypeOK, NEW w \in Workers, LockRead(w) \/ LockWrite(w) \/ Unlock(w)
  PROVE  writer' \in [Cells -> Workers \cup {Nobody}] /\ readers' \in [Cells -> SUBSET Workers]
<1>1. CASE LockRead(w)
  BY <1>1, CellTypes DEF TypeOK, LockRead
<1>2. CASE LockWrite(w)
  BY <1>2, CellTypes DEF TypeOK, LockWrite
<1>3. CASE Unlock(w)
  <2>1. writer' \in [Cells -> Workers \cup {Nobody}]
    BY <1>3, CellTypes DEF TypeOK, Unlock
  <2>2. readers' \in [Cells -> SUBSET Workers]
    BY <1>3, CellTypes DEF TypeOK, Unlock
  <2> QED BY <2>1, <2>2
<1> QED BY <1>1, <1>2, <1>3

LEMMA TypeInit == Init => TypeOK
BY Defaults, EngineAssumption DEF Init, TypeOK, Pc, FreePc, Slots, Cells

\* Choosing a slot of a scan.
LEMMA ChooseTypes ==
  ASSUME TypeOK, NEW w \in Workers, NEW S \in SUBSET Slots, Choose(w, S)
  PROVE  /\ slot' \in [Workers -> Slots]
         /\ mutex' \in Workers \cup {Nobody}
         /\ reply' \in [Workers -> Reply]
         /\ pc' \in [Workers -> Pc]
<1>1. CASE S = {}
  BY <1>1, AnswerType, Defaults DEF TypeOK, Choose
<1>2. CASE S # {}
  <2>1. First(S) \in Slots
    <3>1. S \in SUBSET Nat
      BY EngineAssumption DEF Slots
    <3> QED BY <1>2, <3>1, FirstIsChosen
  <2> QED BY <1>2, <2>1 DEF TypeOK, Choose, Goto, Pc
<1> QED BY <1>1, <1>2

LEMMA GrantedTypes ==
  ASSUME TypeOK, NEW w \in Workers, NEW p \in WritePc \cup ReadPc, Granted(w, p)
  PROVE  /\ slot' \in [Workers -> Slots]
         /\ mutex' \in Workers \cup {Nobody}
         /\ reply' \in [Workers -> Reply]
         /\ pc' \in [Workers -> Pc]
         /\ writer' \in [Cells -> Workers \cup {Nobody}]
         /\ readers' \in [Cells -> SUBSET Workers]
<1>1. CASE index[Cell(w)].is_deleted
  <2>1. CASE Asks(w, {"find", "find_and_update"})
    BY <1>1, <2>1, LiveSlots, ChooseTypes DEF Granted, TypeOK
  <2>2. CASE ~Asks(w, {"find", "find_and_update"})
    BY <1>1, <2>2, ChooseTypes DEF Granted, TypeOK
  <2> QED BY <2>1, <2>2
<1>2. CASE ~index[Cell(w)].is_deleted
  BY <1>2, LockTypes DEF Granted, TypeOK, Goto, Pc
<1> QED BY <1>1, <1>2

LEMMA TypeStep == TypeOK /\ [Next]_vars => TypeOK'
<1> SUFFICES ASSUME TypeOK, [Next]_vars PROVE TypeOK'
  OBVIOUS
<1> USE CellTypes, RequestTypes, Defaults
<1>1. CASE UNCHANGED vars
  BY <1>1 DEF vars, TypeOK
<1>2. ASSUME NEW w \in Workers, Receive(w) PROVE TypeOK'
  BY <1>2 DEF Receive, TypeOK, Goto, Pc, FreePc, files, locks
<1>3. ASSUME NEW w \in Workers, Send(w) PROVE TypeOK'
  BY <1>3, EngineAssumption DEF Send, TypeOK, Goto, Pc, FreePc, files, locks
<1>4. ASSUME NEW w \in Workers, InsertFull(w) PROVE TypeOK'
  BY <1>4, AnswerType DEF InsertFull, TypeOK, files, locks
<1>5. ASSUME NEW w \in Workers, InsertTakeSlot(w) PROVE TypeOK'
  <2>1. num[req[w].type] \in Slots /\ <<req[w].type, num[req[w].type]>> \in Cells
    BY <1>5, EngineAssumption DEF InsertTakeSlot, TypeOK, Slots, Cells
  <2>2. num' \in [DbTypes -> 0 .. MaxRecords]
    BY <1>5, EngineAssumption DEF InsertTakeSlot, TypeOK
  <2>3. index' \in [Cells -> IndexEntry]
    BY <1>5, <2>1 DEF InsertTakeSlot, TypeOK, IndexEntry
  <2>4. slot' \in [Workers -> Slots] /\ pc' \in [Workers -> Pc]
    BY <1>5, <2>1 DEF InsertTakeSlot, TypeOK, Goto, Pc, FreePc
  <2> QED BY <1>5, <2>2, <2>3, <2>4 DEF InsertTakeSlot, TypeOK, files, locks
<1>6. ASSUME NEW w \in Workers, InsertLock(w) PROVE TypeOK'
  BY <1>6, LockTypes DEF InsertLock, TypeOK, Goto, Pc, WritePc, files, locks
<1>7. ASSUME NEW w \in Workers, InsertWrite(w) PROVE TypeOK'
  <2>1. [req[w].rec EXCEPT !.id = slot[w]] \in Record
    BY DEF Record
  <2> QED BY <1>7, <2>1 DEF InsertWrite, TypeOK, Goto, Pc, WritePc, locks
<1>8. ASSUME NEW w \in Workers, InsertPublish(w) PROVE TypeOK'
  BY <1>8 DEF InsertPublish, TypeOK, Goto, Pc, WritePc, IndexEntry, files, locks
<1>9. ASSUME NEW w \in Workers, InsertPersist(w) PROVE TypeOK'
  BY <1>9, LockTypes, AnswerType DEF InsertPersist, TypeOK
<1>10. ASSUME NEW w \in Workers, Lookup(w) PROVE TypeOK'
  <2> DEFINE S == {i \in Live(req[w].type, 0, num[req[w].type]) :
                     index[<<req[w].type, i>>].key = req[w].key}
  <2>1. S \in SUBSET Slots /\ Choose(w, S)
    BY <1>10, LiveSlots DEF Lookup
  <2> HIDE DEF S
  <2> QED BY <1>10, <2>1, ChooseTypes DEF Lookup, TypeOK, files
<1>11. ASSUME NEW w \in Workers, ScanStart(w) PROVE TypeOK'
  <2>1. Live(req[w].type, 0, num[req[w].type]) \in SUBSET Slots
    BY LiveSlots
  <2> QED BY <1>11, <2>1, ChooseTypes DEF ScanStart, TypeOK, files
<1>12. ASSUME NEW w \in Workers, Rescan(w) PROVE TypeOK'
  <2>1. Live(req[w].type, slot[w] + 1, limit[w]) \in SUBSET Slots
    BY LiveSlots
  <2> QED BY <1>12, <2>1, ChooseTypes DEF Rescan, TypeOK, files
<1>13. ASSUME NEW w \in Workers, UpdateLock(w) PROVE TypeOK'
  BY <1>13, GrantedTypes DEF UpdateLock, TypeOK, WritePc, files
<1>14. ASSUME NEW w \in Workers, DeleteLock(w) PROVE TypeOK'
  <2>1. index' \in [Cells -> IndexEntry]
    BY <1>14 DEF DeleteLock, TypeOK, IndexEntry
  <2> QED BY <1>14, <2>1, GrantedTypes DEF DeleteLock, TypeOK, WritePc, files
<1>15. ASSUME NEW w \in Workers, ReadLock(w) PROVE TypeOK'
  BY <1>15, GrantedTypes DEF ReadLock, TypeOK, ReadPc, files
<1>16. ASSUME NEW w \in Workers, FindLock(w) PROVE TypeOK'
  BY <1>16, GrantedTypes DEF FindLock, TypeOK, ReadPc, files
<1>17. ASSUME NEW w \in Workers, FindAndUpdateLock(w) PROVE TypeOK'
  BY <1>17, GrantedTypes DEF FindAndUpdateLock, TypeOK, WritePc, files
<1>18. ASSUME NEW w \in Workers, UpdateWrite(w) PROVE TypeOK'
  BY <1>18, LockTypes, AnswerType, PlaceType DEF UpdateWrite, TypeOK
<1>19. ASSUME NEW w \in Workers, DeletePersist(w) PROVE TypeOK'
  BY <1>19, LockTypes, AnswerType DEF DeletePersist, TypeOK
<1>20. ASSUME NEW w \in Workers, ReadRecord(w) PROVE TypeOK'
  <2>1. Stored(Place(w)) \in Record
    BY PlaceType, StoredType
  <2> QED BY <1>20, <2>1, LockTypes, AnswerType DEF ReadRecord, TypeOK, files
<1>21. ASSUME NEW w \in Workers, FindRead(w) PROVE TypeOK'
  <2>1. Stored(Place(w)) \in Record
    BY PlaceType, StoredType
  <2>2. reply' \in [Workers -> Reply] /\ pc' \in [Workers -> Pc]
    BY <1>21, <2>1, AnswerType DEF FindRead, TypeOK, Goto, Pc, FreePc
  <2> QED BY <1>21, <2>2, LockTypes DEF FindRead, TypeOK, files
<1>22. ASSUME NEW w \in Workers, ClaimRead(w) PROVE TypeOK'
  <2>1. writer' \in [Cells -> Workers \cup {Nobody}] /\ readers' \in [Cells -> SUBSET Workers]
    BY <1>22, LockTypes DEF ClaimRead, TypeOK
  <2>2. pc' \in [Workers -> Pc]
    BY <1>22 DEF ClaimRead, TypeOK, Goto, Pc, FreePc, WritePc
  <2> QED BY <1>22, <2>1, <2>2 DEF ClaimRead, TypeOK, files
<1>23. ASSUME NEW w \in Workers, ClaimWrite(w) PROVE TypeOK'
  BY <1>23, LockTypes, AnswerType, PlaceType DEF ClaimWrite, TypeOK
<1>24. ASSUME NEW w \in Workers, IOFail(w) PROVE TypeOK'
  BY <1>24, LockTypes, AnswerType DEF IOFail, TypeOK, files
<1> QED BY <1>1, <1>2, <1>3, <1>4, <1>5, <1>6, <1>7, <1>8, <1>9, <1>10, <1>11, <1>12, <1>13,
           <1>14, <1>15, <1>16, <1>17, <1>18, <1>19, <1>20, <1>21, <1>22, <1>23, <1>24
        DEF Next, MutexStep, OwnStep

\* Type correctness of the engine (DB_engine.c and DB_File_IO_Handler.c): indexes,
\* counters, lock owners and program points stay in range for every instance.
THEOREM TypeCorrect == Spec => []TypeOK
BY TypeInit, TypeStep, PTL DEF Spec

(***************************************************************************)
(* Locks.  Each lemma is one way in which steps move a worker between      *)
(* program points; the steps are instances of them.                        *)
(***************************************************************************)
LEMMA PcKinds ==
  /\ WritePc \cap ReadPc = {} /\ WritePc \cap FreePc = {} /\ ReadPc \cap FreePc = {}
  /\ "acquire" \notin WritePc \cup ReadPc \cup FreePc
  /\ {"idle", "start", "insert_lock", "rescan", "done"} = FreePc
BY DEF WritePc, ReadPc, FreePc

\* A worker that holds no lock, before and after.
LEMMA FreeStep ==
  ASSUME TypeOK, LockDiscipline, NEW w \in Workers, NEW p \in FreePc,
         pc[w] \in FreePc, Goto(w, p), UNCHANGED locks,
         \A v \in Workers \ {w} : Cell(v)' = Cell(v)
  PROVE  LockDiscipline'
BY PcKinds DEF TypeOK, LockDiscipline, Goto, locks

\* A worker that keeps the write lock of its slot.
LEMMA HoldStep ==
  ASSUME TypeOK, LockDiscipline, NEW w \in Workers, NEW p \in WritePc,
         pc[w] \in WritePc, Goto(w, p), UNCHANGED <<locks, req, slot>>
  PROVE  LockDiscipline'
BY PcKinds DEF TypeOK, LockDiscipline, Goto, locks, Cell

\* A worker that unlocks its slot.
LEMMA UnlockStep ==
  ASSUME TypeOK, LockDiscipline, NEW w \in Workers, NEW p \in FreePc,
         pc[w] \in WritePc \cup ReadPc, Goto(w, p), Unlock(w), UNCHANGED <<mutex, req, slot>>
  PROVE  LockDiscipline'
<1>1. \A v \in Workers : Cell(v)' = Cell(v) /\ Cell(v) \in Cells
  BY CellTypes DEF Cell
<1>2. \A v \in Workers : pc'[v] = IF v = w THEN p ELSE pc[v]
  BY DEF Goto, TypeOK
<1>3. \A c \in Cells : writer'[c] = IF c = Cell(w) /\ writer[c] = w THEN Nobody ELSE writer[c]
  BY <1>1 DEF Unlock, TypeOK
<1>4. \A c \in Cells : readers'[c] = IF c = Cell(w) THEN readers[c] \ {w} ELSE readers[c]
  BY <1>1 DEF Unlock, TypeOK
<1>5. \A v \in Workers : mutex' = v <=> pc'[v] = "acquire"
  BY <1>2, PcKinds DEF LockDiscipline
<1>6. ASSUME NEW c \in Cells, NEW v \in Workers
      PROVE  writer'[c] = v <=> pc'[v] \in WritePc /\ Cell(v)' = c
  BY <1>1, <1>2, <1>3, PcKinds, EngineAssumption DEF LockDiscipline
<1>7. ASSUME NEW c \in Cells, NEW v \in Workers
      PROVE  v \in readers'[c] <=> pc'[v] \in ReadPc /\ Cell(v)' = c
  <2>1. v \in readers[c] <=> pc[v] \in ReadPc /\ Cell(v) = c
    BY DEF LockDiscipline
  <2>2. CASE v = w
    BY <1>1, <1>2, <1>4, <2>1, <2>2, PcKinds
  <2>3. CASE v # w
    BY <1>1, <1>2, <1>4, <2>1, <2>3
  <2> QED BY <2>2, <2>3
<1>8. ASSUME NEW c \in Cells, writer'[c] # Nobody PROVE readers'[c] = {}
  BY <1>3, <1>4, <1>8 DEF LockDiscipline
<1> QED BY <1>5, <1>6, <1>7, <1>8 DEF LockDiscipline

\* A worker that is granted its slot and lets the mutex go, if it had it.
LEMMA LockStep ==
  ASSUME TypeOK, LockDiscipline, NEW w \in Workers, NEW p \in WritePc \cup ReadPc,
         pc[w] \in FreePc \cup {"acquire"}, Goto(w, p),
         IF p \in ReadPc THEN LockRead(w) ELSE LockWrite(w),
         mutex' = IF mutex = w THEN Nobody ELSE mutex, UNCHANGED <<req, slot>>
  PROVE  LockDiscipline'
<1>1. \A v \in Workers : Cell(v)' = Cell(v) /\ Cell(v) \in Cells
  BY CellTypes DEF Cell
<1>2. \A v \in Workers : pc'[v] = IF v = w THEN p ELSE pc[v]
  BY DEF Goto, TypeOK
<1>3. writer[Cell(w)] = Nobody
  BY DEF LockRead, LockWrite
<1>4. \A c \in Cells : writer'[c] = IF c = Cell(w) /\ p \in WritePc THEN w ELSE writer[c]
  BY <1>1, PcKinds DEF LockRead, LockWrite, TypeOK
<1>5. \A c \in Cells : readers'[c] = IF c = Cell(w) /\ p \in ReadPc THEN readers[c] \cup {w}
                                     ELSE readers[c]
  BY <1>1, PcKinds DEF LockRead, LockWrite, TypeOK
<1>6. \A v \in Workers : mutex' = v <=> pc'[v] = "acquire"
  BY <1>2, PcKinds, EngineAssumption DEF LockDiscipline
<1>7. ASSUME NEW c \in Cells, NEW v \in Workers
      PROVE  writer'[c] = v <=> pc'[v] \in WritePc /\ Cell(v)' = c
  BY <1>1, <1>2, <1>3, <1>4, PcKinds, EngineAssumption DEF LockDiscipline
<1>8. ASSUME NEW c \in Cells, NEW v \in Workers
      PROVE  v \in readers'[c] <=> pc'[v] \in ReadPc /\ Cell(v)' = c
  <2>1. v \in readers[c] <=> pc[v] \in ReadPc /\ Cell(v) = c
    BY DEF LockDiscipline
  <2>2. CASE v = w
    <3>1. pc[w] \notin ReadPc
      BY PcKinds
    <3>2. p \in WritePc => p \notin ReadPc
      BY PcKinds
    <3> QED BY <1>1, <1>2, <1>5, <2>1, <2>2, <3>1, <3>2
  <2>3. CASE v # w
    BY <1>1, <1>2, <1>5, <2>1, <2>3
  <2> QED BY <2>2, <2>3
<1>9. ASSUME NEW c \in Cells, writer'[c] # Nobody PROVE readers'[c] = {}
  <2>1. CASE c = Cell(w)
    BY <1>3, <1>4, <1>5, <1>9, <2>1, PcKinds DEF LockDiscipline, LockRead, LockWrite
  <2>2. CASE c # Cell(w)
    BY <1>4, <1>5, <1>9, <2>2 DEF LockDiscipline
  <2> QED BY <2>1, <2>2
<1> QED BY <1>6, <1>7, <1>8, <1>9 DEF LockDiscipline

\* A worker that chooses a slot: it ends with the mutex, or without.
LEMMA ChooseStep ==
  ASSUME TypeOK, LockDiscipline, NEW w \in Workers, NEW S \in SUBSET Slots, Choose(w, S),
         pc[w] \in FreePc, mutex = Nobody, UNCHANGED <<writer, readers, req>>
  PROVE  LockDiscipline'
<1>1. /\ pc' = [pc EXCEPT ![w] = IF S = {} THEN "done" ELSE "acquire"]
      /\ mutex' = IF S = {} THEN Nobody ELSE w
  BY DEF Choose, Answer, Goto
<1>2. \A v \in Workers \ {w} : Cell(v)' = Cell(v)
  BY DEF Choose, Cell, TypeOK
<1> QED BY <1>1, <1>2, PcKinds, EngineAssumption DEF LockDiscipline, TypeOK

\* The owner of the mutex is the only worker that waits for a slot lock.
LEMMA OneWaits ==
  ASSUME LockDiscipline
  PROVE  /\ \A v, w \in Workers : pc[v] = "acquire" /\ pc[w] = "acquire" => v = w
         /\ mutex = Nobody => \A v \in Workers : pc[v] # "acquire"
         /\ \A v \in Workers : pc[v] = "acquire" => mutex = v
BY EngineAssumption DEF LockDiscipline

\* A slot that is granted is live, so the re-validation never leaves early.
LEMMA GrantedLive ==
  ASSUME LockTargetLive, NEW w \in Workers, NEW p, pc[w] = "acquire", Granted(w, p)
  PROVE  /\ IF p \in ReadPc THEN LockRead(w) ELSE LockWrite(w)
         /\ mutex' = Nobody
         /\ Goto(w, p)
         /\ UNCHANGED <<slot, reply>>
BY DEF LockTargetLive, Granted

LEMMA GrantedStep ==
  ASSUME TypeOK, LockDiscipline, LockTargetLive, NEW w \in Workers, NEW p \in WritePc \cup ReadPc,
         pc[w] = "acquire", Granted(w, p), UNCHANGED req
  PROVE  LockDiscipline'
BY GrantedLive, OneWaits, LockStep

\* The sets the scans choose from.
LEMMA LookupSlots ==
  ASSUME NEW w \in Workers
  PROVE  {i \in Live(req[w].type, 0, num[req[w].type]) :
             index[<<req[w].type, i>>].key = req[w].key} \in SUBSET Slots
BY LiveSlots

LEMMA LockDisciplineNext ==
  TypeOK /\ LockDiscipline /\ LockTargetLive /\ [Next]_vars => LockDiscipline'
<1> SUFFICES ASSUME TypeOK, LockDiscipline, LockTargetLive, [Next]_vars PROVE LockDiscipline'
  OBVIOUS
<1>1. CASE UNCHANGED vars
  BY <1>1 DEF vars, LockDiscipline, Cell
<1>2. ASSUME NEW w \in Workers, Receive(w) \/ Send(w) PROVE LockDiscipline'
  <2>1. \A v \in Workers \ {w} : Cell(v)' = Cell(v)
    BY <1>2 DEF Receive, Send, Cell, TypeOK
  <2> QED BY <1>2, <2>1, FreeStep DEF Receive, Send, At, FreePc
<1>3. ASSUME NEW w \in Workers, InsertFull(w) \/ InsertTakeSlot(w) PROVE LockDiscipline'
  <2>1. \A v \in Workers \ {w} : Cell(v)' = Cell(v)
    BY <1>3 DEF InsertFull, InsertTakeSlot, Cell, TypeOK
  <2> QED BY <1>3, <2>1, FreeStep DEF InsertFull, InsertTakeSlot, Answer, At, FreePc
<1>4. ASSUME NEW w \in Workers, InsertLock(w) PROVE LockDiscipline'
  <2>1. mutex # w
    BY <1>4 DEF LockDiscipline, InsertLock, At
  <2> QED BY <1>4, <2>1, LockStep, PcKinds DEF InsertLock, At, WritePc
<1>5. ASSUME NEW w \in Workers, InsertWrite(w) \/ InsertPublish(w) PROVE LockDiscipline'
  BY <1>5, HoldStep DEF InsertWrite, InsertPublish, At, WritePc, locks
<1>6. ASSUME NEW w \in Workers, InsertPersist(w) \/ UpdateWrite(w) \/ DeletePersist(w) \/ ClaimWrite(w)
      PROVE  LockDiscipline'
  BY <1>6, UnlockStep DEF InsertPersist, UpdateWrite, DeletePersist, ClaimWrite, At, Answer,
                         WritePc, FreePc
<1>7. ASSUME NEW w \in Workers, ReadRecord(w) \/ FindRead(w) PROVE LockDiscipline'
  BY <1>7, UnlockStep DEF ReadRecord, FindRead, At, Answer, ReadPc, FreePc
<1>8. ASSUME NEW w \in Workers, ClaimRead(w) PROVE LockDiscipline'
  <2>1. CASE Stored(Place(w)) \in req[w].match
    BY <1>8, <2>1, HoldStep DEF ClaimRead, At, WritePc, locks
  <2>2. CASE Stored(Place(w)) \notin req[w].match
    BY <1>8, <2>2, UnlockStep DEF ClaimRead, At, WritePc, FreePc
  <2> QED BY <2>1, <2>2
<1>9. ASSUME NEW w \in Workers, IOFail(w) PROVE LockDiscipline'
  BY <1>9, UnlockStep DEF IOFail, Answer, FreePc
<1>10. ASSUME NEW w \in Workers, Lookup(w) PROVE LockDiscipline'
  BY <1>10, LookupSlots, ChooseStep DEF Lookup, At, FreePc
<1>11. ASSUME NEW w \in Workers, ScanStart(w) \/ Rescan(w) PROVE LockDiscipline'
  BY <1>11, LiveSlots, ChooseStep DEF ScanStart, Rescan, At, FreePc
<1>12. ASSUME NEW w \in Workers, UpdateLock(w) \/ DeleteLock(w) \/ FindAndUpdateLock(w)
       PROVE  LockDiscipline'
  BY <1>12, GrantedStep DEF UpdateLock, DeleteLock, FindAndUpdateLock, At, WritePc
<1>13. ASSUME NEW w \in Workers, ReadLock(w) \/ FindLock(w) PROVE LockDiscipline'
  BY <1>13, GrantedStep DEF ReadLock, FindLock, At, ReadPc
<1> QED BY <1>1, <1>2, <1>3, <1>4, <1>5, <1>6, <1>7, <1>8, <1>9, <1>10, <1>11, <1>12, <1>13
        DEF Next, MutexStep, OwnStep

(***************************************************************************)
(* The index, the counters and the index file.                             *)
(***************************************************************************)
IndexInv == Counted /\ InsertUnseen /\ LockTargetLive
indexFile == <<num, index, idx>>

\* A worker that moves without touching the index, and keeps its slot if it is
\* still on it afterwards.
LEMMA QuietStep ==
  ASSUME TypeOK, IndexInv, NEW w \in Workers, NEW p, Goto(w, p), UNCHANGED indexFile,
         \A v \in Workers \ {w} : req'[v] = req[v] /\ slot'[v] = slot[v],
         p \in OnSlot => pc[w] \in OnSlot /\ req'[w] = req[w] /\ slot'[w] = slot[w],
         p \in Inserting => pc[w] \in Inserting,
         p \in OnRecord \cup {"acquire"} => pc[w] \in OnRecord \cup {"acquire"}
  PROVE  IndexInv'
<1>1. \A v \in Workers : pc'[v] = IF v = w THEN p ELSE pc[v]
  BY DEF Goto, TypeOK
<1>2. Inserting \subseteq OnSlot /\ OnRecord \cup {"acquire"} \subseteq OnSlot
  BY DEF Inserting, OnSlot, OnRecord, WritePc, ReadPc
<1>3. \A v \in Workers : pc'[v] \in OnSlot =>
        pc[v] \in OnSlot /\ req'[v] = req[v] /\ slot'[v] = slot[v] /\ Cell(v)' = Cell(v)
  BY <1>1 DEF Cell
<1>4. Counted'
  BY <1>3 DEF IndexInv, Counted, indexFile
<1>5. InsertUnseen'
  BY <1>1, <1>2, <1>3 DEF IndexInv, InsertUnseen, indexFile
<1>6. LockTargetLive'
  BY <1>1, <1>2, <1>3 DEF IndexInv, LockTargetLive, indexFile
<1> QED BY <1>4, <1>5, <1>6 DEF IndexInv

\* A worker that chooses a live slot while it owns the mutex.
LEMMA ChooseIndex ==
  ASSUME TypeOK, IndexInv, NEW w \in Workers, NEW S \in SUBSET Slots, Choose(w, S),
         \A i \in S : i < num[req[w].type] /\ ~index[<<req[w].type, i>>].is_deleted,
         UNCHANGED indexFile, UNCHANGED req
  PROVE  IndexInv'
<1>1. CASE S = {}
  BY <1>1, QuietStep DEF Choose, Answer, Inserting, OnSlot, OnRecord, WritePc, ReadPc
<1>2. CASE S # {}
  <2>1. First(S) \in S
    BY <1>2, FirstIsChosen, EngineAssumption DEF Slots
  <2>2. \A v \in Workers : /\ pc'[v] = IF v = w THEN "acquire" ELSE pc[v]
                           /\ slot'[v] = IF v = w THEN First(S) ELSE slot[v]
                           /\ req'[v] = req[v]
    BY <1>2 DEF Choose, Goto, TypeOK
  <2>3. \A v \in Workers : Cell(v)' = IF v = w THEN <<req[w].type, First(S)>> ELSE Cell(v)
    BY <2>2 DEF Cell
  <2>4. "acquire" \notin Inserting
    BY DEF Inserting
  <2>5. ~index[Cell(w)'].is_deleted
    BY <2>1, <2>3
  <2>6. Counted'
    BY <2>1, <2>2 DEF IndexInv, Counted, indexFile
  <2>7. InsertUnseen'
    BY <2>2, <2>3, <2>4, <2>5 DEF IndexInv, InsertUnseen, indexFile
  <2>8. LockTargetLive'
    BY <2>2, <2>3, <2>5 DEF IndexInv, LockTargetLive, indexFile
  <2> QED BY <2>6, <2>7, <2>8 DEF IndexInv
<1> QED BY <1>1, <1>2

\* db_insert counts a fresh slot: nobody works on it yet.
LEMMA TakeSlotIndex ==
  ASSUME TypeOK, LockDiscipline, IndexInv, NEW w \in Workers, InsertTakeSlot(w)
  PROVE  IndexInv'
<1> DEFINE t == req[w].type
           fresh == <<t, num[t]>>
<1>1. t \in DbTypes /\ num[t] \in Slots /\ fresh \in Cells /\ num[t] \in Nat
  BY CellTypes, EngineAssumption DEF InsertTakeSlot, TypeOK, Slots, Cells
<1>2. \A v \in Workers : /\ pc'[v] = IF v = w THEN "insert_lock" ELSE pc[v]
                         /\ slot'[v] = IF v = w THEN num[t] ELSE slot[v]
                         /\ req'[v] = req[v]
  BY DEF InsertTakeSlot, Goto, TypeOK
<1>3. \A v \in Workers : Cell(v)' = IF v = w THEN fresh ELSE Cell(v)
  BY <1>2 DEF Cell
<1>4. \A u \in DbTypes : num'[u] = IF u = t THEN num[t] + 1 ELSE num[u]
  BY DEF InsertTakeSlot, TypeOK
<1>5. \A c \in Cells : index'[c].is_deleted = IF c = fresh THEN TRUE ELSE index[c].is_deleted
  BY <1>1 DEF InsertTakeSlot, TypeOK, IndexEntry
<1>6. idx' = idx
  BY DEF InsertTakeSlot, files
<1>7. \A v \in Workers : v # w /\ pc[v] \in OnSlot => Cell(v) # fresh
  BY <1>1, CellTypes DEF IndexInv, Counted, TypeOK, Slots
<1>8. "insert_lock" \notin OnRecord \cup {"acquire"} /\ OnRecord \cup {"acquire"} \subseteq OnSlot
  BY DEF OnRecord, OnSlot, WritePc, ReadPc
<1>9. idx[fresh] = Unwritten
  BY <1>1 DEF IndexInv, Counted
<1>10. Inserting \subseteq OnSlot
  BY DEF Inserting, OnSlot, WritePc
<1>11. Counted'
  <2>1. ASSUME NEW v \in Workers, pc'[v] \in OnSlot PROVE slot'[v] < num'[req'[v].type]
    BY <1>1, <1>2, <1>4, <2>1, CellTypes DEF IndexInv, Counted, TypeOK, Slots
  <2>2. ASSUME NEW c \in Cells, c[2] >= num'[c[1]] PROVE index'[c].is_deleted /\ idx'[c] = Unwritten
    <3>1. c[1] \in DbTypes /\ c[2] \in Nat /\ num[c[1]] \in Nat
      BY EngineAssumption DEF Cells, Slots, TypeOK
    <3>2. c[2] >= num[c[1]]
      BY <1>4, <2>2, <3>1
    <3> QED BY <1>5, <1>6, <3>2 DEF IndexInv, Counted
  <2> QED BY <2>1, <2>2 DEF Counted
<1>12. InsertUnseen'
  <2> SUFFICES ASSUME NEW v \in Workers, pc'[v] \in Inserting
               PROVE  /\ index'[Cell(v)'].is_deleted
                      /\ idx'[Cell(v)'] = Unwritten
                      /\ \A u \in Workers \ {v} : pc'[u] \in OnSlot => Cell(u)' # Cell(v)'
    BY DEF InsertUnseen
  <2>1. CASE v = w
    BY <1>1, <1>2, <1>3, <1>5, <1>6, <1>7, <1>9, <2>1
  <2>2. CASE v # w
    <3>1. pc[v] \in Inserting /\ Cell(v)' = Cell(v) /\ Cell(v) \in Cells /\ Cell(v) # fresh
      BY <1>2, <1>3, <1>7, <1>10, <2>2, CellTypes
    <3>2. index[Cell(v)].is_deleted /\ idx[Cell(v)] = Unwritten
      BY <3>1 DEF IndexInv, InsertUnseen
    <3>3. \A u \in Workers \ {v} : pc'[u] \in OnSlot => Cell(u)' # Cell(v)
      BY <1>2, <1>3, <3>1 DEF IndexInv, InsertUnseen
    <3> QED BY <1>5, <1>6, <3>1, <3>2, <3>3
  <2> QED BY <2>1, <2>2
<1>13. LockTargetLive'
  <2> SUFFICES ASSUME NEW v \in Workers, pc'[v] \in OnRecord \cup {"acquire"}
               PROVE  ~index'[Cell(v)'].is_deleted
    BY DEF LockTargetLive
  <2>1. v # w /\ pc[v] \in OnRecord \cup {"acquire"}
    BY <1>2, <1>8
  <2>2. Cell(v)' = Cell(v) /\ Cell(v) \in Cells /\ Cell(v) # fresh
    BY <1>3, <1>7, <1>8, <2>1, CellTypes
  <2>3. ~index[Cell(v)].is_deleted
    BY <2>1 DEF IndexInv, LockTargetLive
  <2> QED BY <1>5, <2>2, <2>3
<1> QED BY <1>11, <1>12, <1>13 DEF IndexInv

\* db_insert publishes its entry: only its own slot becomes live.
LEMMA PublishIndex ==
  ASSUME TypeOK, IndexInv, NEW w \in Workers, InsertPublish(w)
  PROVE  IndexInv'
<1>1. \A v \in Workers : pc'[v] = IF v = w THEN "insert_persist" ELSE pc[v]
  BY DEF InsertPublish, Goto, TypeOK
<1>2. \A v \in Workers : Cell(v)' = Cell(v) /\ Cell(v) \in Cells
  BY CellTypes DEF InsertPublish, Cell
<1>3. \A c \in Cells : index'[c].is_deleted = IF c = Cell(w) THEN FALSE ELSE index[c].is_deleted
  BY <1>2 DEF InsertPublish, TypeOK
<1>4. num' = num /\ idx' = idx /\ slot' = slot /\ req' = req
  BY DEF InsertPublish, files
<1>5. pc[w] \in Inserting /\ pc[w] \in OnSlot /\ "insert_persist" \in OnRecord \ Inserting
  BY DEF InsertPublish, At, Inserting, OnSlot, WritePc, OnRecord
<1>6. Inserting \subseteq OnSlot
  BY DEF Inserting, OnSlot, WritePc
<1>7. Counted'
  <2>1. slot[w] < num[req[w].type] /\ Cell(w)[1] = req[w].type /\ Cell(w)[2] = slot[w]
    BY <1>5, CellTypes DEF IndexInv, Counted
  <2>2. slot[w] \in Nat /\ num[req[w].type] \in Nat
    BY CellTypes, EngineAssumption DEF TypeOK, Slots
  <2>3. ASSUME NEW c \in Cells, c[2] >= num[c[1]] PROVE index'[c].is_deleted /\ idx'[c] = Unwritten
    <3>1. num[Cell(w)[1]] = num[req[w].type] /\ Cell(w)[2] < num[Cell(w)[1]]
      BY <2>1
    <3>2. c # Cell(w) /\ c[2] >= num[c[1]]
      BY <1>4, <2>2, <2>3, <3>1, <2>1
    <3> QED BY <1>3, <1>4, <3>2 DEF IndexInv, Counted
  <2>4. \A v \in Workers : pc'[v] \in OnSlot => slot[v] < num[req[v].type]
    BY <1>1, <2>1 DEF IndexInv, Counted
  <2> QED BY <1>4, <2>3, <2>4 DEF Counted
<1>8. InsertUnseen'
  <2> SUFFICES ASSUME NEW v \in Workers, pc'[v] \in Inserting
               PROVE  /\ index'[Cell(v)'].is_deleted
                      /\ idx'[Cell(v)'] = Unwritten
                      /\ \A u \in Workers \ {v} : pc'[u] \in OnSlot => Cell(u)' # Cell(v)'
    BY DEF InsertUnseen
  <2>1. v # w /\ pc[v] \in Inserting
    BY <1>1, <1>5
  <2>2. Cell(v) # Cell(w)
    BY <1>5, <2>1 DEF IndexInv, InsertUnseen
  <2>3. index[Cell(v)].is_deleted /\ idx[Cell(v)] = Unwritten
    BY <2>1 DEF IndexInv, InsertUnseen
  <2>4. \A u \in Workers \ {v} : pc'[u] \in OnSlot => Cell(u)' # Cell(v)'
    BY <1>1, <1>2, <1>5, <2>1 DEF IndexInv, InsertUnseen
  <2> QED BY <1>2, <1>3, <1>4, <2>2, <2>3, <2>4
<1>9. LockTargetLive'
  BY <1>1, <1>2, <1>3 DEF IndexInv, LockTargetLive
<1> QED BY <1>7, <1>8, <1>9 DEF IndexInv

\* An index entry is written to its file by the owner of its slot.
LEMMA PersistIndex ==
  ASSUME TypeOK, IndexInv, NEW w \in Workers, InsertPersist(w) \/ DeletePersist(w)
  PROVE  IndexInv'
<1>1. pc' = [pc EXCEPT ![w] = "done"] /\ idx' = [idx EXCEPT ![Cell(w)] = index[Cell(w)]]
  BY DEF InsertPersist, DeletePersist, Answer, Goto
<1>2. \A v \in Workers : pc'[v] = IF v = w THEN "done" ELSE pc[v]
  BY <1>1 DEF TypeOK
<1>3. \A v \in Workers : Cell(v)' = Cell(v) /\ Cell(v) \in Cells
  BY CellTypes DEF InsertPersist, DeletePersist, Cell
<1>4. \A c \in Cells : c # Cell(w) => idx'[c] = idx[c]
  BY <1>1 DEF TypeOK
<1>5. num' = num /\ index' = index /\ slot' = slot /\ req' = req
  BY DEF InsertPersist, DeletePersist
<1>6. pc[w] \in OnSlot
  BY DEF InsertPersist, DeletePersist, At, OnSlot, WritePc
<1>7. "done" \notin OnSlot /\ Inserting \subseteq OnSlot /\ OnRecord \cup {"acquire"} \subseteq OnSlot
  BY DEF OnSlot, Inserting, OnRecord, WritePc, ReadPc
<1>8. Counted'
  <2>1. slot[w] < num[req[w].type] /\ Cell(w)[1] = req[w].type /\ Cell(w)[2] = slot[w]
    BY <1>6, CellTypes DEF IndexInv, Counted
  <2>2. slot[w] \in Nat /\ num[req[w].type] \in Nat
    BY CellTypes, EngineAssumption DEF TypeOK, Slots
  <2>3. \A c \in Cells : c[2] >= num[c[1]] => c # Cell(w)
    BY <2>1, <2>2
  <2> QED BY <1>2, <1>4, <1>5, <1>7, <2>3 DEF IndexInv, Counted
<1>9. InsertUnseen'
  BY <1>2, <1>3, <1>4, <1>5, <1>6, <1>7 DEF IndexInv, InsertUnseen
<1>10. LockTargetLive'
  BY <1>2, <1>3, <1>5, <1>7 DEF IndexInv, LockTargetLive
<1> QED BY <1>8, <1>9, <1>10 DEF IndexInv

\* Who is granted the write lock of a slot finds nobody on its record.
LEMMA GrantedAlone ==
  ASSUME TypeOK, LockDiscipline, NEW w \in Workers, pc[w] = "acquire", LockWrite(w)
  PROVE  \A v \in Workers : pc[v] \in OnRecord \cup {"acquire"} /\ Cell(v) = Cell(w) => v = w
<1> SUFFICES ASSUME NEW v \in Workers, pc[v] \in OnRecord \cup {"acquire"}, Cell(v) = Cell(w)
             PROVE  v = w
  OBVIOUS
<1>1. writer[Cell(w)] # v /\ v \notin readers[Cell(w)]
  BY EngineAssumption DEF LockWrite
<1>2. pc[v] \notin WritePc \cup ReadPc
  BY <1>1, CellTypes DEF LockDiscipline
<1>3. pc[v] = "acquire"
  BY <1>2 DEF OnRecord, WritePc, ReadPc
<1> QED BY <1>3, OneWaits

\* db_delete marks the entry: nobody else reads or writes its record.
LEMMA DeleteIndex ==
  ASSUME TypeOK, LockDiscipline, IndexInv, NEW w \in Workers, DeleteLock(w)
  PROVE  IndexInv'
<1>0. pc[w] = "acquire"
  BY DEF DeleteLock, At
<1>1. LockWrite(w) /\ Goto(w, "delete_persist") /\ slot' = slot /\ req' = req
  BY <1>0, GrantedLive DEF DeleteLock, IndexInv, ReadPc
<1>2. \A v \in Workers : pc'[v] = IF v = w THEN "delete_persist" ELSE pc[v]
  BY <1>1 DEF Goto, TypeOK
<1>3. \A v \in Workers : Cell(v)' = Cell(v) /\ Cell(v) \in Cells
  BY <1>1, CellTypes DEF Cell
<1>4. \A c \in Cells : index'[c].is_deleted = IF c = Cell(w) THEN TRUE ELSE index[c].is_deleted
  BY <1>3 DEF DeleteLock, TypeOK, IndexEntry
<1>5. num' = num /\ idx' = idx
  BY DEF DeleteLock, files
<1>6. pc[w] \in OnSlot /\ "delete_persist" \notin Inserting /\ "delete_persist" \notin OnRecord \cup {"acquire"}
  BY <1>0 DEF OnSlot, Inserting, OnRecord, ReadPc
<1>7. Inserting \subseteq OnSlot
  BY DEF OnSlot, Inserting, WritePc
<1>8. Counted'
  BY <1>1, <1>2, <1>4, <1>5, <1>6 DEF IndexInv, Counted
<1>9. InsertUnseen'
  <2> SUFFICES ASSUME NEW v \in Workers, pc'[v] \in Inserting
               PROVE  /\ index'[Cell(v)'].is_deleted
                      /\ idx'[Cell(v)'] = Unwritten
                      /\ \A u \in Workers \ {v} : pc'[u] \in OnSlot => Cell(u)' # Cell(v)'
    BY DEF InsertUnseen
  <2>1. v # w /\ pc[v] \in Inserting
    BY <1>2, <1>6
  <2>2. index[Cell(v)].is_deleted /\ idx[Cell(v)] = Unwritten
    BY <2>1 DEF IndexInv, InsertUnseen
  <2>3. \A u \in Workers \ {v} : pc'[u] \in OnSlot => Cell(u)' # Cell(v)'
    BY <1>2, <1>3, <1>6, <2>1 DEF IndexInv, InsertUnseen
  <2> QED BY <1>3, <1>4, <1>5, <2>2, <2>3
<1>10. LockTargetLive'
  BY <1>0, <1>1, <1>2, <1>3, <1>4, <1>6, GrantedAlone DEF IndexInv, LockTargetLive
<1> QED BY <1>8, <1>9, <1>10 DEF IndexInv

LEMMA IndexNext ==
  TypeOK /\ LockDiscipline /\ IndexInv /\ [Next]_vars => IndexInv'
<1> SUFFICES ASSUME TypeOK, LockDiscipline, IndexInv, [Next]_vars PROVE IndexInv'
  OBVIOUS
<1> USE DEF indexFile
<1>1. CASE UNCHANGED vars
  BY <1>1 DEF vars, IndexInv, Counted, InsertUnseen, LockTargetLive, Cell
<1>2. ASSUME NEW w \in Workers, Receive(w) \/ Send(w) \/ InsertFull(w) PROVE IndexInv'
  <2>1. PICK p \in {"start", "idle", "done"} : Goto(w, p)
    BY <1>2 DEF Receive, Send, InsertFull, Answer
  <2>2. UNCHANGED <<num, index, idx>>
    BY <1>2 DEF Receive, Send, InsertFull, files
  <2>3. \A v \in Workers \ {w} : req'[v] = req[v] /\ slot'[v] = slot[v]
    BY <1>2 DEF Receive, Send, InsertFull, TypeOK
  <2>4. p \notin OnSlot \cup Inserting \cup OnRecord \cup {"acquire"}
    BY DEF Inserting, OnSlot, OnRecord, WritePc, ReadPc
  <2> QED BY <2>1, <2>2, <2>3, <2>4, QuietStep
<1>3. ASSUME NEW w \in Workers, InsertLock(w) \/ InsertWrite(w) PROVE IndexInv'
  BY <1>3, QuietStep DEF InsertLock, InsertWrite, At, files,
     Inserting, OnSlot, OnRecord, WritePc, ReadPc
<1>4. ASSUME NEW w \in Workers, UpdateWrite(w) \/ ClaimWrite(w) \/ ReadRecord(w) \/ IOFail(w)
      PROVE  IndexInv'
  BY <1>4, QuietStep DEF UpdateWrite, ClaimWrite, ReadRecord, IOFail, Answer, files,
     Inserting, OnSlot, OnRecord, WritePc, ReadPc
<1>5. ASSUME NEW w \in Workers, FindRead(w) PROVE IndexInv'
  BY <1>5, QuietStep DEF FindRead, Answer, files, Inserting, OnSlot, OnRecord, WritePc, ReadPc
<1>6. ASSUME NEW w \in Workers, ClaimRead(w) PROVE IndexInv'
  BY <1>6, QuietStep DEF ClaimRead, At, files, Inserting, OnSlot, OnRecord, WritePc, ReadPc
<1>7. ASSUME NEW w \in Workers, UpdateLock(w) \/ FindAndUpdateLock(w) PROVE IndexInv'
  BY <1>7, GrantedLive, QuietStep DEF UpdateLock, FindAndUpdateLock, At, files, IndexInv,
     Inserting, OnSlot, OnRecord, WritePc, ReadPc
<1>8. ASSUME NEW w \in Workers, ReadLock(w) \/ FindLock(w) PROVE IndexInv'
  BY <1>8, GrantedLive, QuietStep DEF ReadLock, FindLock, At, files, IndexInv,
     Inserting, OnSlot, OnRecord, WritePc, ReadPc
<1>9. ASSUME NEW w \in Workers, Lookup(w) PROVE IndexInv'
  <2> DEFINE S == {i \in Live(req[w].type, 0, num[req[w].type]) :
                     index[<<req[w].type, i>>].key = req[w].key}
  <2>1. /\ S \in SUBSET Slots /\ Choose(w, S)
        /\ \A i \in S : i < num[req[w].type] /\ ~index[<<req[w].type, i>>].is_deleted
    BY <1>9, LiveSlots DEF Lookup
  <2>2. UNCHANGED <<num, index, idx>> /\ UNCHANGED req
    BY <1>9 DEF Lookup, files
  <2> HIDE DEF S
  <2> QED BY <2>1, <2>2, ChooseIndex
<1>10. ASSUME NEW w \in Workers, ScanStart(w) PROVE IndexInv'
  BY <1>10, LiveSlots, ChooseIndex DEF ScanStart, files
<1>12. ASSUME NEW w \in Workers, InsertTakeSlot(w) PROVE IndexInv'
  BY <1>12, TakeSlotIndex
<1>13. ASSUME NEW w \in Workers, InsertPublish(w) PROVE IndexInv'
  BY <1>13, PublishIndex
<1>14. ASSUME NEW w \in Workers, InsertPersist(w) \/ DeletePersist(w) PROVE IndexInv'
  BY <1>14, PersistIndex
<1>15. ASSUME NEW w \in Workers, DeleteLock(w) PROVE IndexInv'
  BY <1>15, DeleteIndex
<1>16. ASSUME NEW w \in Workers, Rescan(w) PROVE IndexInv'
  <2>1. Live(req[w].type, slot[w] + 1, limit[w]) \in SUBSET Slots
    BY LiveSlots
  <2>2. \A i \in Live(req[w].type, slot[w] + 1, limit[w]) :
           i < num[req[w].type] /\ ~index[<<req[w].type, i>>].is_deleted
    <3> SUFFICES ASSUME NEW i \in Live(req[w].type, slot[w] + 1, limit[w])
                 PROVE  i < num[req[w].type] /\ ~index[<<req[w].type, i>>].is_deleted
      OBVIOUS
    <3>1. i \in Slots /\ ~index[<<req[w].type, i>>].is_deleted
      BY LiveSlots
    <3>2. i \in Nat /\ num[req[w].type] \in Nat /\ <<req[w].type, i>> \in Cells
      BY <3>1, CellTypes, EngineAssumption DEF Slots, TypeOK, Cells
    <3>3. ~(<<req[w].type, i>>[2] >= num[<<req[w].type, i>>[1]])
      BY <3>1, <3>2 DEF IndexInv, Counted
    <3> QED BY <3>1, <3>2, <3>3
  <2> QED BY <1>16, <2>1, <2>2, ChooseIndex DEF Rescan, files
<1> QED BY <1>1, <1>2, <1>3, <1>4, <1>5, <1>6, <1>7, <1>8, <1>9, <1>10, <1>12, <1>13, <1>14,
           <1>15, <1>16
        DEF Next, MutexStep, OwnStep

LEMMA LockInvInit == Init => LockInv
<1> SUFFICES ASSUME Init PROVE LockInv
  OBVIOUS
<1>1. TypeOK
  BY TypeInit
<1>2. LockDiscipline
  BY EngineAssumption DEF Init, LockDiscipline, WritePc, ReadPc
<1>3. Counted /\ InsertUnseen /\ LockTargetLive
  BY DEF Init, Counted, InsertUnseen, LockTargetLive, Inserting, OnSlot, OnRecord, WritePc,
         ReadPc, NoEntry
<1> QED BY <1>1, <1>2, <1>3 DEF LockInv

LEMMA LockInvNext == LockInv /\ [Next]_vars => LockInv'
BY TypeStep, LockDisciplineNext, IndexNext DEF LockInv, IndexInv

\* The locks of DB_File_IO_Handler.c are held exactly where the code holds
\* them, an insert's slot is its own, and a slot on which an operation waits or
\* works is live.
THEOREM LocksCorrect == Spec => []LockInv
BY LockInvInit, LockInvNext, PTL DEF Spec

\* The two lock orders of DB_File_IO_Handler.c (slot then mutex in db_insert,
\* mutex then slot everywhere else) never close a cycle.
THEOREM NoDeadlockByLockOrder == Spec => []NoLockCycle
<1>1. LockInv => NoLockCycle
  BY DEF LockInv, InsertUnseen, NoLockCycle, Inserting, OnSlot
<1> QED BY <1>1, LocksCorrect, PTL

(***************************************************************************)
(* The records.                                                            *)
(***************************************************************************)
\* A worker on a record works at the place that belongs to its slot.
LEMMA PlaceIsCell ==
  ASSUME LockInv, IndexSound, NEW w \in Workers, pc[w] \in OnRecord \cup {"acquire"}
  PROVE  Place(w) = Cell(w)
BY CellTypes DEF LockInv, LockTargetLive, IndexSound, Place

\* Two workers on one slot, one of them with its write lock, are the same.
LEMMA WriterAlone ==
  ASSUME LockInv, NEW v \in Workers, NEW w \in Workers,
         pc[v] \in WritePc, pc[w] \in WritePc \cup ReadPc, Cell(v) = Cell(w)
  PROVE  v = w
<1>1. Cell(v) \in Cells /\ writer[Cell(v)] = v
  BY CellTypes DEF LockInv, LockDiscipline
<1>2. pc[w] \notin ReadPc
  BY <1>1, EngineAssumption DEF LockInv, LockDiscipline
<1> QED BY <1>1, <1>2 DEF LockInv, LockDiscipline

\* What a step does to the record files: nothing, or the write of one record at
\* the slot of a worker that holds its write lock and then answers or publishes.
LEMMA DataStep ==
  ASSUME LockInv, IndexSound, [Next]_vars
  PROVE  \/ data' = data
         \/ \E w \in Workers, r \in Record :
              /\ pc[w] \in RecordWrite
              /\ data' = [data EXCEPT ![Cell(w)] = r]
              /\ index' = index
              /\ pc' = [pc EXCEPT ![w] = IF pc[w] = "insert_write" THEN "publish" ELSE "done"]
<1>1. ASSUME NEW w \in Workers, InsertWrite(w)
      PROVE  \E r \in Record : data' = [data EXCEPT ![Cell(w)] = r]
  <2>1. [req[w].rec EXCEPT !.id = slot[w]] \in Record
    BY CellTypes, RequestTypes DEF LockInv, Record
  <2> QED BY <1>1, <2>1 DEF InsertWrite
<1>2. ASSUME NEW w \in Workers, UpdateWrite(w) \/ ClaimWrite(w)
      PROVE  \E r \in Record : data' = [data EXCEPT ![Cell(w)] = r]
  <2>1. req[w].rec \in Record
    BY CellTypes, RequestTypes DEF LockInv
  <2>2. Place(w) = Cell(w)
    BY <1>2, PlaceIsCell DEF UpdateWrite, ClaimWrite, At, OnRecord
  <2> QED BY <1>2, <2>1, <2>2 DEF UpdateWrite, ClaimWrite
<1>3. CASE \E w \in Workers : InsertWrite(w) \/ UpdateWrite(w) \/ ClaimWrite(w)
  BY <1>1, <1>2, <1>3 DEF InsertWrite, UpdateWrite, ClaimWrite, At, Answer, Goto, RecordWrite
<1>4. CASE ~\E w \in Workers : InsertWrite(w) \/ UpdateWrite(w) \/ ClaimWrite(w)
  <2>1. CASE UNCHANGED vars
    BY <2>1 DEF vars
  <2>2. ASSUME NEW w \in Workers, MutexStep(w) \/ Receive(w) \/ IOFail(w) \/ Send(w) PROVE data' = data
    BY <2>2 DEF MutexStep, InsertFull, InsertTakeSlot, InsertPublish, Lookup, ScanStart, Rescan,
       Receive, IOFail, Send, files
  <2>3. ASSUME NEW w \in Workers, OwnStep(w) PROVE data' = data
    BY <1>4, <2>3 DEF OwnStep, InsertLock, InsertPersist, UpdateLock, DeleteLock, ReadLock, FindLock,
       FindAndUpdateLock, DeletePersist, ReadRecord, FindRead, ClaimRead, files
  <2> QED BY <2>1, <2>2, <2>3 DEF Next
<1> QED BY <1>3, <1>4

\* What a step does to the index: nothing, the publication of a slot by its
\* insert, or a slot marked deleted.
LEMMA IndexStep ==
  ASSUME LockInv, [Next]_vars
  PROVE  \/ index' = index
         \/ \E w \in Workers :
              /\ pc[w] = "publish"
              /\ index' = [index EXCEPT ![Cell(w)] =
                             [key |-> slot[w], offset |-> slot[w], is_deleted |-> FALSE]]
         \/ \E c \in Cells :
              /\ index' = [index EXCEPT ![c].is_deleted = TRUE]
              /\ \A v \in Workers : pc'[v] \in OnRecord => Cell(v)' # c
<1>1. ASSUME NEW w \in Workers, InsertTakeSlot(w) \/ DeleteLock(w)
      PROVE  \E c \in Cells : index' = [index EXCEPT ![c].is_deleted = TRUE]
  <2>1. CASE InsertTakeSlot(w)
    <3>1. <<req[w].type, num[req[w].type]>> \in Cells
      BY <2>1, CellTypes, EngineAssumption DEF InsertTakeSlot, LockInv, TypeOK, Slots, Cells
    <3> QED BY <2>1, <3>1 DEF InsertTakeSlot
  <2>2. CASE DeleteLock(w)
    BY <2>2, CellTypes DEF DeleteLock, LockInv
  <2> QED BY <1>1, <2>1, <2>2
<1>2. ASSUME NEW c \in Cells, index' = [index EXCEPT ![c].is_deleted = TRUE]
      PROVE  \A v \in Workers : pc'[v] \in OnRecord => Cell(v)' # c
  <2>1. LockTargetLive' /\ TypeOK'
    BY LockInvNext DEF LockInv
  <2>2. index'[c].is_deleted
    BY <1>2 DEF LockInv, TypeOK, IndexEntry
  <2> QED BY <2>1, <2>2 DEF LockTargetLive
<1>3. CASE \E w \in Workers : InsertPublish(w)
  BY <1>3 DEF InsertPublish, At
<1>4. CASE \E w \in Workers : InsertTakeSlot(w) \/ DeleteLock(w)
  BY <1>1, <1>2, <1>4
<1>5. CASE ~\E w \in Workers : InsertPublish(w) \/ InsertTakeSlot(w) \/ DeleteLock(w)
  <2>1. CASE UNCHANGED vars
    BY <2>1 DEF vars
  <2>2. ASSUME NEW w \in Workers, MutexStep(w) \/ Receive(w) \/ IOFail(w) \/ Send(w) PROVE index' = index
    BY <1>5, <2>2 DEF MutexStep, InsertFull, Lookup, ScanStart, Rescan, Receive, IOFail, Send
  <2>3. ASSUME NEW w \in Workers, OwnStep(w) PROVE index' = index
    BY <1>5, <2>3 DEF OwnStep, InsertLock, InsertWrite, InsertPersist, UpdateLock, ReadLock, FindLock,
       FindAndUpdateLock, UpdateWrite, DeletePersist, ReadRecord, FindRead, ClaimRead, ClaimWrite
  <2> QED BY <2>1, <2>2, <2>3 DEF Next
<1> QED BY <1>3, <1>4, <1>5

\* Who stands at "publish" or "claim_write" after a step came there by it or
\* has not moved.
LEMMA Arrivals ==
  ASSUME LockInv, [Next]_vars, NEW v \in Workers
  PROVE  /\ pc'[v] = "publish" => InsertWrite(v) \/ (pc[v] = "publish" /\ Cell(v)' = Cell(v))
         /\ pc'[v] = "claim_write" =>
              \/ ClaimRead(v) /\ pc[v] = "claim_read" /\ Stored(Place(v)) \in req[v].match
              \/ pc[v] = "claim_write"
         /\ pc'[v] = "claim_write" => req'[v] = req[v] /\ Cell(v)' = Cell(v)
<1> USE DEF LockInv, TypeOK, Cell
<1>1. CASE UNCHANGED vars
  BY <1>1 DEF vars
<1>2. ASSUME NEW w \in Workers, Receive(w) \/ Send(w) \/ InsertFull(w) \/ InsertTakeSlot(w)
             \/ InsertLock(w) \/ InsertPublish(w) \/ InsertPersist(w)
      PROVE  /\ pc'[v] \in {"publish", "claim_write"} =>
                  pc[v] = pc'[v] /\ req'[v] = req[v] /\ slot'[v] = slot[v]
  BY <1>2 DEF Receive, Send, InsertFull, InsertTakeSlot, InsertLock, InsertPublish, InsertPersist,
     Goto, Answer, At
<1>3. ASSUME NEW w \in Workers, UpdateWrite(w) \/ DeletePersist(w) \/ ReadRecord(w) \/ FindRead(w)
             \/ ClaimWrite(w) \/ IOFail(w)
      PROVE  /\ pc'[v] \in {"publish", "claim_write"} =>
                  pc[v] = pc'[v] /\ req'[v] = req[v] /\ slot'[v] = slot[v]
  BY <1>3 DEF UpdateWrite, DeletePersist, ReadRecord, FindRead, ClaimWrite, IOFail, Goto, Answer, At
<1>4. ASSUME NEW w \in Workers, Lookup(w) \/ ScanStart(w) \/ Rescan(w)
      PROVE  /\ pc'[v] \in {"publish", "claim_write"} =>
                  pc[v] = pc'[v] /\ req'[v] = req[v] /\ slot'[v] = slot[v]
  BY <1>4 DEF Lookup, ScanStart, Rescan, Choose, Goto, Answer, At
<1>5. ASSUME NEW w \in Workers, UpdateLock(w) \/ DeleteLock(w) \/ ReadLock(w) \/ FindLock(w)
             \/ FindAndUpdateLock(w)
      PROVE  /\ pc'[v] \in {"publish", "claim_write"} =>
                  pc[v] = pc'[v] /\ req'[v] = req[v] /\ slot'[v] = slot[v]
  BY <1>5, GrantedLive DEF UpdateLock, DeleteLock, ReadLock, FindLock, FindAndUpdateLock, Goto, At
<1>6. ASSUME NEW w \in Workers, InsertWrite(w)
      PROVE  /\ pc'[v] = "publish" => v = w \/ pc[v] = "publish"
             /\ pc'[v] = "claim_write" => pc[v] = "claim_write"
             /\ req'[v] = req[v] /\ slot'[v] = slot[v]
  BY <1>6 DEF InsertWrite, Goto
<1>7. ASSUME NEW w \in Workers, ClaimRead(w)
      PROVE  /\ pc'[v] = "publish" => pc[v] = "publish"
             /\ pc'[v] = "claim_write" =>
                  \/ v = w /\ Stored(Place(v)) \in req[v].match /\ pc[v] = "claim_read"
                  \/ pc[v] = "claim_write"
             /\ req'[v] = req[v] /\ slot'[v] = slot[v]
  BY <1>7 DEF ClaimRead, Goto, At
<1> QED BY <1>1, <1>2, <1>3, <1>4, <1>5, <1>6, <1>7 DEF Next, MutexStep, OwnStep, vars

LEMMA IndexSoundNext == LockInv /\ IndexSound /\ [Next]_vars => IndexSound'
<1> SUFFICES ASSUME LockInv, IndexSound, [Next]_vars PROVE IndexSound'
  OBVIOUS
<1>1. \A c \in Cells : data[c] # Unwritten => data'[c] # Unwritten
  BY DataStep, EngineAssumption, CellTypes DEF LockInv, TypeOK
<1>2. ASSUME NEW v \in Workers, pc'[v] = "publish" PROVE data'[Cell(v)'] # Unwritten
  <2>1. CASE pc[v] = "publish" /\ Cell(v)' = Cell(v)
    BY <1>1, <2>1, CellTypes DEF IndexSound, LockInv
  <2>2. CASE InsertWrite(v)
    <3>1. [req[v].rec EXCEPT !.id = slot[v]] \in Record
      BY CellTypes, RequestTypes DEF LockInv, Record
    <3>2. Cell(v)' = Cell(v) /\ Cell(v) \in Cells
      BY <2>2, CellTypes DEF InsertWrite, Cell, LockInv
    <3> QED BY <2>2, <3>1, <3>2, EngineAssumption DEF InsertWrite, LockInv, TypeOK
  <2> QED BY <1>2, <2>1, <2>2, Arrivals
<1>3. ASSUME NEW c \in Cells, ~index'[c].is_deleted
      PROVE  index'[c].key = c[2] /\ index'[c].offset = c[2] /\ data'[c] # Unwritten
  <2>1. CASE index' = index
    BY <1>1, <1>3, <2>1 DEF IndexSound
  <2>2. ASSUME NEW w \in Workers, pc[w] = "publish",
               index' = [index EXCEPT ![Cell(w)] =
                           [key |-> slot[w], offset |-> slot[w], is_deleted |-> FALSE]]
        PROVE  index'[c].key = c[2] /\ index'[c].offset = c[2] /\ data'[c] # Unwritten
    <3>1. Cell(w) \in Cells /\ Cell(w)[2] = slot[w] /\ data[Cell(w)] # Unwritten
      BY <2>2, CellTypes DEF LockInv, IndexSound
    <3> QED BY <1>1, <1>3, <2>2, <3>1 DEF IndexSound, LockInv, TypeOK
  <2>3. ASSUME NEW d \in Cells, index' = [index EXCEPT ![d].is_deleted = TRUE]
        PROVE  index'[c].key = c[2] /\ index'[c].offset = c[2] /\ data'[c] # Unwritten
    BY <1>1, <1>3, <2>3 DEF IndexSound, LockInv, TypeOK, IndexEntry
  <2> QED BY <2>1, <2>2, <2>3, IndexStep
<1> QED BY <1>2, <1>3 DEF IndexSound

LEMMA ClaimHoldsNext == EngineInv /\ [Next]_vars => ClaimHolds'
<1> SUFFICES ASSUME EngineInv, [Next]_vars, NEW v \in Workers, pc'[v] = "claim_write"
             PROVE  Stored(Place(v))' \in req'[v].match
  BY DEF ClaimHolds
<1> USE DEF EngineInv
<1>1. req'[v] = req[v] /\ Cell(v)' = Cell(v) /\ Cell(v) \in Cells
  BY Arrivals, CellTypes DEF LockInv
<1>2. pc[v] \in {"claim_read", "claim_write"} /\ Stored(Place(v)) \in req[v].match
  BY Arrivals DEF ClaimHolds
<1>3. Place(v) = Cell(v)
  BY <1>2, PlaceIsCell DEF OnRecord
<1>4. Place(v)' = Cell(v)
  <2>1. LockInv' /\ IndexSound'
    BY LockInvNext, IndexSoundNext
  <2>2. ~index'[Cell(v)].is_deleted
    BY <1>1, <2>1 DEF LockInv, LockTargetLive, OnRecord
  <2>3. index'[Cell(v)].offset = Cell(v)[2] /\ req'[v].type = Cell(v)[1]
    BY <1>1, <2>1, <2>2, CellTypes DEF IndexSound, LockInv
  <2> QED BY <1>1, <2>3, CellTypes DEF Place, LockInv
<1>5. data'[Cell(v)] = data[Cell(v)]
  <2>1. CASE data' = data
    BY <2>1
  <2>2. ASSUME NEW w \in Workers, NEW r \in Record, pc[w] \in RecordWrite,
               data' = [data EXCEPT ![Cell(w)] = r],
               pc' = [pc EXCEPT ![w] = IF pc[w] = "insert_write" THEN "publish" ELSE "done"]
        PROVE  data'[Cell(v)] = data[Cell(v)]
    <3>1. v # w
      BY <2>2 DEF LockInv, TypeOK
    <3>2. pc[v] \in WritePc /\ pc[w] \in WritePc
      BY <1>2, <2>2 DEF WritePc, RecordWrite
    <3>3. Cell(v) # Cell(w)
      BY <3>1, <3>2, WriterAlone
    <3> QED BY <1>1, <2>2, <3>3 DEF LockInv, TypeOK
  <2> QED BY <2>1, <2>2, DataStep
<1> QED BY <1>1, <1>2, <1>3, <1>4, <1>5 DEF Stored

LEMMA EngineInvInit == Init => EngineInv
BY LockInvInit DEF Init, EngineInv, IndexSound, ClaimHolds, NoEntry

LEMMA EngineInvNext == EngineInv /\ [Next]_vars => EngineInv'
BY LockInvNext, IndexSoundNext, ClaimHoldsNext DEF EngineInv

\* db_insert's "key == slot number" and the atomic claim of db_find_and_update,
\* with the invariants they rest on.
THEOREM EngineCorrect == Spec => []EngineInv
BY EngineInvInit, EngineInvNext, PTL DEF Spec

\* Between the match of db_find_and_update and its write no other worker changes
\* the record: two guests never both claim one table.
THEOREM ClaimIsAtomic == Spec => []ClaimHolds
BY EngineCorrect, PTL DEF EngineInv

\* No pwrite of DB_File_IO_Handler.c runs while another worker reads or writes
\* the same record, or the same index entry.
THEOREM NoTornRecord == Spec => []NoConflictingIO
<1>1. ASSUME EngineInv, NEW v \in Workers, NEW w \in Workers, v # w
      PROVE  /\ (pc[v] \in IndexIO /\ pc[w] \in IndexIO) => Cell(v) # Cell(w)
             /\ (pc[v] \in RecordWrite /\ pc[w] \in RecordIO) => Target(v) # Target(w)
  <2>1. /\ IndexIO \subseteq WritePc /\ RecordWrite \subseteq WritePc
        /\ RecordIO \subseteq WritePc \cup ReadPc
    BY DEF IndexIO, RecordIO, RecordWrite, WritePc
  <2>2. \A u \in Workers : pc[u] \in RecordIO => Target(u) = Cell(u)
    BY <1>1, PlaceIsCell DEF EngineInv, Target, RecordIO, RecordWrite, OnRecord
  <2>3. RecordWrite \subseteq RecordIO
    BY DEF RecordIO
  <2> QED BY <1>1, <2>1, <2>2, <2>3, WriterAlone DEF EngineInv
<1>2. EngineInv => NoConflictingIO
  BY <1>1 DEF NoConflictingIO
<1> QED BY <1>2, EngineCorrect, PTL

\* A slot whose entry reached the index file and is deleted stays deleted: no
\* operation of DB_File_IO_Handler.c brings a record back.
THEOREM DeletedStaysDeleted == Spec => NoResurrection
<1>1. ASSUME EngineInv, [Next]_vars, NEW c \in Used, index[c].is_deleted
      PROVE  index'[c].is_deleted
  <2>1. c \in Cells /\ idx[c] # Unwritten
    BY <1>1 DEF Used
  <2>2. \A w \in Workers : pc[w] = "publish" => Cell(w) # c
    BY <1>1, <2>1 DEF EngineInv, LockInv, InsertUnseen, Inserting
  <2>3. TypeOK
    BY <1>1 DEF EngineInv, LockInv
  <2> QED BY <1>1, <2>1, <2>2, <2>3, IndexStep DEF EngineInv, TypeOK, IndexEntry
<1>2. EngineInv /\ [Next]_vars => [\A c \in Used : index[c].is_deleted => index'[c].is_deleted]_vars
  BY <1>1
<1> QED BY <1>2, EngineCorrect, PTL DEF Spec, NoResurrection
(***************************************************************************)
(* The index file.                                                         *)
(***************************************************************************)
\* A cell agrees in memory and on disk, and where it does not a worker is about
\* to write its entry.
Agrees(c) == idx[c] = index[c] \/ (idx[c] = Unwritten /\ index[c].is_deleted)
AgreesOrPending ==
  ~IOFaults => \A c \in Cells : Agrees(c) \/ \E w \in Workers : pc[w] \in IndexIO /\ Cell(w) = c

\* What a step does to the index file and to the workers about to write to it.
LEMMA IdxStep ==
  ASSUME LockInv, [Next]_vars, ~IOFaults
  PROVE  /\ \/ idx' = idx
            \/ \E w \in Workers : /\ pc[w] \in IndexIO /\ index' = index
                                  /\ idx' = [idx EXCEPT ![Cell(w)] = index[Cell(w)]]
         /\ \A w \in Workers : pc[w] \in IndexIO =>
              \/ pc'[w] = pc[w] /\ Cell(w)' = Cell(w)
              \/ idx' = [idx EXCEPT ![Cell(w)] = index[Cell(w)]] /\ index' = index
<1> USE DEF LockInv, TypeOK, Cell, IndexIO
<1>1. CASE UNCHANGED vars
  BY <1>1 DEF vars
<1>2. ASSUME NEW w \in Workers, InsertPersist(w) \/ DeletePersist(w)
      PROVE  /\ pc[w] \in IndexIO /\ index' = index /\ UNCHANGED <<req, slot>>
             /\ idx' = [idx EXCEPT ![Cell(w)] = index[Cell(w)]]
             /\ pc' = [pc EXCEPT ![w] = "done"]
  BY <1>2 DEF InsertPersist, DeletePersist, Answer, Goto, At
<1>3. ASSUME NEW w \in Workers, NEW v \in Workers, pc[v] \in IndexIO,
             \/ Receive(w) \/ Send(w) \/ InsertFull(w) \/ InsertTakeSlot(w) \/ InsertLock(w)
             \/ InsertWrite(w) \/ InsertPublish(w)
      PROVE  pc'[v] = pc[v] /\ req'[v] = req[v] /\ slot'[v] = slot[v]
  BY <1>3 DEF Receive, Send, InsertFull, InsertTakeSlot, InsertLock, InsertWrite, InsertPublish,
     Goto, Answer, At
<1>4. ASSUME NEW w \in Workers, NEW v \in Workers, pc[v] \in IndexIO,
             Lookup(w) \/ ScanStart(w) \/ Rescan(w)
      PROVE  pc'[v] = pc[v] /\ req'[v] = req[v] /\ slot'[v] = slot[v]
  BY <1>4 DEF Lookup, ScanStart, Rescan, Choose, Goto, Answer, At
<1>5. ASSUME NEW w \in Workers, NEW v \in Workers, pc[v] \in IndexIO,
             UpdateLock(w) \/ DeleteLock(w) \/ ReadLock(w) \/ FindLock(w) \/ FindAndUpdateLock(w)
      PROVE  pc'[v] = pc[v] /\ req'[v] = req[v] /\ slot'[v] = slot[v]
  BY <1>5, GrantedLive DEF UpdateLock, DeleteLock, ReadLock, FindLock, FindAndUpdateLock, Goto, At
<1>6. ASSUME NEW w \in Workers, NEW v \in Workers, pc[v] \in IndexIO,
             UpdateWrite(w) \/ ReadRecord(w) \/ FindRead(w) \/ ClaimRead(w) \/ ClaimWrite(w)
      PROVE  pc'[v] = pc[v] /\ req'[v] = req[v] /\ slot'[v] = slot[v]
  BY <1>6 DEF UpdateWrite, ReadRecord, FindRead, ClaimRead, ClaimWrite, Goto, Answer, At
<1>7. ASSUME NEW w \in Workers, MutexStep(w) \/ Receive(w) \/ Send(w)
      PROVE  idx' = idx
  BY <1>7 DEF MutexStep, InsertFull, InsertTakeSlot, InsertPublish, Lookup, ScanStart, Rescan,
     Receive, Send, files
<1>8. ASSUME NEW w \in Workers,
              \/ InsertLock(w) \/ InsertWrite(w) \/ UpdateWrite(w) \/ ReadRecord(w) \/ FindRead(w)
              \/ ClaimRead(w) \/ ClaimWrite(w)
       PROVE  idx' = idx
  BY <1>8 DEF InsertLock, InsertWrite, UpdateWrite, ReadRecord, FindRead, ClaimRead, ClaimWrite, files
<1>9. ASSUME NEW w \in Workers,
              UpdateLock(w) \/ DeleteLock(w) \/ ReadLock(w) \/ FindLock(w) \/ FindAndUpdateLock(w)
       PROVE  idx' = idx
  BY <1>9 DEF UpdateLock, DeleteLock, ReadLock, FindLock, FindAndUpdateLock, files
<1>10. ASSUME NEW w \in Workers PROVE ~IOFail(w)
  BY DEF IOFail
<1>11. ASSUME NEW w \in Workers, InsertPersist(w) \/ DeletePersist(w)
      PROVE  /\ \E u \in Workers : /\ pc[u] \in IndexIO /\ index' = index
                                   /\ idx' = [idx EXCEPT ![Cell(u)] = index[Cell(u)]]
             /\ \A v \in Workers : pc[v] \in IndexIO =>
                  \/ pc'[v] = pc[v] /\ Cell(v)' = Cell(v)
                  \/ idx' = [idx EXCEPT ![Cell(v)] = index[Cell(v)]] /\ index' = index
  BY <1>2, <1>11
<1>12. ASSUME NEW w \in Workers, Receive(w) \/ MutexStep(w) \/ OwnStep(w) \/ Send(w),
              ~(InsertPersist(w) \/ DeletePersist(w))
       PROVE  /\ idx' = idx
              /\ \A v \in Workers : pc[v] \in IndexIO => pc'[v] = pc[v] /\ Cell(v)' = Cell(v)
  <2>1. idx' = idx
    BY <1>7, <1>12, <1>8, <1>9 DEF OwnStep
  <2>2. ASSUME NEW v \in Workers, pc[v] \in IndexIO
        PROVE  pc'[v] = pc[v] /\ req'[v] = req[v] /\ slot'[v] = slot[v]
    BY <1>3, <1>4, <1>5, <1>6, <1>12, <2>2 DEF MutexStep, OwnStep
  <2> QED BY <2>1, <2>2
<1> QED BY <1>1, <1>10, <1>11, <1>12 DEF Next

\* An entry in memory changes at the slot of a worker who is then about to write
\* it, or is marked deleted once more before anything is on disk.
LEMMA IndexChange ==
  ASSUME LockInv, [Next]_vars, index' # index
  PROVE  \E c \in Cells :
           /\ \A d \in Cells \ {c} : index'[d] = index[d]
           /\ \/ \E w \in Workers : pc'[w] \in IndexIO /\ Cell(w)' = c
              \/ idx[c] = Unwritten /\ index'[c].is_deleted
<1> USE DEF LockInv, TypeOK
<1>1. ASSUME NEW w \in Workers, InsertPublish(w) \/ DeleteLock(w)
      PROVE  /\ Cell(w) \in Cells /\ Cell(w)' = Cell(w) /\ pc'[w] \in IndexIO
             /\ \A d \in Cells \ {Cell(w)} : index'[d] = index[d]
  <2>1. CASE InsertPublish(w)
    BY <2>1, CellTypes DEF InsertPublish, Goto, IndexIO, Cell
  <2>2. CASE DeleteLock(w)
    BY <2>2, CellTypes, GrantedLive DEF DeleteLock, Goto, IndexIO, Cell, At
  <2> QED BY <1>1, <2>1, <2>2
<1>2. ASSUME NEW w \in Workers, InsertTakeSlot(w)
      PROVE  \E c \in Cells : /\ \A d \in Cells \ {c} : index'[d] = index[d]
                              /\ idx[c] = Unwritten /\ index'[c].is_deleted
  <2> DEFINE c == <<req[w].type, num[req[w].type]>>
  <2>1. c \in Cells /\ c[1] = req[w].type /\ c[2] = num[req[w].type]
    BY <1>2, CellTypes, EngineAssumption DEF InsertTakeSlot, Slots, Cells
  <2>2. idx[c] = Unwritten
    BY <2>1, CellTypes DEF Counted
  <2>3. index' = [index EXCEPT ![c].is_deleted = TRUE]
    BY <1>2 DEF InsertTakeSlot
  <2> HIDE DEF c
  <2>4. index'[c].is_deleted
    BY <2>1, <2>3 DEF IndexEntry
  <2> QED BY <2>1, <2>2, <2>3, <2>4
<1>3. \E w \in Workers : InsertPublish(w) \/ InsertTakeSlot(w) \/ DeleteLock(w)
  <2>1. ASSUME NEW w \in Workers, MutexStep(w) \/ Receive(w) \/ IOFail(w) \/ Send(w)
        PROVE  InsertPublish(w) \/ InsertTakeSlot(w)
    BY <2>1 DEF MutexStep, InsertFull, Lookup, ScanStart, Rescan, Receive, IOFail, Send
  <2>2. ASSUME NEW w \in Workers, OwnStep(w) PROVE DeleteLock(w)
    BY <2>2 DEF OwnStep, InsertLock, InsertWrite, InsertPersist, UpdateLock, ReadLock, FindLock,
       FindAndUpdateLock, UpdateWrite, DeletePersist, ReadRecord, FindRead, ClaimRead, ClaimWrite
  <2> QED BY <2>1, <2>2 DEF Next, vars
<1> QED BY <1>1, <1>2, <1>3

LEMMA AgreesNext == LockInv /\ AgreesOrPending /\ [Next]_vars => AgreesOrPending'
<1> SUFFICES ASSUME LockInv, AgreesOrPending, [Next]_vars, ~IOFaults, NEW c \in Cells
             PROVE  (Agrees(c) \/ \E w \in Workers : pc[w] \in IndexIO /\ Cell(w) = c)'
  BY DEF AgreesOrPending
<1>1. Agrees(c) \/ \E w \in Workers : pc[w] \in IndexIO /\ Cell(w) = c
  BY DEF AgreesOrPending
<1>2. CASE index'[c] = index[c]
  <2>1. CASE \E w \in Workers : pc[w] \in IndexIO /\ Cell(w) = c
    BY <1>2, <2>1, IdxStep DEF LockInv, TypeOK, Agrees
  <2>2. CASE Agrees(c)
    BY <1>2, <2>2, IdxStep DEF LockInv, TypeOK, Agrees
  <2> QED BY <1>1, <2>1, <2>2
<1>3. CASE index'[c] # index[c]
  <2>1. /\ \/ \E w \in Workers : pc'[w] \in IndexIO /\ Cell(w)' = c
           \/ idx[c] = Unwritten /\ index'[c].is_deleted
        /\ index' # index
    BY <1>3, IndexChange
  <2>2. idx' = idx
    BY <2>1, IdxStep
  <2> QED BY <2>1, <2>2 DEF Agrees
<1> QED BY <1>2, <1>3

\* As long as no write fails, what db_init would read back is what the index of
\* every slot says whose lock is free: no answered insert or delete is lost.
THEOREM IndexFileAgrees == Spec => []IndexDurable
<1>1. Init => AgreesOrPending
  BY DEF Init, AgreesOrPending, Agrees, NoEntry
<1>2. LockInv /\ AgreesOrPending => IndexDurable
  <2> SUFFICES ASSUME LockInv, AgreesOrPending, ~IOFaults, NEW c \in Cells, writer[c] = Nobody
               PROVE  Agrees(c)
    BY DEF IndexDurable, Agrees
  <2>1. ASSUME NEW w \in Workers, pc[w] \in IndexIO PROVE Cell(w) # c
    <3>1. pc[w] \in WritePc
      BY <2>1 DEF IndexIO, WritePc
    <3> QED BY <3>1, EngineAssumption DEF LockInv, LockDiscipline
  <2> QED BY <2>1 DEF AgreesOrPending
<1> QED BY <1>1, <1>2, AgreesNext, LocksCorrect, PTL DEF Spec

(***************************************************************************)
(* The refinement of RecordStore.                                          *)
(***************************************************************************)
\* Where a worker stands fits what it was asked, a slot found by its key is the
\* slot of that number, and an insert publishes the record it has written.
Fits(w) ==
  /\ pc[w] \in Inserting \cup {"insert_persist"} => Asks(w, {"insert"})
  /\ pc[w] = "acquire" => Asks(w, Ops \ {"insert"})
  /\ pc[w] = "update_write" => Asks(w, {"update"})
  /\ pc[w] = "delete_persist" => Asks(w, {"delete"})
  /\ pc[w] = "read_record" => Asks(w, {"read"})
  /\ pc[w] = "find_read" => Asks(w, {"find"})
  /\ pc[w] \in {"claim_read", "claim_write"} => Asks(w, {"find_and_update"})
  /\ pc[w] = "rescan" => Asks(w, {"find", "find_and_update"})
  /\ pc[w] \in {"acquire", "update_write", "read_record"} /\ Asks(w, {"update", "delete", "read"}) =>
       slot[w] = req[w].key
CallFits == \A w \in Workers : Fits(w)
RecordWritten ==
  \A w \in Workers : pc[w] = "publish" => data[Cell(w)] = [req[w].rec EXCEPT !.id = slot[w]]
StoreInv == EngineInv /\ CallFits /\ RecordWritten

StepOf(w) == Receive(w) \/ MutexStep(w) \/ OwnStep(w) \/ IOFail(w) \/ Send(w)
\* A step of one worker leaves the calls of the others as they are.
Alone(w) ==
  \A v \in Workers \ {w} :
    pc'[v] = pc[v] /\ req'[v] = req[v] /\ slot'[v] = slot[v] /\ limit'[v] = limit[v]

LEMMA OneMoves == ASSUME LockInv, NEW w \in Workers, StepOf(w) PROVE Alone(w)
<1> USE DEF LockInv, TypeOK, Alone
<1>1. CASE Receive(w) \/ Send(w) \/ InsertFull(w) \/ InsertTakeSlot(w) \/ InsertLock(w)
           \/ InsertWrite(w) \/ InsertPublish(w) \/ InsertPersist(w)
  BY <1>1 DEF Receive, Send, InsertFull, InsertTakeSlot, InsertLock, InsertWrite, InsertPublish,
     InsertPersist, Goto, Answer
<1>2. CASE Lookup(w) \/ ScanStart(w) \/ Rescan(w)
  BY <1>2 DEF Lookup, ScanStart, Rescan, Choose, Goto, Answer
<1>3. CASE UpdateLock(w) \/ DeleteLock(w) \/ ReadLock(w) \/ FindLock(w) \/ FindAndUpdateLock(w)
  BY <1>3, GrantedLive DEF UpdateLock, DeleteLock, ReadLock, FindLock, FindAndUpdateLock, Goto, At
<1>4. CASE UpdateWrite(w) \/ DeletePersist(w) \/ ReadRecord(w) \/ FindRead(w) \/ ClaimRead(w)
           \/ ClaimWrite(w) \/ IOFail(w)
  BY <1>4 DEF UpdateWrite, DeletePersist, ReadRecord, FindRead, ClaimRead, ClaimWrite, IOFail,
     Goto, Answer
<1> QED BY <1>1, <1>2, <1>3, <1>4 DEF StepOf, MutexStep, OwnStep

LEMMA FitsNext == ASSUME LockInv, IndexSound, NEW w \in Workers, Fits(w), StepOf(w) PROVE Fits(w)'
<1> USE DEF LockInv, TypeOK, Asks, At
<1>0. req[w] \in Requests /\ req[w].op \in Ops
  BY CellTypes, RequestTypes
<1>1. CASE Receive(w) \/ Send(w)
  BY <1>1 DEF Receive, Send, Goto, Fits, Inserting
<1>2. CASE InsertFull(w) \/ InsertTakeSlot(w) \/ InsertLock(w)
           \/ InsertWrite(w) \/ InsertPublish(w) \/ InsertPersist(w)
  BY <1>2 DEF InsertFull, InsertTakeSlot, InsertLock, InsertWrite, InsertPublish,
     InsertPersist, Goto, Answer, Fits, Inserting
<1>3. CASE Lookup(w)
  <2> DEFINE S == {i \in Live(req[w].type, 0, num[req[w].type]) :
                     index[<<req[w].type, i>>].key = req[w].key}
  <2>1. Choose(w, S) /\ S \in SUBSET Nat
    BY <1>3, LiveSlots DEF Lookup
  <2>2. CASE S = {}
    BY <1>3, <2>1, <2>2 DEF Lookup, Choose, Answer, Goto, Fits, Inserting
  <2>3. CASE S # {}
    <3>1. First(S) \in S
      BY <2>1, <2>3, FirstIsChosen
    <3>2. slot'[w] = First(S) /\ pc'[w] = "acquire" /\ req' = req
      BY <1>3, <2>1, <2>3 DEF Lookup, Choose, Goto
    <3>3. First(S) = req[w].key
      <4>1. PICK i \in Slots : i = First(S) /\ ~index[<<req[w].type, i>>].is_deleted
                               /\ index[<<req[w].type, i>>].key = req[w].key
        BY <3>1, LiveSlots
      <4>2. <<req[w].type, i>> \in Cells /\ <<req[w].type, i>>[2] = i
        BY CellTypes DEF Cells
      <4> QED BY <4>1, <4>2 DEF IndexSound
    <3> HIDE DEF S
    <3> QED BY <1>0, <1>3, <3>2, <3>3 DEF Fits, Inserting, Lookup, Ops
  <2> QED BY <2>2, <2>3
<1>4. CASE ScanStart(w) \/ Rescan(w)
  <2>1. req' = req /\ pc'[w] \in {"done", "acquire"}
    BY <1>4 DEF ScanStart, Rescan, Choose, Answer, Goto
  <2>2. req[w].op \in {"find", "find_and_update"}
    BY <1>4 DEF ScanStart, Rescan, Fits
  <2> QED BY <2>1, <2>2 DEF Fits, Inserting, Ops
<1>5. CASE UpdateLock(w) \/ DeleteLock(w) \/ ReadLock(w) \/ FindLock(w) \/ FindAndUpdateLock(w)
  BY <1>5, GrantedLive DEF UpdateLock, DeleteLock, ReadLock, FindLock, FindAndUpdateLock, Goto, Fits, Inserting
<1>6. CASE UpdateWrite(w) \/ DeletePersist(w) \/ ReadRecord(w) \/ FindRead(w) \/ ClaimRead(w)
           \/ ClaimWrite(w) \/ IOFail(w)
  BY <1>6 DEF UpdateWrite, DeletePersist, ReadRecord, FindRead, ClaimRead, ClaimWrite, IOFail,
     Goto, Answer, Fits, Inserting
<1> QED BY <1>1, <1>2, <1>3, <1>4, <1>5, <1>6 DEF StepOf, MutexStep, OwnStep

LEMMA StoreInvInit == Init => StoreInv
BY EngineInvInit DEF Init, StoreInv, CallFits, Fits, RecordWritten, Inserting

LEMMA StoreInvNext == StoreInv /\ [Next]_vars => StoreInv'
<1> SUFFICES ASSUME StoreInv, [Next]_vars PROVE StoreInv'
  OBVIOUS
<1> USE DEF StoreInv, EngineInv
<1>1. EngineInv'
  BY EngineInvNext
<1>2. CASE UNCHANGED vars
  BY <1>1, <1>2 DEF vars, CallFits, Fits, RecordWritten, Asks, Cell
<1>3. ASSUME NEW w \in Workers, StepOf(w) PROVE StoreInv'
  <2>1. Alone(w)
    BY <1>3, OneMoves
  <2>2. CallFits'
    <3> SUFFICES ASSUME NEW v \in Workers PROVE Fits(v)'
      BY DEF CallFits
    <3>1. CASE v = w
      BY <1>3, <3>1, FitsNext DEF CallFits
    <3>2. CASE v # w
      BY <2>1, <3>2 DEF Alone, CallFits, Fits, Asks
    <3> QED BY <3>1, <3>2
  <2>3. RecordWritten'
    <3> SUFFICES ASSUME NEW v \in Workers, pc'[v] = "publish"
                 PROVE  data'[Cell(v)'] = [req'[v].rec EXCEPT !.id = slot'[v]]
      BY DEF RecordWritten
    <3>1. CASE InsertWrite(v)
      BY <3>1, CellTypes DEF InsertWrite, LockInv, TypeOK, Cell
    <3>2. CASE ~InsertWrite(v)
      <4>1. pc[v] = "publish" /\ Cell(v)' = Cell(v) /\ Cell(v) \in Cells
        BY <3>2, Arrivals, CellTypes DEF LockInv
      <4>2. slot'[v] = slot[v] /\ req'[v] = req[v]
        <5>1. CASE v = w
          BY <1>3, <4>1, <5>1 DEF StepOf, MutexStep, OwnStep, Receive, Send, InsertFull, InsertTakeSlot, InsertLock,
             InsertWrite, InsertPublish, InsertPersist, Lookup, ScanStart, Rescan, UpdateLock, DeleteLock,
             ReadLock, FindLock, FindAndUpdateLock, UpdateWrite, DeletePersist, ReadRecord, FindRead,
             ClaimRead, ClaimWrite, IOFail, At, WritePc, ReadPc
        <5>2. CASE v # w
          BY <2>1, <5>2 DEF Alone
        <5> QED BY <5>1, <5>2
      <4>3. data'[Cell(v)] = data[Cell(v)]
        <5>1. CASE data' = data
          BY <5>1
        <5>2. ASSUME NEW u \in Workers, NEW r \in Record, pc[u] \in RecordWrite,
                     data' = [data EXCEPT ![Cell(u)] = r]
              PROVE  data'[Cell(v)] = data[Cell(v)]
          <6>1. pc[v] \in WritePc /\ pc[u] \in WritePc /\ u # v
            BY <4>1, <5>2 DEF WritePc, RecordWrite
          <6>2. Cell(v) # Cell(u)
            BY <6>1, WriterAlone
          <6> QED BY <4>1, <5>2, <6>2 DEF LockInv, TypeOK
        <5> QED BY <5>1, <5>2, DataStep
      <4> QED BY <4>1, <4>2, <4>3 DEF RecordWritten
    <3> QED BY <3>1, <3>2
  <2> QED BY <1>1, <2>2, <2>3
<1> QED BY <1>2, <1>3 DEF Next, StepOf

-----------------------------------------------------------------------------
\* What the clients see of a step: of the calls only that of the worker, and of
\* the records only what the step wrote.
LEMMA BarsOfOne ==
  ASSUME NEW w \in Workers, Alone(w)
  PROVE  /\ phaseBar' = [phaseBar EXCEPT ![w] = PhaseOf(w)']
         /\ cellBar' = [cellBar EXCEPT ![w] = GivenTo(w)']
         /\ seenBar' = [seenBar EXCEPT ![w] = ExaminedBy(w)']
<1>1. ASSUME NEW v \in Workers \ {w}
      PROVE  PhaseOf(v)' = PhaseOf(v) /\ GivenTo(v)' = GivenTo(v) /\ ExaminedBy(v)' = ExaminedBy(v)
  BY <1>1 DEF Alone, PhaseOf, GivenTo, Cell, ExaminedBy, Searching, Asks, Passed
<1>2. phaseBar' = [phaseBar EXCEPT ![w] = PhaseOf(w)']
  BY <1>1 DEF phaseBar
<1>3. cellBar' = [cellBar EXCEPT ![w] = GivenTo(w)']
  BY <1>1 DEF cellBar
<1>4. seenBar' = [seenBar EXCEPT ![w] = ExaminedBy(w)']
  BY <1>1 DEF seenBar
<1> QED BY <1>2, <1>3, <1>4

LEMMA BarsAt ==
  ASSUME NEW w \in Workers
  PROVE  phaseBar[w] = PhaseOf(w) /\ cellBar[w] = GivenTo(w) /\ seenBar[w] = ExaminedBy(w)
BY DEF phaseBar, cellBar, seenBar

\* A worker whose call looks the same before and after.
LEMMA CallStays ==
  ASSUME NEW w \in Workers, Alone(w), PhaseOf(w)' = PhaseOf(w), GivenTo(w)' = GivenTo(w)
  PROVE  /\ UNCHANGED <<phaseBar, cellBar>>
         /\ ExaminedBy(w)' = ExaminedBy(w) => seenBar' = seenBar
BY BarsOfOne DEF phaseBar, cellBar, seenBar

LEMMA StoreStays ==
  /\ index' = index /\ data' = data => storeBar' = storeBar
  /\ num' = num => spentBar' = spentBar
BY DEF storeBar, spentBar, Kept, Stored

\* A cell holds a record if its entry is live.
LEMMA CellHolds ==
  ASSUME StoreInv, NEW c \in Cells
  PROVE  /\ index[c].is_deleted => storeBar[c] = Absent
         /\ ~index[c].is_deleted => storeBar[c] = Stored(c) /\ storeBar[c] # Absent /\ c[2] < num[c[1]]
<1>1. storeBar[c] = Kept(c) /\ c = <<c[1], c[2]>> /\ c[1] \in DbTypes /\ c[2] \in Slots
  BY DEF storeBar, Cells
<1>2. Stored(c) \in Record
  BY StoredType DEF StoreInv, EngineInv, LockInv
<1>3. ~index[c].is_deleted => index[c].offset = c[2]
  BY DEF StoreInv, EngineInv, IndexSound
<1>4. ~index[c].is_deleted => c[2] < num[c[1]]
  <2>1. num[c[1]] \in Int /\ c[2] \in Int
    BY <1>1, EngineAssumption DEF StoreInv, EngineInv, LockInv, TypeOK, Slots
  <2> QED BY <2>1 DEF StoreInv, EngineInv, LockInv, Counted
<1> QED BY <1>1, <1>2, <1>3, <1>4, StoreAssumption DEF Kept

\* The worker answers.
LEMMA AnswerStore ==
  ASSUME StoreInv, NEW w \in Workers, Alone(w), NEW s, NEW k, NEW r, Answer(w, s, k, r)
  PROVE  Store!Reply(w, s, k, r)
<1>1. pc'[w] = "done"
  BY DEF Answer, Goto, StoreInv, EngineInv, LockInv, TypeOK
<1>2. PhaseOf(w)' = "answered" /\ GivenTo(w)' = NoCell
  BY <1>1 DEF PhaseOf, GivenTo, Inserting, IndexIO
<1>3. ~Searching(w)'
  BY <1>1 DEF Searching
<1>4. ExaminedBy(w)' = {}
  BY <1>3 DEF ExaminedBy
<1> QED BY <1>2, <1>4, BarsOfOne DEF Answer, Store!Reply, Store!Become, Store!Forget

\* Who works on a record is on its way to an answer.
LEMMA PhaseIs ==
  ASSUME StoreInv, NEW w \in Workers
  PROVE  /\ pc[w] \in Pc \ ({"idle", "done"} \cup IndexIO) => PhaseOf(w) = "busy"
         /\ pc[w] \in IndexIO => PhaseOf(w) = "settled"
         /\ pc[w] = "idle" => PhaseOf(w) = "idle"
         /\ pc[w] = "done" => PhaseOf(w) = "answered"
         /\ pc[w] \in Pc
BY DEF PhaseOf, IndexIO, StoreInv, EngineInv, LockInv, TypeOK

LEMMA TypeCellsAre ==
  ASSUME StoreInv, NEW w \in Workers
  PROVE  /\ Store!TypeCells(w) = {c \in Cells : c[1] = req[w].type}
         /\ Cell(w) \in Store!TypeCells(w) /\ Cell(w)[2] = slot[w] /\ Cell(w)[1] = req[w].type
BY CellTypes DEF Store!TypeCells, Store!Cells, Cells, StoreInv, EngineInv, LockInv

-----------------------------------------------------------------------------
(* The steps, one after the other.                                         *)
LEMMA QuietSteps ==
  ASSUME StoreInv, NEW w \in Workers, Alone(w)
  PROVE  /\ Receive(w) => Store!Call(w)
         /\ Send(w) => Store!Return(w)
<1> USE DEF StoreInv, EngineInv, LockInv, TypeOK, At, Goto
<1>1. ASSUME Receive(w) PROVE Store!Call(w)
  <2>1. pc[w] = "idle" /\ pc'[w] = "start" /\ UNCHANGED <<reply, storeBar, spentBar>>
    BY <1>1, StoreStays DEF Receive, files
  <2>2. PhaseOf(w) = "idle" /\ PhaseOf(w)' = "busy" /\ GivenTo(w)' = GivenTo(w) /\ ExaminedBy(w)' = ExaminedBy(w)
    BY <2>1 DEF PhaseOf, GivenTo, ExaminedBy, Searching, Inserting, IndexIO
  <2>3. \E r \in Requests : req' = [req EXCEPT ![w] = r]
    BY <1>1 DEF Receive
  <2>4. phaseBar' = [phaseBar EXCEPT ![w] = "busy"] /\ UNCHANGED <<cellBar, seenBar>> /\ phaseBar[w] = "idle"
    BY <2>2, BarsOfOne, BarsAt DEF cellBar, seenBar
  <2> QED BY <2>1, <2>3, <2>4 DEF Store!Call, Store!Become
<1>2. ASSUME Send(w) PROVE Store!Return(w)
  <2>1. pc[w] = "done" /\ pc'[w] = "idle" /\ UNCHANGED <<storeBar, spentBar>>
    BY <1>2, StoreStays DEF Send, files
  <2>2. PhaseOf(w) = "answered" /\ PhaseOf(w)' = "idle" /\ GivenTo(w)' = GivenTo(w) /\ ExaminedBy(w)' = ExaminedBy(w)
    BY <2>1 DEF PhaseOf, GivenTo, ExaminedBy, Searching, Inserting, IndexIO
  <2>3. req' = [req EXCEPT ![w] = NoRequest] /\ reply' = [reply EXCEPT ![w] = NoReply]
    BY <1>2 DEF Send
  <2>4. phaseBar' = [phaseBar EXCEPT ![w] = "idle"] /\ UNCHANGED <<cellBar, seenBar>> /\ phaseBar[w] = "answered"
    BY <2>2, BarsOfOne, BarsAt DEF cellBar, seenBar
  <2> QED BY <2>1, <2>3, <2>4 DEF Store!Return, Store!Become
<1> QED BY <1>1, <1>2

LEMMA InsertSteps ==
  ASSUME StoreInv, NEW w \in Workers, Alone(w)
  PROVE  /\ InsertFull(w) => Store!Refuse(w)
         /\ InsertTakeSlot(w) => Store!Reserve(w)
         /\ InsertPublish(w) => Store!Insert(w)
         /\ InsertPersist(w) => Store!Acknowledge(w)
<1> USE DEF At, Asks, StoreInv, EngineInv, LockInv
<1>1. ASSUME InsertFull(w) PROVE Store!Refuse(w)
  <2>1. Store!Reply(w, "failure", -1, ZeroRecord) /\ UNCHANGED <<storeBar, spentBar, req>>
    BY <1>1, AnswerStore, StoreStays DEF InsertFull, files
  <2>2. \A c \in Cells : c[1] = req[w].type => c[2] < num[c[1]]
    <3>1. num[req[w].type] \in 0 .. MaxRecords /\ num[req[w].type] >= MaxRecords
      BY <1>1, CellTypes DEF InsertFull, TypeOK
    <3> QED BY <3>1, EngineAssumption DEF Cells, Slots
  <2>3. Store!TypeCells(w) \subseteq spentBar
    BY <2>2, TypeCellsAre DEF spentBar
  <2>4. phaseBar[w] = "busy" /\ req[w].op = "insert"
    BY <1>1, PhaseIs, BarsAt DEF InsertFull, Pc, FreePc, IndexIO
  <2> QED BY <2>1, <2>3, <2>4 DEF Store!Refuse, Store!Asked, NoReply
<1>2. ASSUME InsertTakeSlot(w) PROVE Store!Reserve(w)
  <2> DEFINE t == req[w].type
             d == <<t, num[t]>>
  <2>1. d \in Cells /\ d[1] = t /\ d[2] = num[t] /\ num[t] \in Slots /\ t \in DbTypes /\ d \notin spentBar
    <3>1. num[t] \in 0 .. MaxRecords /\ num[t] < MaxRecords /\ t \in DbTypes
      BY <1>2, CellTypes DEF InsertTakeSlot, TypeOK
    <3>2. num[t] \in Slots /\ num[t] \in Int
      BY <3>1, EngineAssumption DEF Slots
    <3> QED BY <3>1, <3>2 DEF Cells, spentBar
  <2>2. pc[w] = "start" /\ pc'[w] = "insert_lock" /\ slot'[w] = num[t] /\ req' = req /\ reply' = reply
    BY <1>2 DEF InsertTakeSlot, Goto, TypeOK
  <2>3. phaseBar' = phaseBar /\ seenBar' = seenBar
    <3>1. PhaseOf(w) = "busy" /\ PhaseOf(w)' = "busy" /\ ExaminedBy(w)' = ExaminedBy(w)
      BY <1>2, <2>2 DEF PhaseOf, ExaminedBy, Searching, IndexIO, InsertTakeSlot
    <3> QED BY <3>1, BarsOfOne DEF phaseBar, seenBar
  <2>4. cellBar' = [cellBar EXCEPT ![w] = d] /\ cellBar[w] = NoCell
    <3>1. GivenTo(w) = NoCell /\ GivenTo(w)' = d
      BY <2>2 DEF GivenTo, Inserting, Cell
    <3> QED BY <3>1, BarsOfOne, BarsAt
  <2>5. storeBar' = storeBar
    <3>1. index' = [index EXCEPT ![d].is_deleted = TRUE] /\ data' = data
      BY <1>2 DEF InsertTakeSlot, files
    <3>2. index[d].is_deleted
      <4>1. d[2] >= num[d[1]]
        BY <2>1, EngineAssumption DEF Slots
      <4> QED BY <2>1, <4>1 DEF Counted
    <3> HIDE DEF d
    <3>3. \A c \in Cells : index'[c] = index[c]
      BY <2>1, <3>1, <3>2 DEF TypeOK, IndexEntry
    <3>4. ASSUME NEW c \in Cells PROVE Kept(c)' = Kept(c)
      <4>1. index'[c] = index[c] /\ data' = data
        BY <3>1, <3>3
      <4> QED BY <4>1 DEF Kept, Stored, ZeroRecord
    <3> QED BY <3>4 DEF storeBar
  <2>6. spentBar' = spentBar \cup {d}
    <3>1. num' = [num EXCEPT ![t] = @ + 1]
      BY <1>2 DEF InsertTakeSlot
    <3>2. ASSUME NEW c \in Cells PROVE c[2] < num'[c[1]] <=> (c[2] < num[c[1]] \/ c = d)
      <4>1. c[1] \in DbTypes /\ c[2] \in Slots /\ c = <<c[1], c[2]>> /\ num[c[1]] \in Int /\ c[2] \in Int
        BY EngineAssumption DEF Cells, Slots, TypeOK
      <4>2. num'[c[1]] = IF c[1] = t THEN num[t] + 1 ELSE num[c[1]]
        BY <3>1, <4>1 DEF TypeOK
      <4>3. c = d <=> c[1] = t /\ c[2] = num[t]
        BY <4>1
      <4> HIDE DEF d, t
      <4> QED BY <4>1, <4>2, <4>3
    <3> HIDE DEF d
    <3> QED BY <2>1, <3>2 DEF spentBar
  <2>7. phaseBar[w] = "busy" /\ req[w].op = "insert"
    BY <1>2, <2>2, BarsAt DEF PhaseOf, IndexIO, InsertTakeSlot
  <2>8. d \in Store!TypeCells(w) \ spentBar
    BY <2>1, TypeCellsAre
  <2> HIDE DEF d, t
  <2> QED BY <2>2, <2>3, <2>4, <2>5, <2>6, <2>7, <2>8 DEF Store!Reserve, Store!Asked
<1>3. ASSUME InsertPublish(w) PROVE Store!Insert(w)
  <2>1. /\ pc[w] = "publish" /\ pc'[w] = "insert_persist" /\ data' = data /\ num' = num
        /\ UNCHANGED <<req, slot, reply>> /\ req[w].op = "insert"
    BY <1>3 DEF InsertPublish, Goto, TypeOK, CallFits, Fits, Inserting, files
  <2>2. Cell(w) \in Cells /\ Cell(w)[2] = slot[w] /\ Cell(w) # NoCell /\ Cell(w)' = Cell(w)
    BY <2>1, CellTypes, StoreAssumption DEF Cell
  <2>3. phaseBar' = [phaseBar EXCEPT ![w] = "settled"] /\ phaseBar[w] = "busy"
    BY <2>1, BarsOfOne, BarsAt DEF PhaseOf, IndexIO
  <2>4. cellBar' = cellBar /\ cellBar[w] = Cell(w)
    <3>1. GivenTo(w) = Cell(w) /\ GivenTo(w)' = Cell(w)
      BY <2>1, <2>2 DEF GivenTo, Inserting
    <3> QED BY <3>1, BarsOfOne, BarsAt DEF cellBar
  <2>5. seenBar' = seenBar
    <3>1. ExaminedBy(w)' = ExaminedBy(w)
      BY <2>1 DEF ExaminedBy, Searching
    <3> QED BY <3>1, BarsOfOne DEF seenBar
  <2>6. storeBar' = [storeBar EXCEPT ![Cell(w)] = [req[w].rec EXCEPT !.id = slot[w]]]
    <3> DEFINE e == [key |-> slot[w], offset |-> slot[w], is_deleted |-> FALSE]
    <3>1. index' = [index EXCEPT ![Cell(w)] = e]
      BY <1>3 DEF InsertPublish
    <3>2. index'[Cell(w)] = e /\ \A c \in Cells \ {Cell(w)} : index'[c] = index[c]
      BY <2>2, <3>1 DEF TypeOK
    <3>3. Kept(Cell(w))' = [req[w].rec EXCEPT !.id = slot[w]]
      <4>1. Cell(w) = <<Cell(w)[1], slot[w]>> /\ data[Cell(w)] \in Record \cup {Unwritten}
        BY <2>2 DEF Cells, TypeOK
      <4>2. data[Cell(w)] = [req[w].rec EXCEPT !.id = slot[w]]
        BY <2>1 DEF RecordWritten
      <4>3. data[Cell(w)] # Unwritten
        BY <2>1 DEF IndexSound
      <4> QED BY <2>1, <2>2, <3>2, <4>1, <4>2, <4>3 DEF Kept, Stored
    <3>4. \A c \in Cells \ {Cell(w)} : Kept(c)' = Kept(c)
      BY <2>1, <3>2 DEF Kept, Stored
    <3> QED BY <2>2, <3>3, <3>4 DEF storeBar
  <2> QED BY <2>1, <2>2, <2>3, <2>4, <2>5, <2>6, StoreStays DEF Store!Insert, Store!Asked, Store!Become
<1>4. ASSUME InsertPersist(w) PROVE Store!Acknowledge(w)
  <2>1. Store!Reply(w, "success", slot[w], ZeroRecord) /\ UNCHANGED <<storeBar, spentBar, req>>
    BY <1>4, AnswerStore, StoreStays DEF InsertPersist
  <2>2. phaseBar[w] = "settled" /\ cellBar[w] = Cell(w)
    BY <1>4, BarsAt DEF InsertPersist, PhaseOf, GivenTo, IndexIO
  <2>3. Cell(w) # NoCell /\ Cell(w)[2] = slot[w]
    BY CellTypes, StoreAssumption
  <2> QED BY <2>1, <2>2, <2>3 DEF Store!Acknowledge, NoReply
<1> QED BY <1>1, <1>2, <1>3, <1>4

\* Steps on a slot that no client sees.
LEMMA HiddenSteps ==
  ASSUME StoreInv, NEW w \in Workers, Alone(w),
         \/ InsertLock(w) \/ InsertWrite(w)
         \/ UpdateLock(w) \/ ReadLock(w) \/ FindLock(w) \/ FindAndUpdateLock(w)
         \/ (ClaimRead(w) /\ Stored(Place(w)) \in req[w].match)
  PROVE  UNCHANGED <<storeBar, spentBar, phaseBar, req, cellBar, seenBar, reply>>
<1> USE DEF At, Asks, StoreInv, EngineInv, LockInv
<1>1. UNCHANGED <<num, index, req, slot, limit, reply>> /\ (data' = data \/ InsertWrite(w))
  BY GrantedLive DEF InsertLock, InsertWrite, UpdateLock, ReadLock, FindLock, FindAndUpdateLock, ClaimRead, files
<1>2. /\ pc[w] \in {"insert_lock", "insert_write"} /\ pc'[w] \in {"insert_write", "publish"}
      \/ /\ pc[w] \in {"acquire", "claim_read"}
         /\ pc'[w] \in {"update_write", "read_record", "find_read", "claim_read", "claim_write"}
  BY GrantedLive DEF InsertLock, InsertWrite, UpdateLock, ReadLock, FindLock, FindAndUpdateLock, ClaimRead,
     Goto, TypeOK
<1>3. PhaseOf(w)' = PhaseOf(w) /\ GivenTo(w)' = GivenTo(w) /\ ExaminedBy(w)' = ExaminedBy(w)
  BY <1>1, <1>2 DEF PhaseOf, GivenTo, ExaminedBy, Searching, Passed, IndexIO, Inserting, Cell
<1>4. storeBar' = storeBar
  <2>1. CASE data' = data
    BY <1>1, <2>1, StoreStays
  <2>2. CASE InsertWrite(w)
    <3>1. \A c \in Cells \ {Cell(w)} : data'[c] = data[c]
      BY <2>2, CellTypes DEF InsertWrite, TypeOK
    <3>2. index[Cell(w)].is_deleted
      BY <2>2 DEF InsertWrite, InsertUnseen, Inserting
    <3>3. \A c \in Cells : ~index[c].is_deleted =>
            <<c[1], index[c].offset>> = c /\ c # Cell(w)
      BY <3>2 DEF IndexSound, Cells
    <3>4. \A c \in Cells : Kept(c)' = Kept(c)
      BY <1>1, <3>1, <3>3 DEF Kept, Stored
    <3> QED BY <3>4 DEF storeBar
  <2> QED BY <1>1, <2>1, <2>2
<1> QED BY <1>1, <1>3, <1>4, CallStays, StoreStays

\* A record overwritten at its place.
LEMMA OverwriteBar ==
  ASSUME StoreInv, NEW w \in Workers, pc[w] \in {"update_write", "claim_write"},
         data' = [data EXCEPT ![Place(w)] = req[w].rec], index' = index
  PROVE  /\ ~index[Cell(w)].is_deleted
         /\ storeBar' = [storeBar EXCEPT ![Cell(w)] = req[w].rec]
<1> USE DEF StoreInv, EngineInv, LockInv
<1>1. ~index[Cell(w)].is_deleted /\ Place(w) = Cell(w) /\ Cell(w) \in Cells
  BY PlaceIsCell, CellTypes DEF LockTargetLive, OnRecord
<1>2. data'[Cell(w)] = req[w].rec /\ \A c \in Cells \ {Cell(w)} : data'[c] = data[c]
  BY <1>1 DEF TypeOK
<1>3. \A c \in Cells : ~index[c].is_deleted => <<c[1], index[c].offset>> = c
  BY DEF IndexSound, Cells
<1>4. req[w].rec # Unwritten
  BY CellTypes, RequestTypes, EngineAssumption
<1> DEFINE d == Cell(w)
<1>5. ASSUME NEW c \in Cells PROVE Kept(c)' = IF c = d THEN req[w].rec ELSE Kept(c)
  <2>1. CASE index[c].is_deleted
    BY <1>1, <2>1 DEF Kept
  <2>2. CASE ~index[c].is_deleted
    <3>1. Kept(c)' = Stored(c)' /\ Kept(c) = Stored(c)
      BY <1>3, <2>2 DEF Kept, Stored
    <3> QED BY <1>2, <1>4, <3>1 DEF Stored
  <2> QED BY <2>1, <2>2
<1>6. d \in Cells
  BY <1>1
<1> HIDE DEF d
<1>7. storeBar' = [storeBar EXCEPT ![d] = req[w].rec]
  BY <1>5, <1>6 DEF storeBar
<1> QED BY <1>1, <1>7 DEF d

\* The record a worker reads at its place is the record of its cell.
LEMMA ReadsCell ==
  ASSUME StoreInv, NEW w \in Workers, pc[w] \in OnRecord
  PROVE  /\ ~index[Cell(w)].is_deleted
         /\ storeBar[Cell(w)] = Stored(Place(w)) /\ storeBar[Cell(w)] # Absent
BY PlaceIsCell, CellTypes, CellHolds DEF StoreInv, EngineInv, LockInv, LockTargetLive

LEMMA KeySteps ==
  ASSUME StoreInv, NEW w \in Workers, Alone(w)
  PROVE  /\ Lookup(w) => \/ Store!Missing(w)
                         \/ UNCHANGED <<storeBar, spentBar, phaseBar, req, cellBar, seenBar, reply>>
         /\ DeleteLock(w) => Store!Delete(w)
         /\ DeletePersist(w) => Store!Acknowledge(w)
         /\ UpdateWrite(w) => Store!Update(w)
         /\ ReadRecord(w) => Store!Read(w)
<1> USE DEF At, Asks, StoreInv, EngineInv, LockInv
<1>1. ASSUME Lookup(w)
      PROVE  \/ Store!Missing(w)
             \/ UNCHANGED <<storeBar, spentBar, phaseBar, req, cellBar, seenBar, reply>>
  <2> DEFINE t == req[w].type
             S == {i \in Live(t, 0, num[t]) : index[<<t, i>>].key = req[w].key}
  <2>1. pc[w] = "start" /\ req[w].op \in {"update", "delete", "read"} /\ Choose(w, S)
        /\ UNCHANGED <<storeBar, spentBar, req>>
    BY <1>1, StoreStays DEF Lookup, files
  <2>2. phaseBar[w] = "busy"
    BY <2>1, BarsAt DEF PhaseOf, IndexIO
  <2>3. CASE S = {}
    <3>1. Store!Reply(w, "not_found", -1, ZeroRecord)
      BY <2>1, <2>3, AnswerStore DEF Choose
    <3>2. ASSUME NEW d \in Store!TypeCells(w), Store!Holds(w, d) PROVE FALSE
      <4>1. d \in Cells /\ d[1] = t /\ d[2] = req[w].key /\ storeBar[d] # Absent
        BY <3>2, TypeCellsAre DEF Store!Holds
      <4>2. ~index[d].is_deleted /\ d[2] < num[t] /\ index[d].key = d[2]
        BY <4>1, CellHolds DEF IndexSound
      <4>3. d = <<t, d[2]>> /\ d[2] \in Slots /\ 0 <= d[2]
        BY <4>1, EngineAssumption DEF Cells, Slots
      <4>4. d[2] \in S
        BY <4>1, <4>2, <4>3 DEF Live
      <4> QED BY <2>3, <4>4
    <3> HIDE DEF S
    <3>3. Store!Missing(w)
      BY <2>1, <2>2, <3>1, <3>2 DEF Store!Missing, NoReply
    <3> QED BY <3>3
  <2>4. CASE S # {}
    <3> HIDE DEF S
    <3>1. pc'[w] = "acquire" /\ reply' = reply
      BY <2>1, <2>4 DEF Choose, Goto, TypeOK
    <3>2. PhaseOf(w)' = PhaseOf(w) /\ GivenTo(w)' = GivenTo(w) /\ ExaminedBy(w)' = ExaminedBy(w)
      BY <2>1, <3>1 DEF PhaseOf, GivenTo, ExaminedBy, Searching, IndexIO, Inserting
    <3> QED BY <2>1, <3>1, <3>2, CallStays
  <2> HIDE DEF S
  <2> QED BY <2>3, <2>4
<1>2. ASSUME DeleteLock(w) PROVE Store!Delete(w)
  <2>1. /\ pc[w] = "acquire" /\ pc'[w] = "delete_persist" /\ req[w].op = "delete"
        /\ UNCHANGED <<num, req, slot, limit, reply, data>>
        /\ index' = [index EXCEPT ![Cell(w)].is_deleted = TRUE]
    BY <1>2, GrantedLive DEF DeleteLock, files, Goto, TypeOK
  <2>2. Cell(w) \in Cells /\ ~index[Cell(w)].is_deleted
    BY <2>1, CellTypes DEF LockTargetLive
  <2>3. PhaseOf(w) = "busy" /\ PhaseOf(w)' = "settled" /\ GivenTo(w)' = GivenTo(w) /\ ExaminedBy(w)' = ExaminedBy(w)
    BY <2>1 DEF PhaseOf, GivenTo, ExaminedBy, Searching, IndexIO, Inserting
  <2>4. phaseBar' = [phaseBar EXCEPT ![w] = "settled"] /\ UNCHANGED <<cellBar, seenBar>> /\ phaseBar[w] = "busy"
    BY <2>3, BarsOfOne, BarsAt DEF cellBar, seenBar
  <2>5. storeBar' = [storeBar EXCEPT ![Cell(w)] = Absent]
    <3>1. index'[Cell(w)].is_deleted /\ \A c \in Cells \ {Cell(w)} : index'[c] = index[c]
      BY <2>1, <2>2 DEF TypeOK, IndexEntry
    <3> DEFINE d == Cell(w)
    <3>2. d \in Cells /\ \A c \in Cells : Kept(c)' = IF c = d THEN Absent ELSE Kept(c)
      BY <2>1, <2>2, <3>1 DEF Kept, Stored
    <3> HIDE DEF d
    <3>3. storeBar' = [storeBar EXCEPT ![d] = Absent]
      BY <3>2 DEF storeBar
    <3> QED BY <3>3 DEF d
  <2>6. Store!Holds(w, Cell(w)) /\ Cell(w) \in Store!TypeCells(w)
    BY <2>1, <2>2, CellHolds, TypeCellsAre DEF Store!Holds, CallFits, Fits
  <2> QED BY <2>1, <2>4, <2>5, <2>6, StoreStays DEF Store!Delete, Store!Asked, Store!Become
<1>3. ASSUME DeletePersist(w) PROVE Store!Acknowledge(w)
  <2>1. Store!Reply(w, "success", -1, ZeroRecord) /\ UNCHANGED <<storeBar, spentBar, req>>
    BY <1>3, AnswerStore, StoreStays DEF DeletePersist
  <2>2. phaseBar[w] = "settled" /\ cellBar[w] = NoCell
    BY <1>3, BarsAt DEF DeletePersist, PhaseOf, GivenTo, IndexIO, Inserting
  <2> QED BY <2>1, <2>2 DEF Store!Acknowledge, NoReply
<1>4. ASSUME UpdateWrite(w) PROVE Store!Update(w)
  <2>1. Store!Reply(w, "success", -1, ZeroRecord) /\ UNCHANGED <<spentBar, req>>
    BY <1>4, AnswerStore, StoreStays DEF UpdateWrite
  <2>2. pc[w] = "update_write" /\ req[w].op = "update" /\ slot[w] = req[w].key
    BY <1>4 DEF UpdateWrite, CallFits, Fits
  <2>3. ~index[Cell(w)].is_deleted /\ storeBar' = [storeBar EXCEPT ![Cell(w)] = req[w].rec]
    BY <1>4, OverwriteBar DEF UpdateWrite
  <2>4. Store!Holds(w, Cell(w)) /\ Cell(w) \in Store!TypeCells(w) /\ phaseBar[w] = "busy"
    BY <2>2, <2>3, CellHolds, TypeCellsAre, BarsAt DEF Store!Holds, PhaseOf, IndexIO
  <2> QED BY <2>1, <2>2, <2>3, <2>4 DEF Store!Update, Store!Asked, NoReply
<1>5. ASSUME ReadRecord(w) PROVE Store!Read(w)
  <2>1. Store!Reply(w, "success", -1, Stored(Place(w))) /\ UNCHANGED <<storeBar, spentBar, req>>
    BY <1>5, AnswerStore, StoreStays DEF ReadRecord, files
  <2>2. pc[w] = "read_record" /\ req[w].op = "read" /\ slot[w] = req[w].key
    BY <1>5 DEF ReadRecord, CallFits, Fits
  <2>3. storeBar[Cell(w)] = Stored(Place(w)) /\ storeBar[Cell(w)] # Absent
    BY <2>2, ReadsCell DEF OnRecord, ReadPc
  <2>4. Store!Holds(w, Cell(w)) /\ Cell(w) \in Store!TypeCells(w) /\ phaseBar[w] = "busy"
    BY <2>2, <2>3, TypeCellsAre, BarsAt DEF Store!Holds, PhaseOf, IndexIO
  <2> QED BY <2>1, <2>2, <2>3, <2>4 DEF Store!Read, Store!Asked
<1> QED BY <1>1, <1>2, <1>3, <1>4, <1>5

\* A search that goes on has examined more cells, none of which matches.
LEMMA ExamineMore ==
  ASSUME StoreInv, NEW w \in Workers, Alone(w), pc[w] \notin {"idle", "done"},
         req[w].op \in {"find", "find_and_update"}, PhaseOf(w) = "busy", PhaseOf(w)' = "busy",
         GivenTo(w)' = GivenTo(w), UNCHANGED <<storeBar, spentBar, req, reply>>,
         ExaminedBy(w) \subseteq ExaminedBy(w)',
         \A c \in ExaminedBy(w)' \ ExaminedBy(w) : c \in Store!TypeCells(w) /\ ~Store!Matches(w, c)
  PROVE  Store!Examine(w)
<1> DEFINE S == ExaminedBy(w)' \ ExaminedBy(w)
<1>1. seenBar' = [seenBar EXCEPT ![w] = @ \cup S]
  BY BarsOfOne, BarsAt DEF seenBar
<1>2. S \in SUBSET {d \in Store!TypeCells(w) : ~Store!Matches(w, d)}
  OBVIOUS
<1>3. phaseBar[w] = "busy" /\ UNCHANGED <<phaseBar, cellBar>>
  BY BarsAt, CallStays
<1> HIDE DEF S
<1> QED BY <1>1, <1>2, <1>3 DEF Store!Examine, Store!Asked

\* The scan chooses the next live slot, or there is none.
LEMMA ScanChooses ==
  ASSUME StoreInv, NEW w \in Workers, Alone(w), NEW from \in Nat, NEW to \in Nat,
         Choose(w, Live(req[w].type, from, to)),
         pc[w] \in {"start", "rescan"}, req[w].op \in {"find", "find_and_update"},
         UNCHANGED <<storeBar, spentBar, req>>, limit'[w] = to,
         pc[w] = "start" => from = 0 /\ to = num[req[w].type],
         pc[w] = "rescan" => from = slot[w] + 1 /\ to = limit[w]
  PROVE  Store!Examine(w) \/ Store!NotFound(w)
<1> USE DEF Asks, StoreInv, EngineInv, LockInv
<1> DEFINE S == Live(req[w].type, from, to)
<1>1. phaseBar[w] = "busy" /\ PhaseOf(w) = "busy"
  BY BarsAt DEF PhaseOf, IndexIO
<1>2. \A c \in ExaminedBy(w) : c[1] = req[w].type /\ (c[2] < from \/ c[2] >= to)
  <2>1. CASE pc[w] = "start"
    BY <2>1 DEF ExaminedBy, Searching
  <2>2. CASE pc[w] = "rescan"
    <3>1. slot[w] \in Slots
      BY CellTypes
    <3> QED BY <2>2, <3>1, EngineAssumption DEF ExaminedBy, Searching, Passed, Cells, Slots
  <2> QED BY <2>1, <2>2
<1>3. ASSUME NEW c \in Cells, c[1] = req[w].type, Store!Matches(w, c)
      PROVE  c[2] \in Slots /\ c[2] \in Int /\ (pc[w] = "start" => c[2] < to) /\ (from <= c[2] /\ c[2] < to => c[2] \in S)
  <2>1. ~index[c].is_deleted /\ c[2] < num[c[1]] /\ c[2] \in Slots /\ c = <<c[1], c[2]>>
    BY <1>3, CellHolds DEF Store!Matches, Cells
  <2> QED BY <1>3, <2>1, EngineAssumption DEF Live, Slots
<1>4. \A c \in Cells : pc[w] = "rescan" /\ c[1] = req[w].type /\ c \notin ExaminedBy(w) => from <= c[2] /\ c[2] < to
  <2>1. slot[w] \in Slots /\ limit[w] \in 0 .. MaxRecords
    BY CellTypes DEF TypeOK
  <2> QED BY <2>1, EngineAssumption DEF ExaminedBy, Searching, Passed, Cells, Slots
<1>5. CASE S = {}
  <2>1. Store!Reply(w, "not_found", -1, ZeroRecord)
    BY <1>5, AnswerStore DEF Choose
  <2>2. \A c \in Store!TypeCells(w) \ seenBar[w] : ~Store!Matches(w, c)
    <3> SUFFICES ASSUME NEW c \in Cells, c[1] = req[w].type, c \notin ExaminedBy(w), Store!Matches(w, c)
                 PROVE  FALSE
      BY TypeCellsAre, BarsAt
    <3>1. from <= c[2] /\ c[2] < to
      BY <1>3, <1>4, EngineAssumption DEF Slots
    <3> QED BY <1>3, <1>5, <3>1
  <2> QED BY <1>1, <2>1, <2>2 DEF Store!NotFound, Store!Asked, NoReply
<1>6. CASE S # {}
  <2>1. S \in SUBSET Nat /\ First(S) \in S /\ \A i \in S : First(S) <= i
    BY <1>6, LiveSlots, FirstIsChosen
  <2>2. pc'[w] = "acquire" /\ slot'[w] = First(S) /\ reply' = reply
    BY <1>6 DEF Choose, Goto, TypeOK
  <2>3. First(S) \in Nat /\ from <= First(S) /\ First(S) < to
    BY <2>1, LiveSlots
  <2> HIDE DEF S
  <2>4. ExaminedBy(w)' = {c \in Cells : c[1] = req[w].type /\ (c[2] <= First(S) - 1 \/ c[2] >= to)}
    BY <2>2 DEF ExaminedBy, Searching, Passed
  <2>5. ExaminedBy(w) \subseteq ExaminedBy(w)'
    <3>1. \A c \in Cells : c[2] \in Int
      BY EngineAssumption DEF Cells, Slots
    <3>2. ExaminedBy(w) \subseteq Cells
      BY DEF ExaminedBy
    <3> QED BY <1>2, <2>3, <2>4, <3>1, <3>2
  <2>6. ASSUME NEW c \in ExaminedBy(w)' \ ExaminedBy(w)
        PROVE  c \in Store!TypeCells(w) /\ ~Store!Matches(w, c)
    <3>1. c \in Cells /\ c[1] = req[w].type /\ (c[2] <= First(S) - 1 \/ c[2] >= to) /\ c \notin ExaminedBy(w)
      BY <2>4, <2>6
    <3>2. ASSUME Store!Matches(w, c) PROVE FALSE
      <4>1. c[2] \in Int /\ from <= c[2] /\ c[2] < to
        BY <1>3, <1>4, <3>1, <3>2, EngineAssumption DEF Slots
      <4>2. c[2] \in S
        BY <1>3, <3>1, <3>2, <4>1
      <4> QED BY <2>1, <2>3, <3>1, <4>1, <4>2
    <3> QED BY <3>1, <3>2, TypeCellsAre
  <2>7. PhaseOf(w)' = "busy" /\ GivenTo(w)' = GivenTo(w)
    BY <2>2 DEF PhaseOf, GivenTo, IndexIO, Inserting
  <2> QED BY <1>1, <2>2, <2>5, <2>6, <2>7, ExamineMore
<1> QED BY <1>5, <1>6

\* A search whose slot does not match goes on behind it.
LEMMA Mismatch ==
  ASSUME StoreInv, NEW w \in Workers, Alone(w), pc[w] \in {"find_read", "claim_read"}, pc'[w] = "rescan",
         Stored(Place(w)) \notin req[w].match,
         UNCHANGED <<num, index, data, req, slot, limit, reply>>
  PROVE  Store!Examine(w)
<1> USE DEF Asks, StoreInv, EngineInv, LockInv
<1>1. req[w].op \in {"find", "find_and_update"}
  BY DEF CallFits, Fits
<1>2. PhaseOf(w) = "busy" /\ PhaseOf(w)' = "busy" /\ GivenTo(w)' = GivenTo(w)
  BY DEF PhaseOf, GivenTo, IndexIO, Inserting
<1>3. /\ ExaminedBy(w) = {c \in Cells : c[1] = req[w].type /\ (c[2] <= slot[w] - 1 \/ c[2] >= limit[w])}
      /\ ExaminedBy(w)' = {c \in Cells : c[1] = req[w].type /\ (c[2] <= slot[w] \/ c[2] >= limit[w])}
  BY <1>1 DEF ExaminedBy, Searching, Passed
<1>4. slot[w] \in Int /\ \A c \in Cells : c[2] \in Int
  BY CellTypes, EngineAssumption DEF Cells, Slots
<1>5. ExaminedBy(w) \subseteq ExaminedBy(w)'
  BY <1>3, <1>4
<1>6. ASSUME NEW c \in ExaminedBy(w)' \ ExaminedBy(w) PROVE c \in Store!TypeCells(w) /\ ~Store!Matches(w, c)
  <2>1. c \in Cells /\ c[1] = req[w].type /\ c[2] = slot[w]
    BY <1>3, <1>4, <1>6
  <2>2. c = Cell(w)
    BY <2>1 DEF Cells, Cell
  <2>3. storeBar[c] = Stored(Place(w))
    BY <2>2, ReadsCell DEF OnRecord, ReadPc
  <2> QED BY <2>1, <2>3, TypeCellsAre DEF Store!Matches
<1> QED BY <1>1, <1>2, <1>5, <1>6, StoreStays, ExamineMore

LEMMA SearchSteps ==
  ASSUME StoreInv, NEW w \in Workers, Alone(w)
  PROVE  /\ ScanStart(w) \/ Rescan(w) => Store!Examine(w) \/ Store!NotFound(w)
         /\ FindRead(w) => Store!Find(w) \/ Store!Examine(w)
         /\ ClaimRead(w) /\ Stored(Place(w)) \notin req[w].match => Store!Examine(w)
         /\ ClaimWrite(w) => Store!FindAndUpdate(w)
<1> USE DEF At, Asks, StoreInv, EngineInv, LockInv
<1>1. ASSUME ScanStart(w) PROVE Store!Examine(w) \/ Store!NotFound(w)
  <2>1. num[req[w].type] \in Nat /\ limit'[w] = num[req[w].type]
    BY <1>1, CellTypes, EngineAssumption DEF ScanStart, TypeOK
  <2> QED BY <1>1, <2>1, StoreStays, ScanChooses DEF ScanStart, files
<1>2. ASSUME Rescan(w) PROVE Store!Examine(w) \/ Store!NotFound(w)
  <2>1. slot[w] + 1 \in Nat /\ limit[w] \in Nat
    BY CellTypes, EngineAssumption DEF TypeOK, Slots
  <2>2. req[w].op \in {"find", "find_and_update"}
    BY <1>2 DEF Rescan, CallFits, Fits
  <2> QED BY <1>2, <2>1, <2>2, StoreStays, ScanChooses DEF Rescan, files
<1>3. ASSUME FindRead(w) PROVE Store!Find(w) \/ Store!Examine(w)
  <2>1. CASE Stored(Place(w)) \notin req[w].match
    BY <1>3, <2>1, Mismatch DEF FindRead, files, Goto, TypeOK
  <2>2. CASE Stored(Place(w)) \in req[w].match
    <3>1. Store!Reply(w, "success", -1, Stored(Place(w))) /\ UNCHANGED <<storeBar, spentBar, req>>
      BY <1>3, <2>2, AnswerStore, StoreStays DEF FindRead, files
    <3>2. req[w].op = "find" /\ phaseBar[w] = "busy"
      BY <1>3, BarsAt DEF FindRead, CallFits, Fits, PhaseOf, IndexIO
    <3>3. storeBar[Cell(w)] = Stored(Place(w)) /\ storeBar[Cell(w)] # Absent
      BY <1>3, ReadsCell DEF FindRead, OnRecord, ReadPc
    <3>4. Cell(w) \in Store!TypeCells(w) /\ Store!Matches(w, Cell(w))
      BY <2>2, <3>3, TypeCellsAre DEF Store!Matches
    <3> QED BY <3>1, <3>2, <3>3, <3>4 DEF Store!Find, Store!Asked
  <2> QED BY <2>1, <2>2
<1>4. ASSUME ClaimRead(w), Stored(Place(w)) \notin req[w].match PROVE Store!Examine(w)
  BY <1>4, Mismatch DEF ClaimRead, files, Goto, TypeOK
<1>5. ASSUME ClaimWrite(w) PROVE Store!FindAndUpdate(w)
  <2>1. Store!Reply(w, "success", -1, ZeroRecord) /\ UNCHANGED <<spentBar, req>>
    BY <1>5, AnswerStore, StoreStays DEF ClaimWrite
  <2>2. pc[w] = "claim_write" /\ req[w].op = "find_and_update"
    BY <1>5 DEF ClaimWrite, CallFits, Fits
  <2>3. storeBar' = [storeBar EXCEPT ![Cell(w)] = req[w].rec]
    BY <1>5, OverwriteBar DEF ClaimWrite
  <2>4. storeBar[Cell(w)] = Stored(Place(w)) /\ storeBar[Cell(w)] # Absent /\ Stored(Place(w)) \in req[w].match
    BY <2>2, ReadsCell DEF OnRecord, ClaimHolds
  <2>5. Cell(w) \in Store!TypeCells(w) /\ Store!Matches(w, Cell(w)) /\ phaseBar[w] = "busy"
    BY <2>2, <2>4, TypeCellsAre, BarsAt DEF Store!Matches, PhaseOf, IndexIO
  <2> QED BY <2>1, <2>2, <2>3, <2>5 DEF Store!FindAndUpdate, Store!Asked, NoReply
<1> QED BY <1>1, <1>2, <1>3, <1>4, <1>5

LEMMA FailStep == ASSUME StoreInv, NEW w \in Workers, Alone(w), IOFail(w) PROVE Store!Fail(w)
<1>1. Store!Reply(w, "failure", -1, ZeroRecord) /\ UNCHANGED <<storeBar, spentBar, req>>
  BY AnswerStore, StoreStays DEF IOFail, files
<1>2. phaseBar[w] \in {"busy", "settled"} /\ IOFaults
  BY BarsAt DEF PhaseOf, IOFail, WritePc, ReadPc
<1> QED BY <1>1, <1>2 DEF Store!Fail, NoReply

-----------------------------------------------------------------------------
\* Whatever the workers of DB_engine.c and the operations of DB_File_IO_Handler.c
\* do at once, each call takes effect at one instant: the engine implements
\* RecordStore, with or without failing reads and writes.
THEOREM EngineImplementsStore == Spec => ImplementsStore
<1>1. ASSUME Init PROVE Store!StoreInit
  <2>0. (\A c \in Cells : index[c].is_deleted) /\ (\A w \in Workers : pc[w] = "idle")
    BY <1>1 DEF Init, NoEntry
  <2>1. storeBar = [c \in Cells |-> Absent]
    BY <2>0 DEF storeBar, Kept
  <2>3. cellBar = [w \in Workers |-> NoCell] /\ phaseBar = [w \in Workers |-> "idle"]
    BY <2>0 DEF cellBar, GivenTo, Inserting, phaseBar, PhaseOf, IndexIO
  <2>4. seenBar = [w \in Workers |-> {}]
    <3>1. \A w \in Workers : ~Searching(w)
      BY <2>0 DEF Searching
    <3> QED BY <3>1 DEF seenBar, ExaminedBy
  <2>2. spentBar = {}
    BY <1>1, EngineAssumption DEF Init, spentBar, Cells, Slots
  <2> QED BY <1>1, <2>1, <2>2, <2>3, <2>4 DEF Store!StoreInit, Store!Cells, Cells, Init
<1>2. ASSUME StoreInv, [Next]_vars PROVE [Store!StoreNext]_Store!storeVars
  <2>1. CASE UNCHANGED vars
    BY <2>1, StoreStays DEF vars, Store!storeVars, phaseBar, PhaseOf, cellBar, GivenTo, Cell, seenBar,
       ExaminedBy, Searching, Asks, Passed
  <2>2. ASSUME NEW w \in Workers, StepOf(w) PROVE [Store!StoreNext]_Store!storeVars
    <3>1. Alone(w)
      BY <1>2, <2>2, OneMoves DEF StoreInv, EngineInv
    <3>2. CASE Receive(w) \/ Send(w) \/ IOFail(w)
      BY <1>2, <3>1, <3>2, QuietSteps, FailStep DEF Store!StoreNext
    <3>3. CASE InsertFull(w) \/ InsertTakeSlot(w) \/ InsertPublish(w) \/ InsertPersist(w)
      BY <1>2, <3>1, <3>3, InsertSteps DEF Store!StoreNext
    <3>4. CASE Lookup(w) \/ DeleteLock(w) \/ DeletePersist(w) \/ UpdateWrite(w) \/ ReadRecord(w)
      BY <1>2, <3>1, <3>4, KeySteps DEF Store!StoreNext, Store!storeVars
    <3>5. CASE ScanStart(w) \/ Rescan(w) \/ FindRead(w) \/ ClaimWrite(w)
               \/ (ClaimRead(w) /\ Stored(Place(w)) \notin req[w].match)
      BY <1>2, <3>1, <3>5, SearchSteps DEF Store!StoreNext
    <3>6. CASE InsertLock(w) \/ InsertWrite(w) \/ UpdateLock(w) \/ ReadLock(w) \/ FindLock(w)
               \/ FindAndUpdateLock(w) \/ (ClaimRead(w) /\ Stored(Place(w)) \in req[w].match)
      BY <1>2, <3>1, <3>6, HiddenSteps DEF Store!storeVars
    <3> QED BY <2>2, <3>2, <3>3, <3>4, <3>5, <3>6 DEF StepOf, MutexStep, OwnStep
  <2> QED BY <1>2, <2>1, <2>2 DEF Next, StepOf
<1> QED BY <1>1, <1>2, StoreInvInit, StoreInvNext, PTL DEF Spec, ImplementsStore, Store!StoreSpec
=============================================================================
