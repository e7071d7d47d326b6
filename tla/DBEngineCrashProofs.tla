------------------------ MODULE DBEngineCrashProofs ------------------------
(* Machine-checked properties of the storage engine that is killed and       *)
(* started again, for any number of kills, threads, types and slots.         *)
EXTENDS DBEngineCrash, DBEngineProofs

\* The length of the index file covers the slots that were written, and the last
\* byte of it was written.
LEMMA FileLengthCovers ==
  ASSUME TypeOK, NEW t \in DbTypes
  PROVE  /\ FileLength(t) \in 0 .. MaxRecords
         /\ \A i \in Slots : idx[<<t, i>>] # Unwritten => i < FileLength(t)
         /\ \A i \in Slots : i < FileLength(t) =>
              \E j \in Slots : i <= j /\ idx[<<t, j>>] # Unwritten
<1> DEFINE P == Persisted(t)
<1>1. P \subseteq Slots /\ \A i \in Slots : i \in P <=> idx[<<t, i>>] # Unwritten
  BY DEF Persisted
<1>2. MaxRecords \in Nat /\ Slots = 0 .. (MaxRecords - 1)
  BY EngineAssumption DEF Slots
<1>3. CASE P = {}
  BY <1>1, <1>2, <1>3 DEF FileLength
<1>4. CASE P # {}
  <2> DEFINE FromEnd == {MaxRecords - i : i \in P}
             R == {p \in Nat \X Nat : p[1] < p[2]}
  <2>1. FromEnd \in SUBSET Nat /\ FromEnd # {}
    BY <1>1, <1>2, <1>4
  <2>2. IsWellFoundedOn(R, Nat)
    BY NatLessThanWellFounded DEF OpToRel, R
  <2>3. PICK x \in FromEnd : \A y \in FromEnd : ~(<<y, x>> \in R)
    <3> HIDE DEF R, FromEnd
    <3> QED BY <2>1, <2>2, WFMin
  <2>4. PICK m \in P : x = MaxRecords - m
    OBVIOUS
  <2>5. ASSUME NEW j \in P PROVE j <= m
    <3>1. MaxRecords - j \in FromEnd
      OBVIOUS
    <3>2. ~(<<MaxRecords - j, x>> \in R)
      BY <2>3, <3>1
    <3>3. MaxRecords - j \in Nat /\ x \in Nat
      BY <2>1, <3>1
    <3>4. ~(MaxRecords - j < x)
      BY <3>2, <3>3 DEF R
    <3>5. j \in Int /\ m \in Int
      BY <1>1, <1>2
    <3> QED BY <1>2, <2>4, <3>4, <3>5
  <2> DEFINE last == CHOOSE i \in P : \A j \in P : j <= i
  <2>6. last \in P /\ \A j \in P : j <= last
    BY <2>5
  <2>7. FileLength(t) = 1 + last
    BY <1>4 DEF FileLength
  <2> HIDE DEF last, P, FromEnd, R
  <2>8. last \in 0 .. (MaxRecords - 1)
    BY <1>1, <1>2, <2>6
  <2>9. FileLength(t) \in 0 .. MaxRecords
    BY <1>2, <2>7, <2>8
  <2>10. \A i \in Slots : i \in P => i < FileLength(t)
    BY <1>2, <2>6, <2>7, <2>8
  <2>11. \A i \in Slots : i < FileLength(t) => i <= last
    BY <1>2, <2>7, <2>8
  <2> QED BY <1>1, <2>6, <2>9, <2>10, <2>11
<1> QED BY <1>3, <1>4

(***************************************************************************)
(* The locks.                                                              *)
(***************************************************************************)
\* What db_init builds has its type, and counts every slot of the file.
LEMMA CrashLocks == LockInv /\ Crash => LockInv'
<1> SUFFICES ASSUME LockInv, Crash PROVE LockInv'
  OBVIOUS
<1> USE DEF LockInv
<1>1. TypeOK'
  <2>1. num' \in [DbTypes -> 0 .. MaxRecords]
    BY FileLengthCovers DEF Crash
  <2>2. index' \in [Cells -> IndexEntry]
    BY Defaults DEF Crash, Loaded, ZeroEntry, IndexEntry, TypeOK
  <2> QED BY <2>1, <2>2, Defaults, EngineAssumption DEF Crash, TypeOK, files, Pc, FreePc
<1>2. LockDiscipline'
  BY EngineAssumption DEF Crash, LockDiscipline, WritePc, ReadPc
<1>3. Counted'
  <2>1. ASSUME NEW c \in Cells, c[2] >= num'[c[1]] PROVE index'[c].is_deleted /\ idx'[c] = Unwritten
    <3>1. c[1] \in DbTypes /\ c[2] \in Slots /\ c = <<c[1], c[2]>>
      BY DEF Cells
    <3>2. c[2] \in Nat /\ num'[c[1]] = FileLength(c[1]) /\ FileLength(c[1]) \in Nat
      BY <3>1, FileLengthCovers, EngineAssumption DEF Crash, Slots
    <3>3. idx[c] = Unwritten /\ ~(c[2] < FileLength(c[1]))
      BY <2>1, <3>1, <3>2, FileLengthCovers
    <3> QED BY <3>3 DEF Crash, Loaded, NoEntry, files
  <2>2. \A w \in Workers : pc'[w] \notin OnSlot
    BY DEF Crash, OnSlot, WritePc, ReadPc
  <2> QED BY <2>1, <2>2 DEF Counted
<1>4. InsertUnseen' /\ LockTargetLive'
  BY DEF Crash, InsertUnseen, Inserting, LockTargetLive, OnRecord, ReadPc
<1> QED BY <1>1, <1>2, <1>3, <1>4

\* db_init and the operations keep the locking invariant, however often the
\* process is killed and whatever the index file's holes become.
THEOREM LocksSurviveKills == CrashSpec => []LockInv
<1>1. CrashInit => LockInv
  BY LockInvInit DEF CrashInit
<1>2. LockInv /\ [CrashNext]_crashVars => LockInv'
  BY LockInvNext, CrashLocks DEF CrashNext, crashVars
<1> QED BY <1>1, <1>2, PTL DEF CrashSpec

(***************************************************************************)
(* The records.                                                            *)
(***************************************************************************)
\* A hole of the index file that was loaded as a live entry.
Ghost(c) ==
  /\ idx[c] = Unwritten /\ index[c] = ZeroEntry
  /\ \E j \in Slots : c[2] <= j /\ idx[<<c[1], j>>] # Unwritten
CrashAgrees ==
  ~IOFaults => \A c \in Cells :
    Agrees(c) \/ Ghost(c) \/ \E w \in Workers : pc[w] \in IndexIO /\ Cell(w) = c

\* The index file only grows.
LEMMA IdxGrows ==
  ASSUME LockInv, [Next]_vars, ~IOFaults, NEW c \in Cells, idx[c] # Unwritten
  PROVE  idx'[c] # Unwritten
<1>1. \A d \in Cells : index[d] # Unwritten
  BY EngineAssumption DEF LockInv, TypeOK
<1> QED BY <1>1, IdxStep DEF LockInv, TypeOK

LEMMA CrashAgreesNext == LockInv /\ CrashAgrees /\ [Next]_vars => CrashAgrees'
<1> SUFFICES ASSUME LockInv, CrashAgrees, [Next]_vars, ~IOFaults, NEW c \in Cells
             PROVE  (Agrees(c) \/ Ghost(c) \/ \E w \in Workers : pc[w] \in IndexIO /\ Cell(w) = c)'
  BY DEF CrashAgrees
<1>1. Agrees(c) \/ Ghost(c) \/ \E w \in Workers : pc[w] \in IndexIO /\ Cell(w) = c
  BY DEF CrashAgrees
<1>2. CASE index'[c] = index[c]
  <2>1. CASE Agrees(c) \/ \E w \in Workers : pc[w] \in IndexIO /\ Cell(w) = c
    BY <1>2, <2>1, IdxStep DEF LockInv, TypeOK, Agrees
  <2>2. CASE Ghost(c)
    <3>1. PICK j \in Slots : c[2] <= j /\ idx[<<c[1], j>>] # Unwritten
      BY <2>2 DEF Ghost
    <3>2. idx'[<<c[1], j>>] # Unwritten
      BY <3>1, IdxGrows DEF Cells
    <3>3. idx'[c] = Unwritten \/ idx'[c] = index[c]
      BY <2>2, IdxStep DEF LockInv, TypeOK, Ghost
    <3> QED BY <1>2, <2>2, <3>1, <3>2, <3>3 DEF Ghost, Agrees
  <2> QED BY <1>1, <2>1, <2>2
<1>3. CASE index'[c] # index[c]
  <2>1. /\ \/ \E w \in Workers : pc'[w] \in IndexIO /\ Cell(w)' = c
           \/ idx[c] = Unwritten /\ index'[c].is_deleted
        /\ index' # index
    BY <1>3, IndexChange
  <2>2. idx' = idx
    BY <2>1, IdxStep
  <2> QED BY <2>1, <2>2 DEF Agrees
<1> QED BY <1>2, <1>3

\* What db_init loads agrees with the file it loads, holes apart.
LEMMA CrashAgreesCrash == LockInv /\ Crash => CrashAgrees'
<1> SUFFICES ASSUME LockInv, Crash, NEW c \in Cells PROVE Agrees(c)' \/ Ghost(c)'
  BY DEF CrashAgrees
<1>1. c[1] \in DbTypes /\ c[2] \in Slots /\ c = <<c[1], c[2]>>
  BY DEF Cells
<1>2. idx' = idx /\ index'[c] = Loaded(c)
  BY DEF Crash, files
<1>3. CASE idx[c] # Unwritten
  BY <1>2, <1>3 DEF Loaded, Agrees
<1>4. CASE idx[c] = Unwritten /\ c[2] < FileLength(c[1])
  <2>1. PICK j \in Slots : c[2] <= j /\ idx[<<c[1], j>>] # Unwritten
    BY <1>1, <1>4, FileLengthCovers DEF LockInv
  <2> QED BY <1>2, <1>4, <2>1 DEF Loaded, Ghost
<1>5. CASE idx[c] = Unwritten /\ ~(c[2] < FileLength(c[1]))
  BY <1>2, <1>5 DEF Loaded, Agrees, NoEntry
<1> QED BY <1>3, <1>4, <1>5

-----------------------------------------------------------------------------
\* A counted slot that is not in the index file is one of an insert under way, or a
\* ghost, or one whose delete is about to be written.
Unfinished == {"insert_lock", "insert_write", "publish", "insert_persist", "delete_persist"}
Pending(c) == \E w \in Workers : pc[w] \in Unfinished /\ Cell(w) = c
CountedWritten ==
  ~IOFaults => \A c \in Cells : c[2] < num[c[1]] /\ idx[c] = Unwritten => Ghost(c) \/ Pending(c)

\* An insert or a delete goes on until its entry is in the index file.
LEMMA UnfinishedStep ==
  ASSUME LockInv, [Next]_vars, ~IOFaults, NEW v \in Workers, pc[v] \in Unfinished, idx'[Cell(v)] = Unwritten
  PROVE  pc'[v] \in Unfinished /\ Cell(v)' = Cell(v)
<1> USE DEF LockInv, TypeOK, Cell, Unfinished
<1>1. CASE UNCHANGED vars
  BY <1>1 DEF vars
<1>2. ASSUME NEW w \in Workers,
             \/ Receive(w) \/ Send(w) \/ InsertFull(w) \/ InsertTakeSlot(w) \/ InsertLock(w)
             \/ InsertWrite(w) \/ InsertPublish(w)
      PROVE  pc'[v] \in Unfinished /\ Cell(v)' = Cell(v)
  BY <1>2 DEF Receive, Send, InsertFull, InsertTakeSlot, InsertLock, InsertWrite, InsertPublish,
     Goto, Answer, At
<1>3. ASSUME NEW w \in Workers, InsertPersist(w) \/ DeletePersist(w)
      PROVE  pc'[v] \in Unfinished /\ Cell(v)' = Cell(v)
  <2>1. Cell(w) \in Cells /\ idx' = [idx EXCEPT ![Cell(w)] = index[Cell(w)]]
    BY <1>3, CellTypes DEF InsertPersist, DeletePersist
  <2>2. idx'[Cell(w)] # Unwritten
    BY <2>1, EngineAssumption
  <2>3. w # v
    BY <2>2
  <2> QED BY <1>3, <2>3 DEF InsertPersist, DeletePersist, Goto, Answer, At
<1>4. ASSUME NEW w \in Workers, Lookup(w) \/ ScanStart(w) \/ Rescan(w)
      PROVE  pc'[v] \in Unfinished /\ Cell(v)' = Cell(v)
  BY <1>4 DEF Lookup, ScanStart, Rescan, Choose, Goto, Answer, At
<1>5. ASSUME NEW w \in Workers,
             UpdateLock(w) \/ DeleteLock(w) \/ ReadLock(w) \/ FindLock(w) \/ FindAndUpdateLock(w)
      PROVE  pc'[v] \in Unfinished /\ Cell(v)' = Cell(v)
  BY <1>5, GrantedLive DEF UpdateLock, DeleteLock, ReadLock, FindLock, FindAndUpdateLock, Goto, At
<1>6. ASSUME NEW w \in Workers,
             UpdateWrite(w) \/ ReadRecord(w) \/ FindRead(w) \/ ClaimRead(w) \/ ClaimWrite(w)
      PROVE  pc'[v] \in Unfinished /\ Cell(v)' = Cell(v)
  BY <1>6 DEF UpdateWrite, ReadRecord, FindRead, ClaimRead, ClaimWrite, Goto, Answer, At
<1>7. ASSUME NEW w \in Workers PROVE ~IOFail(w)
  BY DEF IOFail
<1> QED BY <1>1, <1>2, <1>3, <1>4, <1>5, <1>6, <1>7 DEF Next, MutexStep, OwnStep

\* A slot is counted as an insert takes it; no other step counts, or changes an
\* entry but the one that is written next.
LEMMA CountStep ==
  ASSUME LockInv, [Next]_vars, NEW c \in Cells
  PROVE  /\ c[2] < num'[c[1]] => c[2] < num[c[1]] \/ Pending(c)'
         /\ c[2] < num[c[1]] => index'[c] = index[c] \/ Pending(c)'
<1> USE DEF LockInv, TypeOK
<1>1. ASSUME NEW w \in Workers, InsertTakeSlot(w)
      PROVE  /\ c[2] < num'[c[1]] => c[2] < num[c[1]] \/ Pending(c)'
             /\ c[2] < num[c[1]] => index'[c] = index[c]
  <2> DEFINE t == req[w].type
  <2>1. /\ t \in DbTypes /\ num[t] \in Nat /\ num' = [num EXCEPT ![t] = num[t] + 1]
        /\ slot' = [slot EXCEPT ![w] = num[t]] /\ pc' = [pc EXCEPT ![w] = "insert_lock"] /\ req' = req
        /\ index' = [index EXCEPT ![<<t, num[t]>>].is_deleted = TRUE]
    BY <1>1, CellTypes DEF InsertTakeSlot, Goto
  <2>2. c[1] \in DbTypes /\ c[2] \in Nat /\ c = <<c[1], c[2]>>
    BY EngineAssumption DEF Cells, Slots
  <2>3. ASSUME c[2] < num'[c[1]], ~(c[2] < num[c[1]]) PROVE Pending(c)'
    <3>1. c[1] = t /\ c[2] = num[t]
      BY <2>1, <2>2, <2>3
    <3>2. Cell(w)' = c /\ pc'[w] = "insert_lock"
      BY <2>1, <2>2, <3>1 DEF Cell
    <3> QED BY <3>2 DEF Pending, Unfinished
  <2>4. c[2] < num[c[1]] => c # <<t, num[t]>>
    BY <2>1, <2>2
  <2> QED BY <2>1, <2>3, <2>4
<1>2. ASSUME NEW w \in Workers, InsertPublish(w) \/ DeleteLock(w)
      PROVE  num' = num /\ (index'[c] = index[c] \/ Pending(c)')
  <2>1. CASE InsertPublish(w)
    <3>1. Cell(w)' = Cell(w) /\ pc'[w] = "insert_persist" /\ (c # Cell(w) => index'[c] = index[c])
      BY <2>1, CellTypes DEF InsertPublish, Goto, Cell
    <3> QED BY <2>1, <3>1 DEF InsertPublish, Pending, Unfinished
  <2>2. CASE DeleteLock(w)
    <3>1. index'[c] = index[c] \/ (c = Cell(w) /\ Cell(w)' = Cell(w) /\ pc'[w] = "delete_persist")
      BY <2>2, CellTypes, GrantedLive DEF DeleteLock, Goto, Cell, At
    <3> QED BY <2>2, <3>1 DEF DeleteLock, Pending, Unfinished
  <2> QED BY <1>2, <2>1, <2>2
<1>3. ASSUME NEW w \in Workers, MutexStep(w) \/ Receive(w) \/ IOFail(w) \/ Send(w),
             ~(InsertPublish(w) \/ InsertTakeSlot(w))
      PROVE  num' = num /\ index' = index
  BY <1>3 DEF MutexStep, InsertFull, Lookup, ScanStart, Rescan, Receive, IOFail, Send
<1>4. ASSUME NEW w \in Workers, OwnStep(w), ~DeleteLock(w) PROVE num' = num /\ index' = index
  BY <1>4 DEF OwnStep, InsertLock, InsertWrite, InsertPersist, UpdateLock, ReadLock, FindLock,
     FindAndUpdateLock, UpdateWrite, DeletePersist, ReadRecord, FindRead, ClaimRead, ClaimWrite
<1> QED BY <1>1, <1>2, <1>3, <1>4 DEF Next, vars

LEMMA CountedWrittenNext == LockInv /\ CountedWritten /\ [Next]_vars => CountedWritten'
<1> SUFFICES ASSUME LockInv, CountedWritten, [Next]_vars, ~IOFaults, NEW c \in Cells,
                    c[2] < num'[c[1]], idx'[c] = Unwritten
             PROVE  Ghost(c)' \/ Pending(c)'
  BY DEF CountedWritten
<1>1. idx[c] = Unwritten
  BY IdxGrows
<1>2. CASE c[2] < num[c[1]] /\ index'[c] = index[c]
  <2>1. Ghost(c) \/ Pending(c)
    BY <1>1, <1>2 DEF CountedWritten
  <2>2. CASE Pending(c)
    BY <2>2, UnfinishedStep DEF Pending
  <2>3. CASE Ghost(c)
    <3>1. PICK j \in Slots : c[2] <= j /\ idx[<<c[1], j>>] # Unwritten
      BY <2>3 DEF Ghost
    <3>2. idx'[<<c[1], j>>] # Unwritten
      BY <3>1, IdxGrows DEF Cells
    <3> QED BY <1>2, <2>3, <3>1, <3>2 DEF Ghost
  <2> QED BY <2>1, <2>2, <2>3
<1> QED BY <1>2, CountStep

LEMMA CountedWrittenCrash == LockInv /\ Crash => CountedWritten'
<1> SUFFICES ASSUME LockInv, Crash, NEW c \in Cells, c[2] < num'[c[1]], idx'[c] = Unwritten
             PROVE  Ghost(c)'
  BY DEF CountedWritten
<1>1. c[1] \in DbTypes /\ c[2] \in Slots /\ c = <<c[1], c[2]>>
  BY DEF Cells
<1>2. idx' = idx /\ index'[c] = Loaded(c) /\ num'[c[1]] = FileLength(c[1])
  BY <1>1 DEF Crash, files
<1>3. PICK j \in Slots : c[2] <= j /\ idx[<<c[1], j>>] # Unwritten
  BY <1>1, <1>2, FileLengthCovers DEF LockInv
<1> QED BY <1>2, <1>3 DEF Loaded, Ghost

\* As long as no write fails, db_init loads after a kill what was answered before it:
\* a record nobody is writing, under its key and at its place, and no record whose
\* delete was answered; a ghost stays a ghost.
THEOREM SettledRecordsSurvive == ASSUME ~IOFaults PROVE CrashSpec => SettledSurvives
<1>1. CrashInit => CrashAgrees /\ CountedWritten
  <2> SUFFICES ASSUME CrashInit, NEW c \in Cells PROVE Agrees(c) /\ ~(c[2] < num[c[1]])
    BY DEF CrashAgrees, CountedWritten
  <2>1. c[1] \in DbTypes /\ c[2] \in Nat
    BY EngineAssumption DEF Cells, Slots
  <2> QED BY <2>1 DEF CrashInit, Init, Agrees, NoEntry
<1>2. LockInv /\ CrashAgrees /\ CountedWritten /\ [CrashNext]_crashVars => CrashAgrees' /\ CountedWritten'
  <2> SUFFICES ASSUME LockInv, CrashAgrees, CountedWritten, Crash \/ [Next]_vars
               PROVE  CrashAgrees' /\ CountedWritten'
    BY DEF CrashNext, crashVars
  <2> QED BY CrashAgreesNext, CrashAgreesCrash, CountedWrittenNext, CountedWrittenCrash
<1>3. ASSUME LockInv, CrashAgrees, CountedWritten, Crash, NEW c \in Cells, Settled(c)
      PROVE  index'[c] = index[c] /\ c[2] < num'[c[1]]
  <2>1. c[1] \in DbTypes /\ c[2] \in Slots /\ c = <<c[1], c[2]>>
    BY DEF Cells
  <2>2. index'[c] = Loaded(c) /\ num'[c[1]] = FileLength(c[1])
    BY <1>3, <2>1 DEF Crash
  <2>3. ~Pending(c)
    <3>1. \A w \in Workers : pc[w] \in Unfinished => pc[w] = "insert_lock" \/ pc[w] \in WritePc
      BY DEF Unfinished, WritePc
    <3>2. \A w \in Workers : pc[w] \in WritePc /\ Cell(w) = c => writer[c] = w
      BY <1>3 DEF LockInv, LockDiscipline
    <3> QED BY <1>3, <3>1, <3>2, EngineAssumption DEF Settled, Pending, At
  <2>4. CASE idx[c] # Unwritten
    <3>1. idx[c] = index[c]
      <4>1. ~\E w \in Workers : pc[w] \in IndexIO /\ Cell(w) = c
        BY <2>3 DEF Pending, Unfinished, IndexIO
      <4> QED BY <1>3, <2>4, <4>1 DEF CrashAgrees, Agrees, Ghost
    <3> QED BY <1>3, <2>1, <2>2, <2>4, <3>1, FileLengthCovers DEF Loaded, LockInv
  <2>5. CASE idx[c] = Unwritten
    <3>1. Ghost(c)
      BY <1>3, <2>3, <2>5 DEF CountedWritten, Settled
    <3>2. PICK j \in Slots : c[2] <= j /\ idx[<<c[1], j>>] # Unwritten
      BY <3>1 DEF Ghost
    <3>3. FileLength(c[1]) \in Nat /\ j < FileLength(c[1])
      BY <1>3, <2>1, <3>2, FileLengthCovers, EngineAssumption DEF LockInv
    <3>4. c[2] < FileLength(c[1])
      BY <2>1, <3>2, <3>3, EngineAssumption DEF Slots
    <3> QED BY <2>2, <3>1, <3>4 DEF Loaded, Ghost
  <2> QED BY <2>4, <2>5
<1>4. LockInv /\ CrashAgrees /\ CountedWritten /\ [CrashNext]_crashVars =>
        [crashes' # crashes =>
           \A c \in Cells : Settled(c) => index'[c] = index[c] /\ c[2] < num'[c[1]]]_crashVars
  BY <1>3 DEF CrashNext, crashVars
<1> QED BY <1>1, <1>2, <1>4, LocksSurviveKills, PTL DEF CrashSpec, SettledSurvives
=============================================================================
