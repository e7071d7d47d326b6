SPECIFICATION FairSpec
CONSTANTS
  free = free
  taken = taken
  w1 = w1
  w2 = w2
  w3 = w3
  Nobody = Nobody
  Unwritten = Unwritten
  Absent = Absent
  NoCell = NoCell
  Contents <- Values
  Zero = free
  Workers <- ThreeWorkers
  DbTypes <- Tables
  MaxRecords = 2
  Requests <- Claims
  IOFaults = FALSE
INVARIANTS NoLockCycle NoConflictingIO IndexDurable
PROPERTIES NoResurrection EveryCallAnswered
