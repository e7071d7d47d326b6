SPECIFICATION Spec
CONSTANTS
  free = free
  taken = taken
  w1 = w1
  w2 = w2
  w3 = w3
  Nobody = Nobody
  Unwritten = Unwritten
  Absent = Absent
  NoCell = NoCell
  Contents <- Values
  Zero = free
  Workers <- TwoWorkers
  DbTypes <- Tables
  MaxRecords = 2
  Requests <- OneType
  IOFaults = TRUE
INVARIANTS ClaimHolds EngineInv
PROPERTIES ImplementsStore
