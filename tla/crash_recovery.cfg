SPECIFICATION CrashSpec
CONSTANTS
  free = free
  taken = taken
  w1 = w1
  w2 = w2
  Nobody = Nobody
  Unwritten = Unwritten
  Absent = Absent
  NoCell = NoCell
  Workers <- TwoWorkers
  DbTypes = {"tables"}
  MaxRecords = 3
  Contents <- Values
  Zero = free
  Requests <- InsertsAndDeletes
  IOFaults = FALSE
  MaxCrashes = 2
INVARIANTS LockInv
PROPERTIES SettledSurvives
SYMMETRY Symmetry
