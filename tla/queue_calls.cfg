SPECIFICATION FairSpec
CONSTANTS
  server = server
  script = script
  s1 = s1
  s2 = s2
  t1 = t1
  w1 = w1
  w2 = w2
  Processes <- TwoProcesses
  Threads <- ThreeThreads
  ProcessOf <- Owner
  Workers <- TwoWorkers
  FirstPid <- Pids
  SparePids = {3}
  IdBase = 10
  RequestSlots = 1
  ReplySlots = 1
  MaxCalls = 3
  MaxFaults = 1
INVARIANTS TypeOK OwnReply AtMostOnce NothingLost
PROPERTIES EveryCallReturns ImplementsCalls
CHECK_DEADLOCK FALSE
