SPECIFICATION FairSpec
CONSTANTS
  t1 = t1
  t2 = t2
  Terminals <- OneTerminal
  MaxClients = 1
  MaxOrders = 2
  MaxWire = 1
  MaxBreaks = 2
INVARIANTS TypeOK OwnAnswer ServedAsShown NoFalseBusy
PROPERTIES PagesAnswered ClosedTabsEnd
CHECK_DEADLOCK FALSE
