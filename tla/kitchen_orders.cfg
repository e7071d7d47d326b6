SPECIFICATION FairSpec
CONSTANTS
  g1 = g1
  g2 = g2
  g3 = g3
  c1 = c1
  a1 = a1
  Absent = Absent
  Guests <- OneGuest
  Chefs <- OneChef
  Admins <- OneAdmin
  AdminCommands <- MenuCommands
  MaxTables = 1
  MaxMenu = 2
  MaxOrders = 1
  MaxOrderItems = 2
  FirstTables <- OneTable
  FirstMenu <- OneItem
  Capacities = {4}
  Prices = {1}
  Quantities = {2}
  MaxFailures = 1
INVARIANTS TypeOK BillMatchesItems
PROPERTIES BilledStaysBilled LeavingFreesTable
