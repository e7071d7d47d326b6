SPECIFICATION Spec
CONSTANTS
  g1 = g1
  g2 = g2
  g3 = g3
  c1 = c1
  a1 = a1
  Absent = Absent
  Guests <- ThreeGuests
  Chefs <- OneChef
  Admins <- NoThread
  AdminCommands <- NoCommands
  MaxTables = 1
  MaxMenu = 1
  MaxOrders = 3
  MaxOrderItems = 1
  FirstTables <- OneTable
  FirstMenu <- OneItem
  Capacities = {4}
  Prices = {1}
  Quantities = {1}
  MaxFailures = 0
INVARIANTS OneGuestPerTable
