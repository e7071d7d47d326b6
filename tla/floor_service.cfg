SPECIFICATION Spec
CONSTANTS
  g1 = g1
  g2 = g2
  g3 = g3
  c1 = c1
  a1 = a1
  Absent = Absent
  Guests <- TwoGuests
  Chefs <- NoThread
  Admins <- OneAdmin
  AdminCommands <- FloorCommands
  MaxTables = 2
  MaxMenu = 1
  MaxOrders = 2
  MaxOrderItems = 1
  FirstTables <- OneTable
  FirstMenu <- OneItem
  Capacities = {4}
  Prices = {1}
  Quantities = {1}
  MaxFailures = 1
INVARIANTS NoDoubleBooking NoStrandedTable
PROPERTIES ImplementsSeating
SYMMETRY GuestSymmetry
