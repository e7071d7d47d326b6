SPECIFICATION Spec
CONSTANTS
  h1 = h1
  c1 = c1
  d1 = d1
  Absent = Absent
  Handlers <- OneHandler
  Chefs <- OneChef
  Dishes <- OneDish
  MaxOrders = 2
  MaxOrderItems = 1
  MaxWire = 1
  MaxLogins = 1
  MaxAsked = 2
  MaxFailures = 1
INVARIANTS TypeOK DashboardRegular NothingInvented
