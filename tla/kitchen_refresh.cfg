SPECIFICATION FairSpec
CONSTANTS
  h1 = h1
  c1 = c1
  d1 = d1
  Absent = Absent
  Handlers <- OneHandler
  Chefs <- OneChef
  Dishes <- OneDish
  MaxOrders = 1
  MaxOrderItems = 2
  MaxWire = 2
  MaxLogins = 2
  MaxAsked = 2
  MaxFailures = 0
PROPERTY RefreshHeals
