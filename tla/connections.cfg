SPECIFICATION FairSpec
CONSTANTS
  ann = ann
  bob = bob
  Nobody = Nobody
  Clients <- Both
  Fds = {1, 2}
  MaxChefs = 1
INVARIANTS TypeOK NoLostDescriptor EveryGuestBilled
PROPERTIES DepartureNoticed
CHECK_DEADLOCK FALSE
