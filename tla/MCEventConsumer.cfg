SPECIFICATION FairSpec
CONSTANTS
  MaxRequests = 1
  MaxOffers = 2
  MaxEvents = 6
  MaxRestarts = 1
  Faults = {"repeat", "raise", "restart"}
CHECK_DEADLOCK FALSE
INVARIANTS
  TypeOK
  NeverAhead
  RequestsAreMirrored
  OffersAreMirrored
PROPERTIES
  DecisionIsShown
