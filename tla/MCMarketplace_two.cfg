SPECIFICATION Spec
CONSTANTS
  operator = operator
  maker = maker
  renter = renter
  Account = {operator, maker}
  NoAccount = NoAccount
  Deployer = operator
  NewRoles = {operator}
  Nonce = {n1}
  Deadlines = {0}
  RequestExtraInputs <- MCRequestExtraInputs
  OfferExtraInputs <- MCAuctionInputs
  Payments = {2}
  OfferLists <- MCShortOfferLists
  MaxRequests = 2
  MaxOffers = 2
  MaxBlock = 1
  MaxDecisions = 2
  MaxSettled = 0
  WordSize = 16
  SecondsPerMinute = 2
CHECK_DEADLOCK FALSE
INVARIANTS
  PayloadNamesOneRequest
  TokenBuysOneRequest
