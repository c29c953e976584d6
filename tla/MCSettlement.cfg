SPECIFICATION FairSettlement
CONSTANTS
  operator = operator
  maker = maker
  Account = {operator, maker}
  NoAccount = NoAccount
  Deployer = operator
  NewRoles = {}
  Nonce = {n1}
  Deadlines = {0}
  RequestExtraInputs <- MCRequestExtraInputs
  OfferExtraInputs <- MCOfferExtraInputs
  Payments = {2}
  OfferLists <- MCOfferLists
  MaxRequests = 1
  MaxOffers = 2
  MaxBlock = 1
  MaxDecisions = 2
  MaxSettled = 0
  WordSize = 16
  SecondsPerMinute = 2
  Operator = operator
  MaxRepeats = 2
CHECK_DEADLOCK FALSE
INVARIANTS
  TokensAreWorthTheirMoney
PROPERTIES
  DecisionsFreeTheMoney
