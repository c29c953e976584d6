SPECIFICATION ClientSpec
CONSTANTS
  operator = operator
  maker = maker
  renter = maker
  Account = {operator, maker}
  NoAccount = NoAccount
  Deployer = operator
  NewRoles = {}
  Nonce = {n1}
  Deadlines = {0}
  RequestExtraInputs <- MCRequestExtraInputs
  OfferExtraInputs <- MCTestOfferExtras
  Payments = {2}
  OfferLists <- MCOfferLists
  MaxRequests = 2
  MaxOffers = 4
  MaxBlock = 0
  MaxDecisions = 1
  MaxSettled = 1
  WordSize = 16
  SecondsPerMinute = 2
  NodeAccounts <- MCOneAccount
  TestRenter <- MCSameRenter
  OtherAccounts = {operator}
  RequestForms = {}
  OfferForms = {}
  ListForms <- MCFirstOffer
  TestRequest <- MCTestRequest
  TestOffer <- MCTestOffer
  MaxSessions = 1
CONSTRAINT FailedEntriesEnd
CHECK_DEADLOCK FALSE
INVARIANTS
  TestDecisionIsProper
