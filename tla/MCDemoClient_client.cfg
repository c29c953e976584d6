SPECIFICATION ClientSpec
CONSTANTS
  operator = operator
  maker = maker
  renter = renter
  Account = {operator, maker, renter}
  NoAccount = NoAccount
  Deployer = operator
  NewRoles = {}
  Nonce = {n1}
  Deadlines = {0}
  RequestExtraInputs <- MCRequestExtraInputs
  OfferExtraInputs <- MCOfferExtraInputs
  Payments = {2}
  OfferLists <- MCOfferLists
  MaxRequests = 1
  MaxOffers = 2
  MaxBlock = 1
  MaxDecisions = 1
  MaxSettled = 0
  WordSize = 16
  SecondsPerMinute = 2
  NodeAccounts <- MCNodeAccounts
  TestRenter <- MCTestRenter
  OtherAccounts = {operator}
  RequestForms <- MCRequestForms
  OfferForms <- MCOfferForms
  ListForms <- MCListForms
  TestRequest <- MCTestRequest
  TestOffer <- MCTestOffer
  MaxSessions = 2
CHECK_DEADLOCK FALSE
INVARIANTS
  ClientTypeOK
  PaidOffersCanBeRead
  TokensStayUntilOpened
  
