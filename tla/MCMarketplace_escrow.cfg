SPECIFICATION Spec
CONSTANTS
  operator = operator
  maker = maker
  renter = renter
  Account = {operator, maker, renter}
  NoAccount = NoAccount
  Deployer = operator
  NewRoles = {}
  Nonce = {n1}
  Deadlines = {0}
  RequestExtraInputs <- MCRequestExtraInputs
  OfferExtraInputs <- MCOfferExtraInputs
  Payments = {1, 2}
  OfferLists <- MCOfferLists
  MaxRequests = 1
  MaxOffers = 2
  MaxBlock = 1
  MaxDecisions = 2
  MaxSettled = 1
  WordSize = 16
  SecondsPerMinute = 2
CHECK_DEADLOCK FALSE
SYMMETRY Symmetry
INVARIANTS
  TypeOK
  Solvent
  UnresolvedOffersWait
  RequestResolvedAsAWhole
  RightPartyPaid
  InstantRentIsExclusive
  PayloadCarriesKeys
PROPERTIES
  BiddingEnds
  VerdictIsFinal
  ImplementsEscrow
