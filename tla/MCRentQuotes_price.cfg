SPECIFICATION Spec
CONSTANTS
  WordSize = 16
  SecondsPerMinute = 2
  RequestExtraInputs <- MCRequestExtraInputs
  OfferExtraInputs <- MCOfferExtraInputs
  Payments <- MCPayments
INVARIANTS
  InstantRentPaysDocumentedPrice
CHECK_DEADLOCK FALSE
