SPECIFICATION Spec
CONSTANTS
  WordSize = 16
  SecondsPerMinute = 2
  RequestExtraInputs <- MCRequestExtraInputs
  OfferExtraInputs <- MCOfferExtraInputs
  Payments <- MCPayments
INVARIANTS
  RulesReadBackAsPublished
  RulesSetThePrice
  RentLeavesWindowOnlyPastLastWord
CHECK_DEADLOCK FALSE
