SPECIFICATION Spec
CONSTANTS
  MaxOffers = 2
  Account = {a, b}
  NoAccount = NoAccount
  Amount = {1, 2}
SYMMETRY Symmetry
CHECK_DEADLOCK FALSE
INVARIANTS
  Solvent
