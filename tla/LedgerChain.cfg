\* Two postings of one user overlap: the chain breaks.
SPECIFICATION LedgerSpec
CONSTANTS
  User = {u1}
  NoUser = nobody
  Handler = {h1, h2}
  Money <- MCMoney
  Frozen <- MCFrozen
  Scale = 2
  Overlap = TRUE
  MaxRows = 3
INVARIANT ChainInv
