\* Postings of different users interleave, those of one user do not.
SPECIFICATION LedgerSpec
CONSTANTS
  User = {u1, u2}
  NoUser = nobody
  Handler = {h1, h2}
  Money <- MCMoney
  Frozen <- MCFrozen
  Scale = 2
  Overlap = FALSE
  MaxRows = 3
INVARIANTS ChainInv SolventInv
PROPERTY WalletSpec
