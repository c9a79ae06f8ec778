\* Postings in half cents overlap and abort; the migration runs at any moment.
SPECIFICATION RepairSpec
CONSTANTS
  User = {u1}
  NoUser = nobody
  Handler = {h1, h2}
  Money <- MCMoney
  Frozen <- MCFrozen
  Scale = 1
  Units = 2
  Overlap = TRUE
  MaxRows = 3
SYMMETRY HandlerSymmetry
INVARIANTS LedgerTypeOK SnapshotInv RepairFundedInv
PROPERTIES RepairKeepsMoney RepairChains
