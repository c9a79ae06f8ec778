\* Requests on two services interleave, overlap and die, beside a listing.
SPECIFICATION ListingsSpec
CONSTANTS
  Code = {c1, c2}
  Country = {k1, k2}
  Listing = {l1}
  MaxBusy = 1
  Amount <- MCAmount
  Handler = {h1, h2}
  MaxPrices = 2
  MaxFailures = 1
CHECK_DEADLOCK FALSE
SYMMETRY Symmetry
INVARIANTS CatalogTypeOK ShelfInv
PROPERTY ShopSpec ListedAtOnce
