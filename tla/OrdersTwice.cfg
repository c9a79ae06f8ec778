\* A notification is repeated while the first is being served.
SPECIFICATION OrdersSpec
CONSTANTS
  User = {u1}
  NoUser = nobody
  Handler = {h1, h2}
  Money <- MCExact
  Frozen <- MCNothingFrozen
  Scale = 2
  Overlap = TRUE
  MaxRows = 2
  MaxOrders = 1
  MaxPayments = 1
  MaxFailures = 0
  Forced <- MCNone
CHECK_DEADLOCK FALSE
INVARIANT CreditedOnceInv
