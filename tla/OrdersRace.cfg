\* Notifications, duplicates and forced confirmations race; one request dies.
SPECIFICATION OrdersFairSpec
CONSTANTS
  User = {u1}
  NoUser = nobody
  Handler = {h1, h2}
  Money <- MCFraction
  Frozen <- MCFrozen
  Scale = 2
  Overlap = TRUE
  MaxRows = 1
  MaxOrders = 2
  MaxPayments = 2
  MaxFailures = 1
  Forced = {1}
CHECK_DEADLOCK FALSE
INVARIANTS OrdersTypeOK PaidInv OneOrderPerRowInv UndisturbedOnceInv
PROPERTIES PaidFinal PaymentCompletes
