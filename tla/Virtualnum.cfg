\* One order, and one upset: a bonus taken before, a second message, a failure, or a
\* second number beside the first, both of them unpaid.
SPECIFICATION VirtualnumFairSpec
CONSTANTS
  User = {u1}
  NoUser = nobody
  Handler <- MCHandler
  Activation = {a1, a2}
  Stock = {a1}
  Gateway = {g1}
  Request = {r1}
  Money <- MCMoney
  TopUp <- MCTopUp
  Frozen <- MCNone
  Cost <- MCCost
  Scale = 1
  Overlap = TRUE
  MaxRows = 0
  Deposit = 2
  MaxCodes = 2
  MaxFailures = 1
  MaxOrders = 1
  MaxPayments = 1
  MaxUpsets = 1
  Forced <- MCNone
CHECK_DEADLOCK FALSE
INVARIANTS CodesOnceInv ChargeInv
PROPERTIES ReleasedOnce CodeDelivered Settled PaymentArrives
