\* A user with exactly the price rents a number and gets a code.
SPECIFICATION ActivationsSpec
CONSTANTS
  User = {u1}
  NoUser = nobody
  Handler <- MCHandler
  Activation = {a1}
  Request = {r1}
  Money <- MCMoney
  Frozen <- MCNone
  Cost <- MCOneCost
  Scale = 1
  Overlap = TRUE
  MaxRows = 0
  Deposit = 1
  MaxCodes = 1
  MaxFailures = 0
CHECK_DEADLOCK FALSE
INVARIANT DeliveredIsCharged
