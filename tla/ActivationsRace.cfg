\* Users, source and checker race on two activations; a query rejects, the loop
\* dies, or the process does.
SPECIFICATION ActivationsSpec
CONSTANTS
  User = {u1}
  NoUser = nobody
  Handler <- MCHandler
  Activation = {a1, a2}
  Request = {r1}
  Money <- MCMoney
  Frozen <- MCNone
  Cost <- MCCost
  Scale = 1
  Overlap = TRUE
  MaxRows = 0
  Deposit = 4
  MaxCodes = 1
  MaxFailures = 1
CHECK_DEADLOCK FALSE
SYMMETRY Symmetry
INVARIANTS ActivationsTypeOK CodesOnceInv ChargeInv ChargedOnceInv
