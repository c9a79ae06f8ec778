\* Registration, sessions, roles, deletion and resets race.
SPECIFICATION AccountsSpec
CONSTANTS
  Email = {e1}
  RootEmail = root
  NoEmail = noEmail
  Key = {k1}
  Password = {p1}
  NoPassword = noPassword
  Role = {admin}
  RootRole = admin
  NoRole = noRole
  Handler = {h1, h2}
  MaxUsers = 3
  MaxResets = 3
  MaxFailures = 2
  MaxRequests = 3
CHECK_DEADLOCK FALSE
SYMMETRY HandlerSymmetry
INVARIANTS AccountsTypeOK ConfirmedInv AccountsBoundInv TokensBoundInv
PROPERTY StrandedByFailure
