\* A password is reset while another request holds the user it has read.
SPECIFICATION AccountsSpec
CONSTANTS
  Email = {e1}
  RootEmail = root
  NoEmail = noEmail
  Key = {}
  Password = {p1, p2}
  NoPassword = noPassword
  Role = {admin}
  RootRole = admin
  NoRole = noRole
  Handler = {h1, h2}
  MaxUsers = 3
  MaxResets = 3
  MaxFailures = 0
  MaxRequests = 4
CHECK_DEADLOCK FALSE
PROPERTY PasswordStays
