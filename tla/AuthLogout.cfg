SPECIFICATION Spec
CONSTANTS
  Request = {r1}
  UserId = {u1}
  Email = {e1}
  Username = {n1}
  Password = {p1}
  Role = {USER}
  Unset = Unset
  RefreshTTL = 3
  MaxTime = 2
  MaxTokens = 4
PROPERTY LogoutEndsSession
