SPECIFICATION FairSpec
CONSTANTS
  Request = {r1, r2}
  UserId = {u1}
  Email = {e1}
  Username = {n1}
  Password = {p1, p2}
  Role = {USER, ADMIN}
  Unset = Unset
  RefreshTTL = 1
  MaxTime = 0
  MaxTokens = 2
PROPERTIES NoLostUpdate RemovedStaysRemoved EveryRequestAnswered
