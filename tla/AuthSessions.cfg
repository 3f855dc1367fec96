SPECIFICATION Spec
CONSTANTS
  Request = {r1, r2}
  UserId = {u1}
  Email = {e1}
  Username = {n1}
  Password = {p1}
  Role = {USER}
  Unset = Unset
  RefreshTTL = 2
  MaxTime = 3
  MaxTokens = 4
INVARIANTS TypeOK UniqueToken SuccessorOfRevoked ExchangesBounded IInv
PROPERTIES RevokedForever ImplementsLedger
