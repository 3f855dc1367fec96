SPECIFICATION Spec
SYMMETRY Symmetry
CONSTANTS
  Request = {r1}
  UserId = {u1, u2}
  Email = {e1}
  Username = {n1, n2}
  Password = {p1}
  Role = {USER, ADMIN}
  Unset = Unset
  RefreshTTL = 2
  MaxTime = 2
  MaxTokens = 4
INVARIANTS SingleUse SuccessorContinuesSession
PROPERTY OthersKeepTheirSession
