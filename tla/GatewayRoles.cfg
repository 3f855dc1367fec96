SPECIFICATION Spec
CONSTANTS
  Call = {c1, c2}
  RetryCount = 0
  Refusal = {401, 404}
  UserId = {u1}
  RoleInUse = {"USER", "AUDITOR", "ADMIN"}
  RouteInUse = {"register", "login", "findAllEvents", "logout", "refresh", "update", "delete", "createEvent", "findOneEvent", "createReward", "findOneReward"}
  Unset = Unset
  AccessTTL = 2
  CallTimeout = 1
  MaxTime = 4
INVARIANTS GatewayTypeOK BoundedStaleness RemovalIsReported GatewayInv
PROPERTY NoEffectAfterAnswer
CHECK_DEADLOCK FALSE
