SPECIFICATION Spec
CONSTANTS
  Request = {r1}
  UserId = {u1}
  EventId = {ev1}
  RewardId = {w1}
  ConditionIndex = {0}
  ConditionLists <- MCOneList
  MaxDay = 1
  logins = logins
  invites = invites
  Measure <- MCMeasure
  MaxProgress = 1
  NoDoc = NoDoc
  NotANumber = NotANumber
PROPERTY ClaimDuringEvent
