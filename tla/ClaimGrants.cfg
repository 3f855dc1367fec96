SPECIFICATION FairSpec
CONSTANTS
  Request = {r1, r2}
  UserId = {u1}
  EventId = {ev1}
  RewardId = {w1}
  ConditionIndex = {0, 1}
  ConditionLists <- MCConditionLists
  MaxDay = 1
  logins = logins
  invites = invites
  Measure <- MCMeasure
  MaxProgress = 1
  NoDoc = NoDoc
  NotANumber = NotANumber
INVARIANTS TypeOK OneClaimPerKey ClaimIsEntitled IInv RewardHasEvent
PROPERTIES ImplementsClaimLedger EveryRequestAnswered
