SPECIFICATION RpcFairSpec
CONSTANTS
  Call = {c1, c2}
  RetryCount = 1
  Refusal = {404}
INVARIANTS RpcTypeOK RpcInv DefiniteAnswer
PROPERTIES AnsweredOnce EveryCallEnds ImplementsContract
CHECK_DEADLOCK FALSE
