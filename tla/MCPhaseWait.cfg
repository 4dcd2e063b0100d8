CONSTANTS
  Members <- MCMembers
  Need <- MCNeed
  Timeout <- MCTimeout
  MaxTime <- MCMaxTime
  RpcErrors = FALSE

SPECIFICATION BothSpec

PROPERTIES
  PollRefined
  PollReturns
  InstantLockPollRefined
  InstantLockPollReturns
