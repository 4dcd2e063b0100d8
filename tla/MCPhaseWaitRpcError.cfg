CONSTANTS
  Members <- MCMembers
  Need <- MCNeed
  Timeout <- MCTimeout
  MaxTime <- MCMaxTime
  RpcErrors = TRUE

SPECIFICATION BothSafety

PROPERTIES
  PollRefined
