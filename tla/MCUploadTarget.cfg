CONSTANTS
  SuccessCount <- MCSuccessCount
  DailyBuffer <- MCDailyBuffer
  NewCount <- MCNewCount
  WhiteCount <- MCWhiteCount
  RestartLimit <- MCRestartLimit

SPECIFICATION Spec

INVARIANT TypeOK
INVARIANT AssertionsHold
