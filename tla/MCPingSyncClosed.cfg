CONSTANTS
  SuccessCount <- MCSuccessCount
  Extra <- MCExtra
  Slack <- MCSlack
  Timeout <- MCTimeout
SPECIFICATION Spec
INVARIANT ExtraRequestsSent
