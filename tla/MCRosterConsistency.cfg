CONSTANTS
  NumMn <- MCNumMn
  ReplaceCount <- MCReplaceCount
  SpendCount <- MCSpendCount
  PaymentRounds <- MCPaymentRounds
  SyncTimeout <- MCSyncTimeout

SPECIFICATION Spec

INVARIANT TypeOK
INVARIANT MnlistAssertionsHold
PROPERTY MinerAtTip
INVARIANT InvalidPaymentsRejected
