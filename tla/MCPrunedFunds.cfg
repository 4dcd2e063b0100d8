CONSTANTS
  MatureBlocks <- MCMatureBlocks

SPECIFICATION BothSpec

INVARIANT TypeOK
INVARIANT AssertionsHold
INVARIANT WalletHDTypeOK
INVARIANT WalletHDAssertionsHold
INVARIANT SpendCoinbaseAssertionsHold
