CONSTANTS
  K <- MCK
  Threshold <- MCThreshold
  WindowSize <- MCWindowSize
  PhaseBlocks <- MCPhaseBlocks
  MiningStart <- MCMiningStart
  MiningEnd <- MCMiningEnd
  InitHeights <- MCInitHeights
  PollLimit <- MCPollLimit
  MaxLoops <- MCMaxLoops

SPECIFICATION LiveSpec

INVARIANT TypeOK
INVARIANT NoPrematurePhaseAdvance
PROPERTY PhasesInOrder
PROPERTY MineQuorumReturns
