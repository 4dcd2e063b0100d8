CONSTANTS
  K <- MCK
  Threshold <- MCThreshold
  WindowSize <- MCWindowSize
  PhaseBlocks <- MCPhaseBlocks
  MiningStart <- MCMiningStart
  MiningEnd <- MCMiningEnd
  InitHeights <- MCInitHeights
  PollLimit <- MCPollLimit
  MaxLoops <- MCMaxLoops
SPECIFICATION Spec
PROPERTY ChecksSeeDrivenSession
