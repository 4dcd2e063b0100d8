--------------------------- MODULE MCPhaseSync ---------------------------
(* Three masternodes forming the quorum; llmq_5_60's regtest parameters  *)
(* (24-block window, 2 blocks per phase, mining window offsets 10..18).  *)
(* mine_quorum is entered at offset 22 (skip 2) or at offset 0 (skip a   *)
(* whole window, the case skip_count == 24).                             *)
EXTENDS PhaseSync

MCK == 3
MCThreshold == 2
MCWindowSize == 24
MCPhaseBlocks == 2
MCMiningStart == 10
MCMiningEnd == 18
MCInitHeights == {22, 24}
MCPollLimit == 2
MCMaxLoops == 8

=============================================================================
