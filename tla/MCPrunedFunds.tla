--------------------------- MODULE MCPrunedFunds ---------------------------
(***************************************************************************)
(* The scripted wallet and mempool tests, side by side: importprunedfunds *)
(* (PrunedFunds), wallet-hd (WalletHD, its variables prefixed wh) and     *)
(* mempool_spendcoinbase (SpendCoinbase, prefixed sc).  The tests share   *)
(* nothing; each step is a step of one of them.                           *)
(*                                                                         *)
(* Eight blocks stand for the 101 of generate(101) in importprunedfunds:  *)
(* node 1 may be any number of them behind node 0 while it mines and at   *)
(* the first sync_all.  wallet-hd derives three HD addresses for its 300, *)
(* after three blocks for its 101: node 1 may lag behind node 0 by any    *)
(* number of blocks and relayed payments at each sync and at the         *)
(* -rescan restart.  mempool_spendcoinbase runs with the real maturity   *)
(* of 100 blocks and the real 200-block chain.                           *)
(***************************************************************************)
EXTENDS PrunedFunds

MCMatureBlocks == 8

VARIABLES
  whChain0, whMem0, whMem1, whH1, whLinked, whKeys, whHdCount, whWtx,
  whBackup, whPc, whI, whFailed

whVars == <<whChain0, whMem0, whMem1, whH1, whLinked, whKeys, whHdCount,
            whWtx, whBackup, whPc, whI, whFailed>>

WH == INSTANCE WalletHD
        WITH NumAdds <- 3, MatureBlocks <- 3,
             chain0 <- whChain0, mem0 <- whMem0, mem1 <- whMem1, h1 <- whH1,
             linked <- whLinked, keys <- whKeys, hdCount <- whHdCount,
             wtx <- whWtx, backup <- whBackup, pc <- whPc, i <- whI,
             failed <- whFailed

VARIABLES scHeight, scMempool, scPc, scFailed

scVars == <<scHeight, scMempool, scPc, scFailed>>

SC == INSTANCE SpendCoinbase
        WITH Maturity <- 100, height <- scHeight, mempool <- scMempool,
             pc <- scPc, failed <- scFailed

BothInit == Init /\ WH!Init /\ SC!Init

BothNext ==
  \/ Next /\ UNCHANGED <<whVars, scVars>>
  \/ WH!Next /\ UNCHANGED <<vars, scVars>>
  \/ SC!Next /\ UNCHANGED <<vars, whVars>>

BothSpec == BothInit /\ [][BothNext]_<<vars, whVars, scVars>>

\* wallet-hd's variables keep their types.
WalletHDTypeOK == WH!TypeOK

\* Every assertion of wallet-hd holds, however far node 1 lags behind
\* node 0: the re-derivation after the restore gives the addresses of
\* before, and the -rescan restart, which does not reconnect, finds all
\* num_hd_adds + 1 coins in the blocks synced before it.
WalletHDAssertionsHold == WH!AssertionsHold

\* Every assertion of mempool_spendcoinbase holds: spends of the coinbases
\* of blocks 101 and 102 meet the maturity rule exactly at its boundary.
SpendCoinbaseAssertionsHold == SC!AssertionsHold

=============================================================================
