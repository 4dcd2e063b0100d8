-------------------------- MODULE SplitDoubleSpend --------------------------
(***************************************************************************)
(* txn_doublespend.py on PrivoraTestFramework's split network: nodes 0/1  *)
(* and 2/3 form two halves (setup_network(True), sync_all per half).      *)
(* Node 0 funds two accounts and spends them (tx1, tx2), optionally       *)
(* mining them (--mineblock); node 2 is handed the funding transactions   *)
(* and a double spend of both, mines it, is linked to node 1, mines once  *)
(* more, and sync_blocks waits for every node to agree.                   *)
(*                                                                         *)
(* Nodes relay transactions and blocks over their links only; a node      *)
(* switches to a peer's chain only when it is strictly longer (more work);*)
(* on a switch, transactions of the old chain that do not conflict with   *)
(* the new one return to the mempool.                                      *)
(***************************************************************************)
EXTENDS Integers, Sequences, FiniteSets, SequencesExt

Nodes == 0..3
Txs == {"fundFoo", "fundBar", "tx1", "tx2", "ds"}

\* tx1 spends the foo output, tx2 the bar output, ds both of them
Parents(t) ==
  CASE t = "tx1" -> {"fundFoo"}
    [] t = "tx2" -> {"fundBar"}
    [] t = "ds"  -> {"fundFoo", "fundBar"}
    [] OTHER     -> {}

Conflict(t, u) == {t, u} \in {{"tx1", "ds"}, {"tx2", "ds"}}

\* what tx1, tx2 and the double spend pay to node 1's "from0" address
ToFrom0 == [tx1 |-> 40, tx2 |-> 20, ds |-> 990]

VARIABLES
  chain,     \* chain[n]: node n's active chain above the cached one
  mempool,   \* mempool[n]
  links,     \* peer connections, as two-element sets of nodes
  split,     \* self.is_network_split
  mineBlock, \* the --mineblock option
  pc         \* run_test's program counter

vars == <<chain, mempool, links, split, mineBlock, pc>>

ChainTxs(c) == UNION {b.txs : b \in ToSet(c)}

\* AcceptToMemoryPool: inputs known, not already there, no conflict
Acceptable(n, t) ==
  LET known == ChainTxs(chain[n]) \cup mempool[n] IN
  /\ t \notin known
  /\ Parents(t) \subseteq known
  /\ \A u \in known : ~Conflict(t, u)

-----------------------------------------------------------------------------
(* Nodes.                                                                  *)

\* a transaction reaches a linked peer
TxRelay(n, m, t) ==
  /\ {n, m} \in links
  /\ t \in mempool[m] /\ Acceptable(n, t)
  /\ mempool' = [mempool EXCEPT ![n] = @ \cup {t}]
  /\ UNCHANGED <<chain, links, split, mineBlock, pc>>

\* n switches to a linked peer's strictly longer chain (a reorg when the
\* chains diverge); old-chain transactions go back to the mempool unless
\* mined or conflicted in the new chain.
BlockRelay(n, m) ==
  /\ {n, m} \in links
  /\ Len(chain[m]) > Len(chain[n])
  /\ LET new == ChainTxs(chain[m])
         pool == (mempool[n] \cup ChainTxs(chain[n])) \ new
     IN mempool' = [mempool EXCEPT ![n] =
                      {t \in pool : \A u \in new : ~Conflict(t, u)}]
  /\ chain' = [chain EXCEPT ![n] = chain[m]]
  /\ UNCHANGED <<links, split, mineBlock, pc>>

\* the block of n's chain that holds t, counted from the tip (1 = tip)
Depth(n, t) ==
  LET c == chain[n] IN
  CHOOSE d \in 1..Len(c) : t \in c[Len(c) - d + 1].txs

\* gettransaction(t)["confirmations"] on node n: the depth of its block,
\* minus the depth of a conflicting transaction's block, or 0
Confirmations(n, t) ==
  LET mined == ChainTxs(chain[n]) IN
  CASE t \in mined                    -> Depth(n, t)
    [] \E u \in mined : Conflict(t, u) ->
         -Depth(n, CHOOSE u \in mined : Conflict(t, u))
    [] OTHER                           -> 0

\* node 1's getbalance("from0"): what its chain pays to from0 (minconf 1)
From0Balance ==
  MapThenSumSet(LAMBDA t : ToFrom0[t], ChainTxs(chain[1]) \cap DOMAIN ToFrom0)

-----------------------------------------------------------------------------
(* Harness.                                                                *)

\* nodes[n].generate(1): a block with n's whole mempool
Generate(n) ==
  /\ chain' = [chain EXCEPT ![n] = Append(@, [miner |-> n, txs |-> mempool[n]])]
  /\ mempool' = [mempool EXCEPT ![n] = {}]

Synced(ns) == \A n, m \in ns : chain[n] = chain[m]

\* sendfrom / sendrawtransaction of t on node n: an invalid transaction
\* raises JSONRPCException and ends run_test.
SendTx(n, t, next) ==
  /\ IF Acceptable(n, t)
     THEN mempool' = [mempool EXCEPT ![n] = @ \cup {t}] /\ pc' = next
     ELSE pc' = "failed" /\ UNCHANGED mempool
  /\ UNCHANGED <<chain, links, split, mineBlock>>

\* Mutant of SetupNetwork: the `if not split` guard is dropped, so nodes
\* 1 and 2 are connected as well.
SetupNetworkUnsplit ==
  /\ pc = "setup"
  /\ links' = {{0, 1}, {1, 2}, {2, 3}}
  /\ split' = TRUE
  /\ pc' = "sync_halves"
  /\ UNCHANGED <<chain, mempool, mineBlock>>

\* setup_network(split=True): connect_nodes_bi(0, 1), (2, 3);
\* is_network_split = True; sync_all
SetupNetwork ==
  /\ pc = "setup"
  /\ links' = {{0, 1}, {2, 3}}
  /\ split' = TRUE
  /\ pc' = "sync_halves"
  /\ UNCHANGED <<chain, mempool, mineBlock>>

\* sync_all: sync_blocks over each half when split, else over all nodes
SyncAll ==
  /\ pc = "sync_halves"
  /\ IF split THEN Synced({0, 1}) /\ Synced({2, 3}) ELSE Synced(Nodes)
  /\ pc' = "fund_foo"
  /\ UNCHANGED <<chain, mempool, links, split, mineBlock>>

\* node 0: sendfrom("", foo, 969); sendfrom("", bar, 29);
\* sendfrom("foo", node1, 40, 0); sendfrom("bar", node1, 20, 0)
FundFoo == pc = "fund_foo" /\ SendTx(0, "fundFoo", "fund_bar")
FundBar == pc = "fund_bar" /\ SendTx(0, "fundBar", "spend_foo")
SpendFoo == pc = "spend_foo" /\ SendTx(0, "tx1", "spend_bar")
SpendBar == pc = "spend_bar" /\ SendTx(0, "tx2", "mine0")

\* if mine_block: nodes[0].generate(1); sync_blocks(nodes[0:2])
MineOnNode0 ==
  /\ pc = "mine0"
  /\ IF mineBlock THEN Generate(0) /\ pc' = "sync01"
     ELSE pc' = "check_first" /\ UNCHANGED <<chain, mempool>>
  /\ UNCHANGED <<links, split, mineBlock>>

SyncFirstHalf ==
  /\ pc = "sync01" /\ Synced({0, 1})
  /\ pc' = "check_first"
  /\ UNCHANGED <<chain, mempool, links, split, mineBlock>>

\* gettransaction(txid1), (txid2) on node 0: one confirmation with
\* --mineblock, none without; with it, node 1's "from0" balance is
\* -(tx1["amount"] + tx2["amount"])
CheckFirstHalf ==
  /\ pc = "check_first"
  /\ IF /\ \A t \in {"tx1", "tx2"} : Confirmations(0, t) = IF mineBlock THEN 1 ELSE 0
        /\ mineBlock => From0Balance = ToFrom0.tx1 + ToFrom0.tx2
     THEN pc' = "give_foo" ELSE pc' = "failed"
  /\ UNCHANGED <<chain, mempool, links, split, mineBlock>>

\* nodes[2].sendrawtransaction of fund_foo, fund_bar and the doublespend
GiveFoo == pc = "give_foo" /\ SendTx(2, "fundFoo", "give_bar")
GiveBar == pc = "give_bar" /\ SendTx(2, "fundBar", "give_ds")
GiveDs  == pc = "give_ds" /\ SendTx(2, "ds", "mine2")

\* nodes[2].generate(1)
MineDoubleSpend ==
  /\ pc = "mine2" /\ Generate(2) /\ pc' = "connect"
  /\ UNCHANGED <<links, split, mineBlock>>

\* Mutant of Reconnect: connect_nodes(nodes[2], 2), a node to itself.
ReconnectToSelf ==
  /\ pc = "connect"
  /\ links' = links \cup {{2}}
  /\ pc' = "mine_more"
  /\ UNCHANGED <<chain, mempool, split, mineBlock>>

\* Mutant of Reconnect: connect_nodes(nodes[0], 1), a link inside a half.
ReconnectSameHalf ==
  /\ pc = "connect"
  /\ links' = links \cup {{0, 1}}
  /\ pc' = "mine_more"
  /\ UNCHANGED <<chain, mempool, split, mineBlock>>

\* connect_nodes(nodes[1], 2)
Reconnect ==
  /\ pc = "connect"
  /\ links' = links \cup {{1, 2}}
  /\ pc' = "mine_more"
  /\ UNCHANGED <<chain, mempool, split, mineBlock>>

\* nodes[2].generate(1): "mine another block to make sure we sync"
MineAnother ==
  /\ pc = "mine_more" /\ Generate(2) /\ pc' = "sync"
  /\ UNCHANGED <<links, split, mineBlock>>

\* sync_blocks(self.nodes): poll the best block hashes until they agree
SyncBlocks ==
  /\ pc = "sync"
  /\ \/ Synced(Nodes) /\ pc' = "check"
     \/ ~Synced(Nodes) /\ UNCHANGED pc
  /\ UNCHANGED <<chain, mempool, links, split, mineBlock>>

\* on node 0, the double spend has 2 confirmations and tx1, tx2 have -2
\* (conflicted); node 1's "from0" balance is just the double spend
CheckConflicts ==
  /\ pc = "check"
  /\ IF /\ Confirmations(0, "ds") = 2
        /\ \A t \in {"tx1", "tx2"} : Confirmations(0, t) = -2
        /\ From0Balance = ToFrom0.ds
     THEN pc' = "done" ELSE pc' = "failed"
  /\ UNCHANGED <<chain, mempool, links, split, mineBlock>>

Finished ==
  /\ pc \in {"done", "failed"}
  /\ UNCHANGED vars

Harness ==
  \/ SetupNetwork \/ SyncAll \/ FundFoo \/ FundBar \/ SpendFoo \/ SpendBar
  \/ MineOnNode0 \/ SyncFirstHalf \/ CheckFirstHalf \/ GiveFoo \/ GiveBar \/ GiveDs
  \/ MineDoubleSpend \/ Reconnect \/ MineAnother \/ SyncBlocks
  \/ CheckConflicts

Relaying ==
  \/ \E n, m \in Nodes, t \in Txs : TxRelay(n, m, t)
  \/ \E n, m \in Nodes : BlockRelay(n, m)

\* the nodes start from the same cached chain, unconnected
Init ==
  /\ chain = [n \in Nodes |-> <<>>]
  /\ mempool = [n \in Nodes |-> {}]
  /\ links = {}
  /\ split = FALSE
  /\ mineBlock \in BOOLEAN
  /\ pc = "setup"

Next == Harness \/ Relaying \/ Finished

\* The harness and the nodes' message handlers both keep running.
Spec == Init /\ [][Next]_vars /\ WF_vars(Harness) /\ WF_vars(Relaying)

-----------------------------------------------------------------------------
(* Properties.                                                             *)

TypeOK ==
  /\ \A n \in Nodes : mempool[n] \subseteq Txs
  /\ \A n \in Nodes : \A k \in 1..Len(chain[n]) :
       chain[n][k].miner \in Nodes /\ chain[n][k].txs \subseteq Txs
  /\ links \subseteq {{n, m} : n, m \in Nodes} /\ \A l \in links : Cardinality(l) = 2
  /\ split \in BOOLEAN /\ mineBlock \in BOOLEAN

\* The transactions a node has, in its mempool or its chain.
Seen(n) == mempool[n] \cup ChainTxs(chain[n])

\* The two halves meet only after the double spend is mined: no node of
\* node 2's half sees node 0's spends tx1 or tx2, and no node of node 0's
\* half sees the double spend, before node 2 has mined it.  Only then is
\* the join at line 108 a reorganisation between two conflicting chains,
\* which is what the test is about.
SpendsMeetAfterDoubleSpendMined ==
  "ds" \notin ChainTxs(chain[2]) =>
    /\ \A n \in {2, 3} : {"tx1", "tx2"} \cap Seen(n) = {}
    /\ \A n \in {0, 1} : "ds" \notin Seen(n)

\* Joining the halves converges: run_test gets past sync_blocks(self.nodes)
\* and its assertions.
JoinConverges == <>(pc = "done")

=============================================================================
