------------------------------ MODULE WalletHD ------------------------------
(***************************************************************************)
(* wallet-hd.py: node 1 runs an HD wallet with -keypool=0.  It imports a  *)
(* non-HD key of node 0 and backs its wallet up; node 0 then pays one     *)
(* coin to each of NumAdds freshly derived HD addresses of node 1, and to *)
(* the non-HD one.  Node 1 is stopped, loses its blocks and chainstate,   *)
(* gets the backup as wallet.dat and is restarted; it derives the same    *)
(* addresses again, is reconnected and synced, and finally is restarted   *)
(* with -rescan, unconnected, and must see every coin.                    *)
(*                                                                         *)
(* Node 1 connects node 0's blocks one by one while the two are         *)
(* connected.  Its wallet records a payment when it connects the block   *)
(* that holds it and already has the key (no lookahead: -keypool=0), or  *)
(* when a -rescan goes over its chain.  getbalance counts the recorded    *)
(* payments whose block node 1 has.  Address 0 is the non-HD address,     *)
(* address k the k-th HD address, m/44'/1'/0'/0/k.                         *)
(***************************************************************************)
EXTENDS Integers, Sequences, FiniteSets, SequencesExt

CONSTANTS
  NumAdds,      \* num_hd_adds (300 in the test)
  MatureBlocks  \* the blocks of generate(101)

ASSUME NumAdds \in Nat \ {0} /\ MatureBlocks \in Nat \ {0}

Addrs == 0..NumAdds

VARIABLES
  chain0,   \* node 0's chain: each block is the set of addresses it pays
  mem0,     \* payments in node 0's mempool
  mem1,     \* payments in node 1's mempool
  h1,       \* the prefix of chain0 node 1 has connected
  linked,   \* nodes 0 and 1 are connected
  keys,     \* addresses node 1's wallet has keys for
  hdCount,  \* HD addresses node 1 has derived (the chain counter)
  wtx,      \* payments node 1's wallet has recorded
  backup,   \* hd.bak: the wallet as backupwallet saved it
  pc, i,    \* run_test's program counter and loop index
  failed    \* the AssertionError that ended run_test, or "none"

nodeVars == <<chain0, mem0, mem1, h1, linked, keys, hdCount, wtx>>
vars == <<nodeVars, backup, pc, i, failed>>

Paid(c) == UNION ToSet(c)

Chain1 == SubSeq(chain0, 1, h1)

\* getbalance() on node 1
Balance == Cardinality(wtx \cap Paid(Chain1))

-----------------------------------------------------------------------------
(* Node 1.                                                                 *)

\* node 1 accepts a payment node 0 relays into its mempool; its wallet
\* records it if it has the key
TxRelay(a) ==
  /\ linked /\ a \in mem0 \ mem1 /\ a \notin Paid(Chain1)
  /\ mem1' = mem1 \cup {a}
  /\ wtx' = wtx \cup ({a} \cap keys)
  /\ UNCHANGED <<chain0, mem0, h1, linked, keys, hdCount, backup, pc, i, failed>>

\* node 1 connects node 0's next block, drops its payments from the
\* mempool, and its wallet records the payments to keys it has
BlockRelay ==
  /\ linked /\ h1 < Len(chain0)
  /\ h1' = h1 + 1
  /\ mem1' = mem1 \ chain0[h1 + 1]
  /\ wtx' = wtx \cup (chain0[h1 + 1] \cap keys)
  /\ UNCHANGED <<chain0, mem0, linked, keys, hdCount, backup, pc, i, failed>>

-----------------------------------------------------------------------------
(* Harness.                                                                *)

\* nodes[0].generate(1)
Generate == chain0' = Append(chain0, mem0) /\ mem0' = {}

\* getnewaddress on node 1: the next HD key; validateaddress must show
\* hdkeypath m/44'/1'/0'/0/(i+1), i.e. the counter is the loop's
DeriveNext ==
  /\ hdCount' = hdCount + 1 /\ keys' = keys \cup {hdCount + 1}
  /\ IF hdCount + 1 = i + 1 THEN UNCHANGED failed ELSE failed' = "assert"

\* node 0 getnewaddress and dumpprivkey (the first call raises and gives
\* the one-time code, the second succeeds); node 1 importprivkey; then
\* backupwallet(hd.bak)
ImportAndBackup ==
  /\ pc = "import"
  /\ keys' = keys \cup {0}
  /\ backup' = [keys |-> keys \cup {0}, hd |-> hdCount, wtx |-> wtx]
  /\ pc' = "mine"
  /\ UNCHANGED <<chain0, mem0, mem1, h1, linked, hdCount, wtx, i, failed>>

\* nodes[0].generate(101), one block at a time
MineMature ==
  /\ pc = "mine"
  /\ Generate
  /\ IF Len(chain0) + 1 = MatureBlocks THEN pc' = "derive" ELSE UNCHANGED pc
  /\ UNCHANGED <<mem1, h1, linked, keys, hdCount, wtx, backup, i, failed>>

\* Mutant of DeriveAndPay: for i in range(num_hd_adds + 1).
DeriveAndPayOneMore ==
  /\ pc = "derive" /\ i <= NumAdds
  /\ DeriveNext
  /\ mem0' = mem0 \cup {i + 1} /\ pc' = "gen"
  /\ UNCHANGED <<chain0, mem1, h1, linked, wtx, backup, i>>

\* for i in range(num_hd_adds): derive, validate,
\* nodes[0].sendtoaddress(hd_add, 1)
DeriveAndPay ==
  /\ pc = "derive" /\ i < NumAdds
  /\ DeriveNext
  /\ mem0' = mem0 \cup {i + 1} /\ pc' = "gen"
  /\ UNCHANGED <<chain0, mem1, h1, linked, wtx, backup, i>>

GenerateOne ==
  /\ pc = "gen"
  /\ Generate
  /\ pc' = "derive" /\ i' = i + 1
  /\ UNCHANGED <<mem1, h1, linked, keys, hdCount, wtx, backup, failed>>

\* sendtoaddress(non_hd_add, 1); generate(1)
PayNonHd ==
  /\ pc = "derive" /\ i = NumAdds
  /\ chain0' = Append(chain0, mem0 \cup {0}) /\ mem0' = {}
  /\ pc' = "sync1"
  /\ UNCHANGED <<mem1, h1, linked, keys, hdCount, wtx, backup, i, failed>>

\* sync_all: sync_blocks, then sync_mempools
SyncNext == [sync1 |-> "bal1", sync2 |-> "rescan"]
SyncAll ==
  /\ pc \in DOMAIN SyncNext
  /\ h1 = Len(chain0) /\ mem1 = mem0
  /\ pc' = SyncNext[pc]
  /\ UNCHANGED <<nodeVars, backup, i, failed>>

\* assert_equal(nodes[1].getbalance(), num_hd_adds + 1)
BalNext == [bal1 |-> "restore", bal2 |-> "done"]
CheckBalance ==
  /\ pc \in DOMAIN BalNext
  /\ IF Balance = NumAdds + 1 THEN pc' = BalNext[pc] /\ UNCHANGED failed
     ELSE failed' = "assert" /\ UNCHANGED pc
  /\ UNCHANGED <<nodeVars, backup, i>>

\* stop_node(1); rmtree blocks and chainstate; copy hd.bak to wallet.dat;
\* start_node(1): node 1 runs the restored wallet on an empty chain,
\* not connected to node 0
Restore ==
  /\ pc = "restore"
  /\ h1' = 0 /\ mem1' = {}
  /\ keys' = backup.keys /\ hdCount' = backup.hd /\ wtx' = backup.wtx
  /\ linked' = FALSE
  /\ pc' = "rederive" /\ i' = 0
  /\ UNCHANGED <<chain0, mem0, backup, failed>>

\* for _ in range(num_hd_adds): getnewaddress, validateaddress
Rederive ==
  /\ pc = "rederive" /\ i < NumAdds
  /\ DeriveNext
  /\ i' = i + 1
  /\ UNCHANGED <<chain0, mem0, mem1, h1, linked, wtx, backup, pc>>

\* Mutant of Reconnect: the sync_all after connect_nodes_bi is left out.
ReconnectNoSync ==
  /\ pc = "rederive" /\ i = NumAdds
  /\ IF hdCount = NumAdds THEN pc' = "rescan" /\ UNCHANGED failed
     ELSE failed' = "assert" /\ UNCHANGED pc
  /\ linked' = TRUE
  /\ UNCHANGED <<chain0, mem0, mem1, h1, keys, hdCount, wtx, backup, i>>

\* assert_equal(hd_add, hd_add_2); connect_nodes_bi(nodes, 0, 1)
Reconnect ==
  /\ pc = "rederive" /\ i = NumAdds
  /\ IF hdCount = NumAdds THEN pc' = "sync2" /\ UNCHANGED failed
     ELSE failed' = "assert" /\ UNCHANGED pc
  /\ linked' = TRUE
  /\ UNCHANGED <<chain0, mem0, mem1, h1, keys, hdCount, wtx, backup, i>>

\* stop_node(1); start_node(1, ... + ['-rescan']): the rescan records
\* every payment to its keys in the chain it has; no reconnect
RestartRescan ==
  /\ pc = "rescan"
  /\ wtx' = wtx \cup (Paid(Chain1) \cap keys)
  /\ linked' = FALSE
  /\ pc' = "bal2"
  /\ UNCHANGED <<chain0, mem0, mem1, h1, keys, hdCount, backup, i, failed>>

Finished ==
  /\ pc = "done" \/ failed # "none"
  /\ UNCHANGED vars

Harness ==
  \/ ImportAndBackup \/ MineMature \/ DeriveAndPay \/ GenerateOne
  \/ PayNonHd \/ SyncAll \/ CheckBalance \/ Restore \/ Rederive
  \/ Reconnect \/ RestartRescan

\* setup_network: both nodes started and connected; node 1 has a fresh
\* HD wallet (getwalletinfo shows its 40-digit hdmasterkeyid)
Init ==
  /\ chain0 = <<>> /\ mem0 = {} /\ mem1 = {} /\ h1 = 0
  /\ linked = TRUE
  /\ keys = {} /\ hdCount = 0 /\ wtx = {}
  /\ backup = [keys |-> {}, hd |-> 0, wtx |-> {}]
  /\ pc = "import" /\ i = 0 /\ failed = "none"

Next ==
  \/ Harness /\ failed = "none"
  \/ \E a \in Addrs : TxRelay(a)
  \/ BlockRelay
  \/ Finished

Spec == Init /\ [][Next]_vars

-----------------------------------------------------------------------------
(* Properties.                                                             *)

\* The wallet, the chains and the mempools hold only the test's addresses,
\* and node 1 derives no more HD keys than the loop asks for.
TypeOK ==
  /\ chain0 \in Seq(SUBSET Addrs) /\ mem0 \cup mem1 \subseteq Addrs
  /\ h1 \in 0..Len(chain0) /\ linked \in BOOLEAN
  /\ keys \subseteq Addrs /\ wtx \subseteq Addrs
  /\ hdCount \in 0..NumAdds
  /\ failed \in {"none", "assert"}

\* Every assertion of run_test holds, however far node 1 lags behind
\* node 0 at each step: the derivation after the restore is the one
\* before it, and the -rescan restart, with no reconnect, finds all
\* num_hd_adds + 1 coins in the blocks node 1 had synced before it.
AssertionsHold == failed = "none"

=============================================================================
