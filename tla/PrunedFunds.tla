---------------------------- MODULE PrunedFunds ----------------------------
(***************************************************************************)
(* importprunedfunds.py: node 0 mines and pays three of its own addresses *)
(* (tx1 to a1, tx2 to a2, tx3 to a3), one block each; node 1, which      *)
(* follows node 0 over one connection, is given the raw transactions and *)
(* their merkle proofs: importprunedfunds of tx1 must fail (no address), *)
(* a2 is imported watch-only and a3 by its key (both without rescan)     *)
(* before their transactions; then removeprunedfunds takes them out.     *)
(*                                                                         *)
(* The nodes are the external collaborator (spec.md 1): node 1 connects  *)
(* node 0's blocks and takes in its mempool transactions asynchronously, *)
(* and its wallet keeps any transaction it sees that pays a key or a     *)
(* watched address of it (SyncTransaction).  importprunedfunds accepts a *)
(* transaction only if the proof's block is in node 1's active chain and *)
(* the transaction is the wallet's.  Amounts are in 0.025 units.          *)
(***************************************************************************)
EXTENDS Integers, Sequences, FiniteSets, SequencesExt, FiniteSetsExt

CONSTANT MatureBlocks  \* the generate(101) of the coinbase maturity
ASSUME MatureBlocks \in Nat \ {0}

Order == <<"tx1", "tx2", "tx3">>
Txs   == ToSet(Order)
Addrs == {"a1", "a2", "a3"}

\* sendtoaddress(address1, 0.1), (address2, 0.05), (address3, 0.025);
\* the change of each goes back to node 0
Pays == [tx1 |-> [a |-> "a1", v |-> 4],
         tx2 |-> [a |-> "a2", v |-> 2],
         tx3 |-> [a |-> "a3", v |-> 1]]

VARIABLES
  chain0, chain1, \* the nodes' active chains: sequences of sets of txs
  mem0, mem1,     \* their mempools
  keys,           \* addresses node 1 holds the private key of
  watch,          \* addresses node 1 watches (importaddress)
  label,          \* label[a]: node 1's account label of address a
  wallet,         \* transactions in node 1's wallet
  pc,             \* run_test's program counter
  failed          \* why run_test raised, or "none"

nodeVars == <<chain0, chain1, mem0, mem1, wallet>>
vars == <<chain0, chain1, mem0, mem1, keys, watch, label, wallet, pc, failed>>

ChainTxs(c) == UNION ToSet(c)

\* CWallet::IsMine for the output to node 0's chosen address
IsMine(t) == Pays[t].a \in keys \cup watch

\* getbalance(account, 0, include_watchonly): outputs of wallet
\* transactions to addresses of the account ("*": any), watch-only ones
\* only when asked for
Balance(account, withWatch) ==
  LET counted(t) ==
        /\ Pays[t].a \in keys \/ (withWatch /\ Pays[t].a \in watch)
        /\ account = "*" \/ label[Pays[t].a] = account
  IN SumSet({Pays[t].v : t \in {u \in wallet : counted(u)}})

-----------------------------------------------------------------------------
(* Node 1.                                                                 *)

\* Mutant of BlockRelay: the block's transactions stay in the mempool.
BlockRelayKeepsMempool ==
  /\ Len(chain1) < Len(chain0)
  /\ LET b == chain0[Len(chain1) + 1] IN
     /\ chain1' = Append(chain1, b)
     /\ mem1' = mem1
     /\ wallet' = wallet \cup {t \in b : IsMine(t)}
  /\ UNCHANGED <<chain0, mem0, keys, watch, label, pc, failed>>

\* node 1 connects node 0's next block; its wallet keeps the block's
\* transactions that are its own
BlockRelay ==
  /\ Len(chain1) < Len(chain0)
  /\ LET b == chain0[Len(chain1) + 1] IN
     /\ chain1' = Append(chain1, b)
     /\ mem1' = mem1 \ b
     /\ wallet' = wallet \cup {t \in b : IsMine(t)}
  /\ UNCHANGED <<chain0, mem0, keys, watch, label, pc, failed>>

\* a transaction of node 0's mempool reaches node 1's
TxRelay(t) ==
  /\ t \in mem0 \ (mem1 \cup ChainTxs(chain1))
  /\ mem1' = mem1 \cup {t}
  /\ wallet' = IF IsMine(t) THEN wallet \cup {t} ELSE wallet
  /\ UNCHANGED <<chain0, chain1, mem0, keys, watch, label, pc, failed>>

-----------------------------------------------------------------------------
(* Harness.                                                                *)

\* importprunedfunds(rawtx, proof) on node 1: "Block not found in chain"
\* unless the proof's block is in its active chain; "No addresses in
\* wallet correspond to included transaction" unless the wallet's
ImportOutcome(t) ==
  IF t \notin ChainTxs(chain1) THEN "notfound"
  ELSE IF IsMine(t) THEN "ok" ELSE "noaddr"

\* nodes[0].generate(101): the blocks are mined, connected and announced
\* one by one, so node 1 may be connecting the first while node 0 mines
\* the next
MineMature ==
  /\ pc = "mine"
  /\ chain0' = Append(chain0, {})
  /\ pc' = IF Len(chain0) + 1 = MatureBlocks THEN "sync1" ELSE "mine"
  /\ UNCHANGED <<chain1, mem0, mem1, keys, watch, label, wallet, failed>>

\* sync_all: sync_blocks(self.nodes); sync_mempools(self.nodes)
SyncNext == [sync1 |-> "addrs", sync2 |-> "count", sync3 |-> "imp1"]
SyncAll ==
  /\ pc \in DOMAIN SyncNext
  /\ chain1 = chain0 /\ mem1 = mem0
  /\ pc' = SyncNext[pc]
  /\ UNCHANGED <<nodeVars, keys, watch, label, failed>>

\* getnewaddress x3, dumpprivkey (OTAC), validateaddress on node 0
NewAddresses ==
  /\ pc = "addrs" /\ pc' = "sync2"
  /\ UNCHANGED <<nodeVars, keys, watch, label, failed>>

\* txnidK = nodes[0].sendtoaddress(addressK, amount), K = 1, 2, 3
SendToAddress ==
  /\ pc = "send"
  /\ mem0' = mem0 \cup {Order[Len(chain0) - MatureBlocks + 1]} /\ pc' = "gen"
  /\ UNCHANGED <<chain0, chain1, mem1, keys, watch, label, wallet, failed>>

\* Mutant of GenerateProof: no sync_all after the third payment.
GenerateProofNoSync ==
  /\ pc = "gen"
  /\ chain0' = Append(chain0, mem0) /\ mem0' = {}
  /\ pc' = IF Len(chain0) = MatureBlocks + Len(Order) - 1 THEN "imp1" ELSE "send"
  /\ UNCHANGED <<chain1, mem1, keys, watch, label, wallet, failed>>

\* nodes[0].generate(1); gettransaction(txnidK)['hex'];
\* gettxoutproof([txnidK])
GenerateProof ==
  /\ pc = "gen"
  /\ chain0' = Append(chain0, mem0) /\ mem0' = {}
  /\ pc' = IF Len(chain0) = MatureBlocks + Len(Order) - 1 THEN "sync3" ELSE "send"
  /\ UNCHANGED <<chain1, mem1, keys, watch, label, wallet, failed>>

\* importaddress(address2, "add2", False)
ImportAddress ==
  /\ pc = "impaddr2"
  /\ watch' = watch \cup {"a2"} /\ label' = [label EXCEPT !["a2"] = "add2"]
  /\ pc' = "imp2"
  /\ UNCHANGED <<nodeVars, keys, failed>>

\* importprivkey(address3_privkey, "add3", False)
ImportPrivKey ==
  /\ pc = "impkey3"
  /\ keys' = keys \cup {"a3"} /\ label' = [label EXCEPT !["a3"] = "add3"]
  /\ pc' = "imp3"
  /\ UNCHANGED <<nodeVars, watch, failed>>

\* importprunedfunds(rawtxn2, proof2) and (rawtxn3, proof3): an error
\* is a JSONRPCException out of run_test
ImportNext == [imp2 |-> <<"tx2", "bal2">>, imp3 |-> <<"tx3", "bal3">>]
ImportPrunedFunds ==
  /\ pc \in DOMAIN ImportNext
  /\ LET t == ImportNext[pc][1] IN
     IF ImportOutcome(t) = "ok"
     THEN wallet' = wallet \cup {t} /\ pc' = ImportNext[pc][2]
          /\ UNCHANGED failed
     ELSE failed' = "rpc" /\ UNCHANGED <<wallet, pc>>
  /\ UNCHANGED <<chain0, chain1, mem0, mem1, keys, watch, label>>

\* removeprunedfunds(txnid2), (txnid3): -8 "Transaction does not exist in
\* wallet." unless it does
RemoveNext == [rm2 |-> <<"tx2", "bal4">>, rm3 |-> <<"tx3", "bal5">>]
RemovePrunedFunds ==
  /\ pc \in DOMAIN RemoveNext
  /\ LET t == RemoveNext[pc][1] IN
     IF t \in wallet
     THEN wallet' = wallet \ {t} /\ pc' = RemoveNext[pc][2]
          /\ UNCHANGED failed
     ELSE failed' = "rpc" /\ UNCHANGED <<wallet, pc>>
  /\ UNCHANGED <<chain0, chain1, mem0, mem1, keys, watch, label>>

\* the assert_equal / assert_raises_jsonrpc calls, and where each leads
Asserted(p) ==
  CASE p = "count" ->   \* getblockcount; validateaddress before import
         Len(chain1) = MatureBlocks /\ (keys \cup watch) \cap Addrs = {}
    [] p = "imp1" ->    \* importprunedfunds(rawtxn1) raises "No addresses"
         ImportOutcome("tx1") = "noaddr" /\ Balance("", TRUE) = 0
    [] p = "bal2" -> Balance("add2", TRUE) = 2
    [] p = "bal3" ->    \* balances; validateaddress after import
         /\ Balance("add3", FALSE) = 1 /\ Balance("*", TRUE) = 3
         /\ "a1" \notin keys \cup watch
         /\ "a2" \in watch \ keys /\ "a3" \in keys \ watch
    [] p = "rm1" ->     \* removeprunedfunds(txnid1) raises -8
         "tx1" \notin wallet /\ Balance("*", TRUE) = 3
    [] p = "bal4" -> Balance("*", TRUE) = 1
    [] p = "bal5" -> Balance("*", TRUE) = 0

AssertNext == [count |-> "send", imp1 |-> "impaddr2", bal2 |-> "impkey3",
               bal3 |-> "rm1", rm1 |-> "rm2", bal4 |-> "rm3", bal5 |-> "done"]
CheckAsserted ==
  /\ pc \in DOMAIN AssertNext
  /\ IF Asserted(pc) THEN pc' = AssertNext[pc] /\ UNCHANGED failed
     ELSE failed' = "assert" /\ UNCHANGED pc
  /\ UNCHANGED <<nodeVars, keys, watch, label>>

Finished ==
  /\ pc = "done" \/ failed # "none"
  /\ UNCHANGED vars

Harness ==
  \/ MineMature \/ SyncAll \/ NewAddresses \/ SendToAddress
  \/ GenerateProof \/ ImportAddress \/ ImportPrivKey \/ ImportPrunedFunds
  \/ RemovePrunedFunds \/ CheckAsserted

\* setup_network: two fresh nodes, connected, synced on the genesis block
Init ==
  /\ chain0 = <<>> /\ chain1 = <<>> /\ mem0 = {} /\ mem1 = {}
  /\ keys = {} /\ watch = {} /\ label = [a \in Addrs |-> ""]
  /\ wallet = {}
  /\ pc = "mine" /\ failed = "none"

Next ==
  \/ Harness
  \/ BlockRelay \/ \E t \in Txs : TxRelay(t)
  \/ Finished

Spec == Init /\ [][Next]_vars

-----------------------------------------------------------------------------
(* Properties.                                                             *)

TypeOK ==
  /\ chain0 \in Seq(SUBSET Txs) /\ chain1 \in Seq(SUBSET Txs)
  /\ mem0 \subseteq Txs /\ mem1 \subseteq Txs /\ wallet \subseteq Txs
  /\ mem1 \cap ChainTxs(chain1) = {}
  /\ keys \subseteq Addrs /\ watch \subseteq Addrs
  /\ label \in [Addrs -> {"", "add2", "add3"}]
  /\ failed \in {"none", "assert", "rpc"}

\* Every assertion of run_test holds and no RPC raises unexpectedly, in
\* every order of node 1's block and transaction relay: the proofs are
\* only handed to node 1 once it has their blocks, and the balances
\* count exactly the imported transactions.
AssertionsHold == failed = "none"

=============================================================================
