------------------------- MODULE RosterConsistency -------------------------
(***************************************************************************)
(* The deterministic-masternode scenario of qa/rpc-tests/                  *)
(* dip3-deterministicmns.py (DIP3Test.run_test) together with the         *)
(* roster check it relies on (assert_mnlists / compare_mnlist) and the    *)
(* framework's sync_all.                                                   *)
(*                                                                         *)
(* The harness is one sequential process (pc); the nodes relay blocks to  *)
(* each other asynchronously.  Node 0 is the controller, node m hosts     *)
(* masternode m.  A block is the set of ProTx events it mines; a node's   *)
(* roster is the set of collaterals registered and not yet spent along    *)
(* the prefix of the chain it has connected.  Collaterals are identified  *)
(* with the masternode that first registered them: a replacement         *)
(* registers a new ProTx on the same collateral.                          *)
(***************************************************************************)
EXTENDS Integers, Sequences, SequencesExt, FiniteSets

CONSTANTS
  NumMn,          \* masternodes: mn-before-dip3 plus num_initial_mn
  ReplaceCount,   \* MNs replaced re-using their collateral (5 in the test)
  SpendCount,     \* spend_mns_count (3 in the test)
  PaymentRounds,  \* blocks of the payment-enforcement loop (20 in the test)
  SyncTimeout     \* polls of sync_blocks before it times out

ASSUME NumMn \in Nat \ {0}
ASSUME ReplaceCount \in 0..NumMn /\ SpendCount \in 0..NumMn
ASSUME PaymentRounds \in Nat /\ SyncTimeout \in Nat

Nodes == 0..NumMn
Mns   == 1..NumMn          \* also the collateral of each MN
Host(m) == m               \* mn.idx: the node running masternode m

NoFailure == "none"
Failures  == {NoFailure, "mnlist", "sync_timeout", "submitblock"}

\* reg / spend of a collateral, ProUpServTx to service address 127.0.0.v,
\* ProUpRegTx to the multisig payee
Events == [op : {"reg", "spend", "serv", "payee"}, c : Mns, v : {1, 2}]
Ev(op, c, v) == [op |-> op, c |-> c, v |-> v]
Blocks == [miner : Nodes, ev : SUBSET Events]

\* the entry of a collateral not in the DIP3 list; a listed entry has
\* in = TRUE, its service address 127.0.0.svc and its payout address
NoMn == [in |-> FALSE, svc |-> 1, payee |-> "own"]

VARIABLES
  chain,     \* the best chain the harness has mined, block by block
  height,    \* height[n]: the prefix of chain node n has connected
  invalid,   \* heights node 0 has invalidated (invalidateblock)
  up,        \* nodes whose process is running
  mempool,   \* ProTx / spend transactions not yet mined
  mns,       \* DIP3Test's mns list (collaterals, in registration order)
  mnsTmp,    \* mns_tmp, the expected list of the spend/rollback part
  pc, i,     \* harness program counter and loop index
  ret,       \* where sync_all returns to
  waited,    \* polls spent in the current sync_blocks
  bt,        \* the tip height of mine_block's getblocktemplate
  failed     \* the exception that ended run_test, if any

vars == <<chain, height, invalid, up, mempool, mns, mnsTmp, pc, i, ret,
          waited, bt, failed>>

-----------------------------------------------------------------------------
(* Node side.                                                              *)

\* a ProTx applied to the list: a registration (new or on a reused
\* collateral) enters with 127.0.0.1 and its own payee; an update of an
\* entry that is not in the list has no effect
ApplyEvent(e, l) ==
  CASE e.op = "reg"   -> [l EXCEPT ![e.c] = [NoMn EXCEPT !.in = TRUE]]
    [] e.op = "spend" -> [l EXCEPT ![e.c] = NoMn]
    [] ~l[e.c].in    -> l
    [] e.op = "serv"  -> [l EXCEPT ![e.c].svc = e.v]
    [] e.op = "payee" -> [l EXCEPT ![e.c].payee = "multisig"]

ApplyBlock(l, b) == FoldSet(ApplyEvent, l, b.ev)

\* node n's deterministic MN list at its tip
MnList(n) == FoldLeft(ApplyBlock, [c \in Mns |-> NoMn], SubSeq(chain, 1, height[n]))

\* evoznode('list', 'status') on node n: the collaterals of its DIP3 list
Roster(n) == {c \in Mns : MnList(n)[c].in}

\* Peers: the masternodes connect to the controller only (star topology).
Linked(n, m) == n # m /\ (n = 0 \/ m = 0)

\* Highest height node n will connect: node 0 refuses invalidated blocks.
Accepts(n, h) == n # 0 \/ \A k \in invalid : h < k

\* n downloads the next block from a peer that has it
Relay(n, m) ==
  /\ {n, m} \subseteq up
  /\ Linked(n, m)
  /\ height[n] < height[m]
  /\ Accepts(n, height[n] + 1)
  /\ height' = [height EXCEPT ![n] = @ + 1]
  /\ UNCHANGED <<bt, chain, invalid, up, mempool, mns, mnsTmp, pc, i, ret,
                 waited, failed>>

\* submitblock on node n of a block built on the template's tip with a
\* wrong payee: connected and checked while that is still n's tip
\* ("bad-cb-payee"); a side block with no more work than n's tip is only
\* stored ("inconclusive").
SubmitResult(n) == IF bt = height[n] THEN "bad-cb-payee" ELSE "inconclusive"

-----------------------------------------------------------------------------
(* Harness helpers.                                                        *)

\* start_mn / start_node: a fresh MN node starts at height 0, a restarted
\* one keeps its datadir.
StartNode(n) == up' = up \cup {n}

\* generate(1) on node n: mines the mempool on top of n's tip.
Mine(n) ==
  /\ chain' = Append(chain, [miner |-> n, ev |-> mempool])
  /\ height' = [height EXCEPT ![n] = @ + 1]
  /\ mempool' = {}

\* compare_mnlist: pop every expected entry from the list, then require
\* the list to be empty.  A duplicate expected entry fails the second pop.
CompareMnlist(n, exp) ==
  IsInjective(exp) /\ ToSet(exp) = Roster(n)

\* assert_mnlists over every running node; the failure is an
\* AssertionError that aborts run_test.
AssertMnlists(nodes, exp, next) ==
  IF \A n \in nodes : CompareMnlist(n, exp)
  THEN pc' = next /\ failed' = failed
  ELSE pc' = "failed" /\ failed' = "mnlist"

\* Entering sync_all: remember where to continue.
CallSync(back) == pc' = "sync" /\ ret' = back /\ waited' = 0

Synced == \A n, m \in up : height[n] = height[m]

-----------------------------------------------------------------------------
(* Harness steps of run_test, in program order.                            *)

\* register_mn(before_dip3_mn); start_mn(before_dip3_mn)
RegisterBeforeDip3 ==
  /\ pc = "pre_reg"
  /\ mempool' = mempool \cup {Ev("reg", 1, 1)}
  /\ mns' = <<1>>
  /\ StartNode(Host(1))
  /\ pc' = "loop" /\ i' = 2
  /\ UNCHANGED <<bt, chain, height, invalid, mnsTmp, ret, waited, failed>>

\* start = (i % 3) == 0 for the i-th MN of the loop (MN i+2)
StartsFirst(m) == (m - 2) % 3 = 0

\* one iteration of the registration loop up to generate(1)
RegisterMn ==
  /\ pc = "loop" /\ i <= NumMn
  /\ IF StartsFirst(i) THEN StartNode(Host(i)) ELSE UNCHANGED up
  /\ mns' = Append(mns, i)
  /\ mempool' = mempool \cup {Ev("reg", i, 1)}
  /\ pc' = "loop_mine"
  /\ UNCHANGED <<bt, chain, height, invalid, mnsTmp, i, ret, waited, failed>>

MineRegistration ==
  /\ pc = "loop_mine"
  /\ Mine(0)
  /\ IF StartsFirst(i) THEN UNCHANGED up ELSE StartNode(Host(i))
  /\ CallSync("loop_assert")
  /\ UNCHANGED <<bt, invalid, mns, mnsTmp, i, failed>>

CheckRegistration ==
  /\ pc = "loop_assert"
  /\ AssertMnlists(up, mns, "loop")
  /\ i' = i + 1
  /\ UNCHANGED <<bt, chain, height, invalid, up, mempool, mns, mnsTmp, ret,
                 waited>>

\* self.nodes[1].generate(1); self.sync_all()
MineOnNode1 ==
  /\ pc = "loop" /\ i > NumMn
  /\ Mine(1)
  /\ CallSync("pay")
  /\ i' = 0
  /\ UNCHANGED <<bt, invalid, up, mns, mnsTmp, failed>>

\* node = self.nodes[i % len(self.nodes)] of the payment loop
PayNode == i % Cardinality(up)

\* mine_block in test_invalid_mn_payment(node): getblocktemplate, first
\* with another payee, then with mn_amount=1
TemplateNext == [pay |-> "payee_submit", amount_tmpl |-> "amount_submit"]
GetTemplate ==
  /\ pc \in DOMAIN TemplateNext
  /\ pc = "pay" => i < PaymentRounds
  /\ bt' = height[PayNode]
  /\ pc' = TemplateNext[pc]
  /\ UNCHANGED <<chain, height, invalid, up, mempool, mns, mnsTmp, i, ret,
                 waited, failed>>

\* submitblock; raise AssertionError unless it returned 'bad-cb-payee'
SubmitNext == [payee_submit |-> "amount_tmpl", amount_submit |-> "pay_gen"]
SubmitInvalid ==
  /\ pc \in DOMAIN SubmitNext
  /\ IF SubmitResult(PayNode) = "bad-cb-payee"
     THEN pc' = SubmitNext[pc] /\ UNCHANGED failed
     ELSE pc' = "failed" /\ failed' = "submitblock"
  /\ UNCHANGED <<chain, height, invalid, up, mempool, mns, mnsTmp, i, ret,
                 waited, bt>>

\* Mutant of MinePayment: the loop mines without sync_all between rounds.
MinePaymentNoSync ==
  /\ pc = "pay_gen"
  /\ Mine(PayNode)
  /\ i' = i + 1 /\ pc' = "pay"
  /\ UNCHANGED <<bt, invalid, up, mns, mnsTmp, ret, waited, failed>>

\* node.generate(1); self.sync_all()
MinePayment ==
  /\ pc = "pay_gen"
  /\ Mine(PayNode)
  /\ CallSync("pay")
  /\ i' = i + 1
  /\ UNCHANGED <<bt, invalid, up, mns, mnsTmp, failed>>

EndPayments ==
  /\ pc = "pay" /\ i >= PaymentRounds
  /\ pc' = "serv" /\ i' = 1
  /\ UNCHANGED <<bt, chain, height, invalid, up, mempool, mns, mnsTmp, ret,
                 waited, failed>>

\* test_protx_update_service(mn) for mn in mns: fund the fee, then
\* protx update_service to 127.0.0.2
UpdateService ==
  /\ pc = "serv" /\ i <= Len(mns)
  /\ mempool' = mempool \cup {Ev("serv", mns[i], 2)}
  /\ pc' = "serv_mine"
  /\ UNCHANGED <<bt, chain, height, invalid, up, mns, mnsTmp, i, ret, waited,
                 failed>>

\* Mutant of MineService: no sync_all before the nodes are asked.
MineServiceNoSync ==
  /\ pc = "serv_mine"
  /\ Mine(0)
  /\ pc' = "serv_assert"
  /\ UNCHANGED <<bt, invalid, up, mns, mnsTmp, i, ret, waited, failed>>

MineService ==
  /\ pc = "serv_mine"
  /\ Mine(0)
  /\ CallSync("serv_assert")
  /\ UNCHANGED <<bt, invalid, up, mns, mnsTmp, i, failed>>

\* for node in self.nodes: protx info and evoznode list show 127.0.0.2
\* (a missing list entry raises KeyError, which aborts run_test too)
CheckService ==
  /\ pc = "serv_assert"
  /\ IF \A n \in up : MnList(n)[mns[i]].in /\ MnList(n)[mns[i]].svc = 2
     THEN pc' = "serv_undo" /\ UNCHANGED failed
     ELSE pc' = "failed" /\ failed' = "mnlist"
  /\ UNCHANGED <<bt, chain, height, invalid, up, mempool, mns, mnsTmp, i, ret,
                 waited>>

\* undo: update_service back to 127.0.0.1; generate(1), with no sync_all
UndoService ==
  /\ pc = "serv_undo"
  /\ chain' = Append(chain, [miner |-> 0,
                              ev |-> mempool \cup {Ev("serv", mns[i], 1)}])
  /\ height' = [height EXCEPT ![0] = @ + 1]
  /\ mempool' = {}
  /\ pc' = "serv" /\ i' = i + 1
  /\ UNCHANGED <<bt, invalid, up, mns, mnsTmp, ret, waited, failed>>

\* update_mn_payee(mns[0], multisig): protx update_registrar, generate(1),
\* sync_all, then protx info on node 0 shows the multisig payout address
UpdatePayee ==
  /\ pc = "serv" /\ i > Len(mns)
  /\ mempool' = mempool \cup {Ev("payee", mns[1], 1)}
  /\ pc' = "payee_mine"
  /\ UNCHANGED <<bt, chain, height, invalid, up, mns, mnsTmp, i, ret, waited,
                 failed>>

MinePayee ==
  /\ pc = "payee_mine"
  /\ Mine(0)
  /\ CallSync("payee_assert")
  /\ UNCHANGED <<bt, invalid, up, mns, mnsTmp, i, failed>>

CheckPayee ==
  /\ pc = "payee_assert"
  /\ IF MnList(0)[mns[1]].payee = "multisig"
     THEN pc' = "multi" /\ i' = 1 /\ UNCHANGED failed
     ELSE pc' = "failed" /\ failed' = "mnlist" /\ UNCHANGED i
  /\ UNCHANGED <<bt, chain, height, invalid, up, mempool, mns, mnsTmp, ret,
                 waited>>

\* for i in range(len(mns)): nodes[0].generate(1); sync_all()
MultisigRound ==
  /\ pc = "multi" /\ i <= Len(mns)
  /\ Mine(0)
  /\ CallSync("multi")
  /\ i' = i + 1
  /\ UNCHANGED <<bt, invalid, up, mns, mnsTmp, failed>>

EndMultisig ==
  /\ pc = "multi" /\ i > Len(mns)
  /\ pc' = "rep" /\ i' = 1
  /\ UNCHANGED <<bt, chain, height, invalid, up, mempool, mns, mnsTmp, ret,
                 waited, failed>>

\* register_mn(new_mn) on mns[i]'s collateral, then generate(1)
ReplaceMn ==
  /\ pc = "rep" /\ i <= ReplaceCount
  /\ mempool' = mempool \cup {Ev("reg", mns[i], 1)}
  /\ pc' = "rep_mine"
  /\ UNCHANGED <<bt, chain, height, invalid, up, mns, mnsTmp, i, ret, waited,
                 failed>>

MineReplacement ==
  /\ pc = "rep_mine"
  /\ Mine(0)
  /\ CallSync("rep_assert")
  /\ UNCHANGED <<bt, invalid, up, mns, mnsTmp, i, failed>>

CheckReplacement ==
  /\ pc = "rep_assert"
  /\ AssertMnlists(up, mns, "rep_stop")
  /\ UNCHANGED <<bt, chain, height, invalid, up, mempool, mns, mnsTmp, i, ret,
                 waited>>

\* self.stop_node(new_mn.idx)
StopReplaced ==
  /\ pc = "rep_stop"
  /\ up' = up \ {Host(mns[i])}
  /\ pc' = "rep_start"
  /\ UNCHANGED <<bt, chain, height, invalid, mempool, mns, mnsTmp, i, ret,
                 waited, failed>>

\* start_mn(self, new_mn); self.sync_all()
RestartReplaced ==
  /\ pc = "rep_start"
  /\ StartNode(Host(mns[i]))
  /\ CallSync("rep")
  /\ i' = i + 1
  /\ UNCHANGED <<bt, chain, height, invalid, mempool, mns, mnsTmp, failed>>

EndReplacements ==
  /\ pc = "rep" /\ i > ReplaceCount
  /\ pc' = "spend" /\ i' = 1 /\ mnsTmp' = mns
  /\ UNCHANGED <<bt, chain, height, invalid, up, mempool, mns, ret, waited,
                 failed>>

\* spend_mn_collateral(mns[i]); generate(1); sync_all()
SpendCollateral ==
  /\ pc = "spend" /\ i <= SpendCount
  /\ mempool' = mempool \cup {Ev("spend", mns[i], 1)}
  /\ pc' = "spend_mine"
  /\ UNCHANGED <<bt, chain, height, invalid, up, mns, mnsTmp, i, ret, waited,
                 failed>>

MineSpend ==
  /\ pc = "spend_mine"
  /\ Mine(0)
  /\ CallSync("spend_assert")
  /\ UNCHANGED <<bt, invalid, up, mns, mnsTmp, i, failed>>

\* mns_tmp.remove(mns[i]); assert_mnlists(mns_tmp)
CheckSpend ==
  /\ pc = "spend_assert"
  /\ mnsTmp' = RemoveAt(mnsTmp, SelectInSeq(mnsTmp, LAMBDA x : x = mns[i]))
  /\ AssertMnlists(up, mnsTmp', "spend")
  /\ i' = i + 1
  /\ UNCHANGED <<bt, chain, height, invalid, up, mempool, mns, ret, waited>>

EndSpends ==
  /\ pc = "spend" /\ i > SpendCount
  /\ pc' = "rollback" /\ i' = 0
  /\ UNCHANGED <<bt, chain, height, invalid, up, mempool, mns, mnsTmp, ret,
                 waited, failed>>

\* Mutant of Invalidate: re-adds the spent MNs in spending order,
\* mns[i], instead of in reverse order.
InvalidateInSpendOrder ==
  /\ pc = "rollback" /\ i < SpendCount
  /\ invalid' = invalid \cup {height[0]}
  /\ height' = [height EXCEPT ![0] = @ - 1]
  /\ mnsTmp' = Append(mnsTmp, mns[i + 1])
  /\ pc' = "rollback_assert"
  /\ UNCHANGED <<bt, chain, up, mempool, mns, i, ret, waited, failed>>

\* nodes[0].invalidateblock(nodes[0].getbestblockhash());
\* mns_tmp.append(mns[spend_mns_count - 1 - i])
Invalidate ==
  /\ pc = "rollback" /\ i < SpendCount
  /\ invalid' = invalid \cup {height[0]}
  /\ height' = [height EXCEPT ![0] = @ - 1]
  /\ mnsTmp' = Append(mnsTmp, mns[SpendCount - i])
  /\ pc' = "rollback_assert"
  /\ UNCHANGED <<bt, chain, up, mempool, mns, i, ret, waited, failed>>

\* self.assert_mnlist(self.nodes[0], mns_tmp)
CheckRollback ==
  /\ pc = "rollback_assert"
  /\ AssertMnlists({0}, mnsTmp, "rollback")
  /\ i' = i + 1
  /\ UNCHANGED <<bt, chain, height, invalid, up, mempool, mns, mnsTmp, ret,
                 waited>>

EndRollbacks ==
  /\ pc = "rollback" /\ i >= SpendCount
  /\ pc' = "done"
  /\ UNCHANGED <<bt, chain, height, invalid, up, mempool, mns, mnsTmp, i, ret,
                 waited, failed>>

\* Mutant of SyncPoll: one poll more than the timeout allows.
SyncPollOneMore ==
  /\ pc = "sync"
  /\ \/ Synced /\ pc' = ret /\ UNCHANGED <<bt, waited, failed>>
     \/ ~Synced /\ waited <= SyncTimeout /\ waited' = waited + 1
        /\ UNCHANGED <<bt, pc, failed>>
     \/ ~Synced /\ waited = SyncTimeout
        /\ pc' = "failed" /\ failed' = "sync_timeout" /\ UNCHANGED waited
  /\ UNCHANGED <<bt, chain, height, invalid, up, mempool, mns, mnsTmp, i, ret>>

\* sync_blocks(self.nodes): poll until every best block hash is equal,
\* raise after the timeout.
SyncPoll ==
  /\ pc = "sync"
  /\ \/ Synced /\ pc' = ret /\ UNCHANGED <<bt, waited, failed>>
     \/ ~Synced /\ waited < SyncTimeout /\ waited' = waited + 1
        /\ UNCHANGED <<bt, pc, failed>>
     \/ ~Synced /\ waited = SyncTimeout
        /\ pc' = "failed" /\ failed' = "sync_timeout" /\ UNCHANGED waited
  /\ UNCHANGED <<bt, chain, height, invalid, up, mempool, mns, mnsTmp, i, ret>>

\* run_test returned or raised: main() proceeds to teardown.
Finished ==
  /\ pc \in {"done", "failed"}
  /\ UNCHANGED vars

Harness ==
  \/ RegisterBeforeDip3 \/ RegisterMn \/ MineRegistration
  \/ CheckRegistration \/ MineOnNode1 \/ GetTemplate \/ SubmitInvalid
  \/ MinePayment \/ EndPayments
  \/ UpdateService \/ MineService \/ CheckService \/ UndoService
  \/ UpdatePayee \/ MinePayee \/ CheckPayee \/ MultisigRound \/ EndMultisig
  \/ ReplaceMn \/ MineReplacement \/ CheckReplacement \/ StopReplaced
  \/ RestartReplaced \/ EndReplacements \/ SpendCollateral \/ MineSpend
  \/ CheckSpend \/ EndSpends \/ Invalidate \/ CheckRollback
  \/ EndRollbacks \/ SyncPoll

Init ==
  /\ chain = <<>>
  /\ height = [n \in Nodes |-> 0]
  /\ invalid = {}
  /\ up = {0}
  /\ mempool = {}
  /\ mns = <<>> /\ mnsTmp = <<>>
  /\ pc = "pre_reg" /\ i = 0 /\ ret = "pre_reg" /\ waited = 0 /\ bt = 0
  /\ failed = NoFailure

Next ==
  \/ Harness
  \/ \E n, m \in Nodes : Relay(n, m)
  \/ Finished

Spec == Init /\ [][Next]_vars /\ WF_vars(Harness)
          /\ \A n, m \in Nodes : WF_vars(Relay(n, m))

-----------------------------------------------------------------------------
(* Properties.                                                             *)

TypeOK ==
  /\ chain \in Seq(Blocks)
  /\ height \in [Nodes -> 0..Len(chain)]
  /\ invalid \subseteq 1..Len(chain)
  /\ up \subseteq Nodes /\ mempool \subseteq Events
  /\ mns \in Seq(Mns) /\ mnsTmp \in Seq(Mns)
  /\ waited \in 0..SyncTimeout /\ bt \in 0..Len(chain) /\ failed \in Failures

\* assert_mnlist never raises: whenever the harness compares a node's
\* DIP3 list with its expected list (mns, or mns_tmp as maintained across
\* spends and the per-node rollback), the node's list is exactly that set.
\* A failed sync_blocks is a separate, timeout failure.
MnlistAssertionsHold == failed # "mnlist"

\* mine_block never raises in test_invalid_mn_payment: each invalid block
\* is built on a template whose tip is still the node's tip when it is
\* submitted, so the node checks it and answers 'bad-cb-payee' rather
\* than storing it as an unchecked side block.
InvalidPaymentsRejected == failed # "submitblock"

\* Every generate(1) the harness issues is mined on top of the best chain:
\* the mining node has connected every block mined so far, so no test step
\* forks the chain by mining on a lagging node.
MinerAtTip ==
  [][Len(chain') > Len(chain) => height[chain'[Len(chain')].miner] = Len(chain)]_vars

=============================================================================
