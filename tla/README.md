# TLA+ models of the Privora RPC test harness

This directory models the Python functional-test harness in `src/qa/rpc-tests`.
It covers `test_framework/test_framework.py` and the tests that use it. What it
models is the harness's **control**: which steps it takes, in which order, what
it waits for, and what it does when a step fails. The harness runs alongside
processes it does not control: privorad nodes, thread-pool workers and the
mininode network thread. Those are modelled as environment actions that may
interleave with the harness at any point. Node-side behaviour (block relay,
DKG, upload accounting) is not in `src/`. It is written from what the harness
relies on and is marked `spec_modelled` in `PROJECT.json`.

## The system

| Part | Code | What it does |
|---|---|---|
| Cluster controller | `EvoZnodeTestFramework.setup_network`, `start_masternodes`; `PrivoraTestFramework.main` | Starts node 0 (the faucet/controller) and funds the masternodes. It starts every masternode process on a `ThreadPoolExecutor`, waits for each result, then connects each one to node 0. On any exception, `main` calls `stop_nodes` and exits. |
| Phase synchronizer | `mine_quorum`, `wait_for_quorum_phase`, `wait_for_quorum_commitment` | Drives one LLMQ DKG session. It mines to the next 24-block boundary, then waits until every member reports phase *p* (and the expected message counter) before mining the two blocks of the next phase. Finally it mines until `quorum("list")` changes. |
| Roster checker + DIP3 scenario | `dip3-deterministicmns.py` `run_test`, `assert_mnlists`, `compare_mnlist` | Registers, pays, replaces and spends masternodes, and rolls spends back with `invalidateblock`. After each step it checks every node's deterministic MN list against an expected list the test keeps (`mns`, `mns_tmp`). |
| P2P test peer | `maxuploadtarget.py` `TestNode`, `sync_with_ping`, `run_test` | Mininode peers request old and new blocks against node 0's upload target. `sync_with_ping` uses a ping/pong round trip as a barrier before asserting on the callback-maintained `block_receive_map`. The test advances the node's clock a day, then restarts it with `-whitelist`. |
| Split network | `PrivoraTestFramework.setup_network(split)`, `sync_all`; `txn_doublespend.py` | Nodes 0/1 and 2/3 form two halves. Each half builds its own history, then the halves are linked and must converge on the longer chain. |
| Bounded pollers | `wait_for_quorum_phase`, `wait_for_instantlock`, `wait_for_tx`, `wait_for_chainlocked_block`, `wait_for_sporks_same`, `wait_for_mnauth` | Poll RPCs until a predicate holds or a timeout elapses. Spec 4.1 gives their contract: return True or False, and count a transport error as "not yet satisfied". |
| Legacy znode framework | `ZnodeTestFramework` | Old znode set-up helpers. No test in `src/` uses them. |
| Scripted tests | `importprunedfunds.py`, `wallet-hd.py`, `mempool_spendcoinbase.py`, `create_cache.py`, `src/test/privora-util-test.py` | Straight-line RPC scripts against one or a few nodes. `importprunedfunds.py` mines and pays on node 0 and imports the proofs on node 1, so it depends on node 1 having caught up. `wallet-hd.py` restores node 1's wallet from a backup onto an empty chain, then restarts it with `-rescan`. |

How the parts interact:
- Every scenario runs inside `main()`. `setup_network` builds the topology, `run_test` runs the scenario, and the teardown stops the nodes.
- A scenario step mines or sends transactions through node RPCs, then synchronises (`sync_all` / `sync_blocks`, `sync_with_ping`, the DKG phase waits). Only then does it assert on node state.
- Every wait is a poll against nodes that progress on their own. Correctness therefore depends on what the wait really observes and on the order in which the nodes act.

## Modules

Each module has these parts:
- `CONSTANTS` for the bounds.
- `VARIABLES` for the harness's program counter and locals, plus the environment's state.
- One action per harness step. Each is commented with the lines it models, and `PROJECT.json` `map` gives the exact ranges.
- Environment actions.
- `TypeOK`, then the properties.

An `MC*.tla` module instantiates the constants for TLC.

### `ClusterStart` (test_framework.py 499-554, 182-232)
- **Start jobs.** `job[k][idx]` is the future of `do_start` / `do_connect` for MN `idx`: none, queued, running, ok or err.
  - `Dequeue`: an idle worker, below `PoolSize`, takes the oldest job, in FIFO order.
  - `StartOk` / `StartFails`: the outcome of `start_node`.
  - `Connect` / `ConnectFails`: the outcome of `connect_nodes(mninfo[idx].node, 0)`. It errs when the start did not succeed.
- **Main thread.**
  - `SubmitStarts`.
  - `WaitStarts` / `WaitConnects`: `job.result()` in order, re-raising a job's error.
  - `SubmitConnects`.
  - `FinishSetup`: the rest of `setup_network` and `run_test`. `TryOutcome` is whether `main`'s try block returned (`success = True`) or raised one of the exceptions it catches.
- **Options.** `opts` holds `--noshutdown` and `--nocleanup`, both chosen in `Init`. `AfterTry` skips the teardown under `--noshutdown`.
- **Teardown.** `StopNext` is `stop_nodes(self.nodes)`. It stops entries in order. It ends at the first `None` slot, or at a `node.stop()` that raises (`spec_modelled`: `util.py` is not in `src/`). `main`'s `BaseException` handler catches either and sets `success = False`.
- **Cleanup and exit.**
  - `Cleanup`: `rmtree(tmpdir)` when neither option is set and `success` holds (`cleaned`). Then `sys.exit(0 or 1)` (`status`).
  - `Exited` is interpreter exit. Python joins the executor's threads, so queued jobs still run.
- **Properties.**
  - `ConnectsAfterStarts`: no connect is submitted unless all starts succeeded.
  - `StarOnReturn`: on return every MN runs and is linked to node 0.
  - `NoOrphanNodes`: after an exit without `--noshutdown`, no node process runs. This is spec.md's "cleanup stops all started nodes".
  - `CleanupOnlyWhenStopped`: the test directory is removed only when no node runs and no pool job can still start one. It holds whatever fails: a start, a connect, `run_test`, or a `node.stop()` part-way through the teardown.

### `PhaseSync` (test_framework.py 797-911)
- **Nodes.**
  - `Relay`: a member catches up to node 0's tip.
  - `DkgStep`: a member's DKG handler processes its latest tip.
    - In phase 1 it initialises the session of that 24-block window.
    - In phase 2 it broadcasts its contribution; in phase 5 its premature commitment.
    - In phase 6, holding `Threshold` premature commitments, it builds the final commitment.
  - `Deliver`: a message reaches a member. It is dropped if the member is in another session.
  - `ReceiveFinal`: a node learns the final commitment.
  - Node 0 mines a known commitment in blocks of the mining window.
- **Harness.**
  - `Start`: snapshot `quorum("list")`, mine `24 - h % 24` blocks, sync.
  - `WaitPhase`: `wait_for_quorum_phase` with `Checks[j]`. It passes when every member reports exactly phase *j* and the named counter is at least the expected count.
  - `Advance`: two blocks, sync.
  - `WaitCommitment`, `MineCommitment`.
  - `MineLoop`: the `while quorums == list` loop.
  - `Activate`: eight blocks.
- **Waits.** A wait is a `Poll`: it succeeds, polls again, or raises after `PollLimit` polls.
- **Properties.**
  - `NoPrematurePhaseAdvance`: a member of the driven session that has reached phase ≥ 3 holds all K contributions, and one at phase ≥ 6 holds all K premature commitments.
  - `PhasesInOrder`: no handler skips a phase.
  - `ChecksSeeDrivenSession`: when a phase wait passes, every member's handler is in the session being driven.
  - `MineQuorumReturns` (under `LiveSpec`): `mine_quorum` eventually returns or raises. The final `while quorums == list` loop needs the final commitment to reach node 0 and be mined. Past `MaxLoops` iterations the model stutters instead of deadlocking, so a loop that never ends is a property violation.

### `RosterConsistency` (dip3-deterministicmns.py 17-191, 295-334)
- **State.**
  - `chain` is the block sequence; each block carries `reg`/`spend` events for collaterals. `height[n]` is node n's tip.
  - `Roster(n)` folds the chain up to `height[n]`: the DIP3 list node n reports.
  - `Relay` moves a node one block towards a linked peer's tip. The topology is a star to node 0. Node 0 refuses blocks it has invalidated.
- **Harness.** One action per step of `run_test`'s loops:
  - registration: some MNs started first, some after;
  - payment: mining on `nodes[i % len]`;
  - replacement: register, mine, sync, assert, stop, restart;
  - spend: `mns_tmp.remove`;
  - rollback: `invalidateblock` + `mns_tmp.append(mns[spend-1-i])` + `assert_mnlist(node0)`;
  - ProUpServTx (`UpdateService`, `MineService`, `CheckService`, `UndoService`): each MN's service is changed, mined, synced and checked on every node. A second update is then mined on node 0 alone, which is not synced.
  - payee change and multisig rounds (`UpdatePayee`, `MinePayee`, `CheckPayee`, `MultisigRound`, `EndMultisig`).
  - `test_invalid_mn_payment` in each payment round (`GetTemplate`, `SubmitInvalid`). `mine_block` reads the paying node's tip with `getblocktemplate` (`bt`). It then submits a block on that tip with a wrong payee, twice. `SubmitResult` is the node's answer (`spec_modelled`): `bad-cb-payee` when the block extends its tip, and `inconclusive` when the node has meanwhile moved past `bt`.
- **MN list entries.** `MnList(n)` folds each block's events (`reg`, `spend`, `serv`, `payee`) into a record per collateral: registered, service, payee. `Roster(n)` is its set of registered entries.
- **Syncing and checking.** `CallSync`/`SyncPoll` is `sync_all`, with a timeout. `AssertMnlists`/`CompareMnlist` implement the exact-set comparison, including the failure that a duplicate expected entry causes.
- **Properties.**
  - `MnlistAssertionsHold`: no assertion fails, on any relay interleaving.
  - `MinerAtTip`: every block is mined by a node at the chain tip. The harness never forks by mining on a lagging node.
  - `InvalidPaymentsRejected`: no `submitblock` in `mine_block` gets an answer other than `bad-cb-payee`. The template read at line 364 is still the node's tip when the block is submitted at line 437. Only the `sync_all` at line 121 guarantees this.

### `PingSync` (maxuploadtarget.py 23-80, 147-171)
- **Actors.**
  - Node 0 (`NodeStep`): in-order handling, an old-block budget, then disconnect.
  - The network thread (`NetDeliver`): `on_block`, `on_pong`, `on_close`.
  - The main thread: `SendRequest`, `SendPing`, `WaitPong` (`wait_until` with a timeout; `ping_counter += 1` regardless), `CheckCount`, `SendExtra`, `WaitDisconnect`.
- **Channels.** Both directions are FIFO sequences.
- **Properties.**
  - `PingIsBarrier`: when `sync_with_ping` returns True, `block_receive_map` counts every earlier request.
  - `ExtraRequestsSent`: the extra requests never hit a connection that is already closed.

### `SplitDoubleSpend` (test_framework.py 82-119; txn_doublespend.py 13-117)
- **Transactions.** Five of them: two fundings, `tx1` and `tx2` spending them, and `ds` spending both.
- **Nodes.**
  - `TxRelay`: transactions travel over links, subject to mempool acceptance.
  - `BlockRelay`: a node switches to a strictly longer chain of a linked peer. Transactions that are neither mined nor conflicted return to its mempool.
- **Harness.** `SetupNetwork(split)`, `SyncAll`, then each step of `run_test`. `--mineblock` is chosen in `Init`.
- **Confirmations and balance.** `Confirmations(n, t)` is `gettransaction(t)["confirmations"]` on node n: the depth of t if it is mined, and minus the depth of a mined conflicting transaction if one exists. `From0Balance` is node 1's `getreceivedbyaddress(from0)`: the sum of `ToFrom0` over the transactions of its chain. `CheckFirstHalf` is the assertion block at lines 77-99. `CheckConflicts` checks the final confirmations (2 for `ds`, -2 for `tx1` and `tx2`) and that `from0` holds exactly what `ds` paid.
- **Properties.**
  - `SpendsMeetAfterDoubleSpendMined`: until node 2 has mined `ds`, no node of node 2's half has `tx1` or `tx2` (in its mempool or chain), and no node of node 0's half has `ds`. `run_test` does nothing to order these steps. Only `setup_network(split=True)` skipping the 1-2 connection keeps the halves apart until the join, so that the join is a reorganisation between conflicting chains. The final confirmations and balance are assertions of `CheckConflicts`, which `JoinConverges` requires to pass.
  - `JoinConverges`: `run_test` gets past the sync and its assertions.

### `UploadTarget` (maxuploadtarget.py 173-237)
This module covers the test after peer 0 has been dropped. `PingSync` covers peer 0's phase.
- **Script.** `Script` is `run_test`'s straight-line part, as a sequence of instruction records built with `FlattenSeq`: getdata, ping/pong (`sync_with_ping`), an assertion on `block_receive_map`, an assertion on `len(getpeerinfo())`, `setmocktime` and the restart. `pc` indexes it.
- **Node 0** (`spec_modelled`, CConnman's accounting).
  - `NodeStep(p)`: answers a ping with a pong. For an old-block getdata it drops the peer (a close) when the target is reached and the peer is not whitelisted. Otherwise it serves the block.
  - `RecordBytes`: counts the bytes sent. It restarts the cycle lazily, on the first send after the cycle expired. `TargetReached` keeps `DailyBuffer` blocks free for new blocks while the cycle has a day left.
- **Network thread.** `NetDeliver(p)` runs the `on_block`, `on_pong` and `on_close` callbacks.
- **Test thread.**
  - `SendGetData`, `SendPing`.
  - `WaitPong` and `WaitDisconnect`: these return False only once nothing is in flight (`PingSync` covers early timeouts).
  - `CheckRecv`, `CheckPeers`, `SetMocktime`.
  - `Restart`: `stop_node`, then `start_node` with `-whitelist=127.0.0.1 -maxuploadtarget=1`, plus fresh peers and fresh `TestNode` objects.
- **Property.** `AssertionsHold`: every assertion from line 173 on holds and no send raises, in every interleaving of the three actors.

### `BoundedPoll` (spec 4.1) and its implementations
- **`BoundedPoll`** is the abstract poller:
  - `pred` is the predicate's current answer, and `Change` lets the environment move it;
  - `Tick` advances `elapsed`;
  - `ReturnTrue` needs `pred`, and `ReturnFalse` needs `elapsed >= Timeout`;
  - `Returns` says the call ends.
- **`PhaseWait`** (test_framework.py 797-820) is `wait_for_quorum_phase` on its own:
  - one `Ask` per member, in order;
  - `all_ok` is cleared at the first member that is short, which also breaks the pass;
  - `LoopTest` tests `time() - t < timeout`;
  - the members' DKG handlers advance independently (`Progress`).
  `Poll == INSTANCE BoundedPoll WITH pred <- AllInPhase, elapsed <- clock, result <- PollResult` maps the harness state onto the abstract poller.
- **`InstantLockWait`** (test_framework.py 745-762) is `wait_for_instantlock`:
  - `check_instantlock` with its `try/except`;
  - `wait_until`, which counts its own sleeps;
  - `Decide`, which compares the result with `expected` and asserts when `do_assert` is set.
  It refines `BoundedPoll` with `pred <- locked`.
- **`MCPhaseWait`** composes the two waits:
  - `InstantLockWait` is instantiated with its variables renamed (`clock <- ilClock`, `pc <- ilPc`);
  - each step is a step of one wait, the other unchanged;
  - `BothSpec` adds weak fairness for each wait's harness and clock.
- **Properties.**
  - `PollRefined` and `InstantLockPollRefined`: each wait implements `Poll!Spec`.
  - `PollReturns` and `InstantLockPollReturns`: each wait ends.

### `PrunedFunds` (importprunedfunds.py 12-131)
- **Nodes** (`spec_modelled`).
  - Node 0 mines and pays. `chain0` is its chain of blocks, each a set of transactions, and `mem0` its mempool.
  - `BlockRelay`: node 1 connects node 0's next block, one block at a time. Its wallet keeps the block's transactions that pay its own keys or watched addresses (`IsMine`).
  - `TxRelay`: a transaction reaches node 1's mempool.
  - `Balance(account, withWatch)` is `getbalance`. `ImportOutcome` is `importprunedfunds`: "Block not found in chain", "No addresses", or success.
- **Harness.** One action per step of `run_test`:
  - `MineMature`: `generate(101)`, one block per step.
  - `SyncAll`: `sync_all`.
  - `NewAddresses`.
  - `SendToAddress` and `GenerateProof`, for each of the three payments.
  - `ImportAddress` and `ImportPrivKey`, both without rescan.
  - `ImportPrunedFunds` and `RemovePrunedFunds`.
  - `CheckAsserted`, covering every `assert_equal` and `assert_raises_jsonrpc`.
- **Properties.**
  - `AssertionsHold`: every assertion holds and no RPC raises unexpectedly, whatever node 1 has connected when each call is made.
  - `TypeOK`, which also requires that node 1's mempool never holds a transaction of its chain.

### `WalletHD` (wallet-hd.py 18-96)
- **Nodes** (`spec_modelled`).
  - `chain0` is node 0's chain: each block is the set of addresses it pays. `mem0` and `mem1` are the two mempools.
  - Node 1 has the prefix `h1` of node 0's chain.
  - `TxRelay` and `BlockRelay` run only while the nodes are `linked`. Node 1's wallet records a payment when it sees one to a key it already has. With `-keypool=0` there is no lookahead.
  - `Balance` counts the recorded payments whose block node 1 has. This is `getbalance` with minconf 1.
- **Harness.**
  - `ImportAndBackup` (the non-HD key, with the one-time-code retry, then `backupwallet`).
  - `MineMature`.
  - `DeriveAndPay` / `GenerateOne` and `PayNonHd`.
  - `SyncAll`.
  - `CheckBalance`.
  - `Restore`: stop; delete blocks and chainstate; copy the backup to `wallet.dat`; start unconnected.
  - `Rederive`.
  - `Reconnect`: `hd_add == hd_add_2`, then `connect_nodes_bi`.
  - `RestartRescan`: stop, then start with `-rescan` and no reconnect.
- **Properties.**
  - `AssertionsHold`: every assertion holds.
  - `TypeOK`, which also bounds the derived keys by the loop count.
### `SpendCoinbase` (mempool_spendcoinbase.py 22-65)
- **State.** `height` is the node's block count. `mempool` holds the coinbases (by block number) spent by transactions in the mempool.
- **Node** (`spec_modelled`). `Accept(h)`: a spend of block h's coinbase enters the mempool when it would be mature in the next block, `height + 1 - h >= Maturity`, and is not already spent there.
- **Harness.** `Generate200`, `SendFirst`, `ExpectRefused` (`assert_raises`), `CheckMempool`, `GenerateOne` (the block takes the mempool) and `SendSecond`.
- **Property.** `AssertionsHold`: the spend of block 101's coinbase is accepted at tip 200, and block 102's is refused there and accepted one block later. This checks that the test's heights sit exactly on the maturity boundary.

`MCPrunedFunds` composes `PrunedFunds`, `WalletHD` (variables prefixed `wh`) and `SpendCoinbase` (prefixed `sc`). The three tests share nothing.

## Runs

| Run | Checks | Result | What it shows |
|---|---|---|---|
| `roster_pass` | TypeOK, MnlistAssertionsHold, MinerAtTip, InvalidPaymentsRejected | pass | The DIP3 scenario's roster assertions hold on every relay interleaving. The sync after each payment block prevents forks, and it keeps every invalid-payment template at the submitting node's tip. |
| `cluster_start_pass` | TypeOK, ConnectsAfterStarts, StarOnReturn, CleanupOnlyWhenStopped | pass | With a pool smaller than the MN count and any start or connect failure, the phases never overlap, and a normal return leaves the star in place. Under every combination of options and failures, `success = False` in the teardown handler keeps `rmtree` away from a running node's datadir. |
| `cluster_orphans` | NoOrphanNodes | **violation** | Start job 1 fails, so `result()` raises and teardown stops node 0. Teardown then hits the `None` slot of MN 1 and exits. Meanwhile a pool thread finishes starting MN 2, whose process is never stopped. |
| `phase_sync_pass` | TypeOK, NoPrematurePhaseAdvance, PhasesInOrder, MineQuorumReturns | pass | The counter checks of the phase waits keep the harness from mining ahead of message delivery, and two blocks per phase never skip a phase. Under fair relay, DKG handlers, delivery and harness, `mine_quorum` terminates: the final commitment is mined within the loops the mining window allows. |
| `phase_stale_session` | ChecksSeeDrivenSession | **violation** | `mine_quorum` can be called at a height that is a multiple of 24. It then skips 24 blocks, and the phase-1 wait can pass on handlers still at the old boundary: phase 1 of the previous session. |
| `ping_sync_pass` | TypeOK, PingIsBarrier | pass | FIFO delivery, in-order handling and a fresh nonce per call make `sync_with_ping` a barrier, even after a timed-out ping whose pong comes late. |
| `ping_closed_send` | ExtraRequestsSent | **violation** | With a budget of exactly `success_count`, the node drops the peer on the first extra request. Once the close is processed, the second `send_message` raises IOError. |
| `split_doublespend_pass` | TypeOK, SpendsMeetAfterDoubleSpendMined, JoinConverges | pass | The two conflicting histories stay apart until the double spend is mined. Node 2's extra block breaks the tie, so the joined network converges on the double spend, and every final assertion holds, in both `--mineblock` modes. |
| `upload_target_pass` | TypeOK, AssertionsHold | pass | The upload-target phases hold on every interleaving. Serving new blocks never drops peer 1 before its old-block request. The lazy cycle reset lets peer 2 have the old block after the day advance. The whitelisted peer survives the restart. |
| `wallet_scripts_pass` | TypeOK, AssertionsHold, WalletHDTypeOK, WalletHDAssertionsHold, SpendCoinbaseAssertionsHold | pass | In importprunedfunds, the `sync_all` calls at lines 27, 52 and 86 are enough: every import and balance assertion holds however far node 1 lags. In wallet-hd, the restored wallet re-derives the same keys. Because of the `sync_all` at line 90, the `-rescan` restart finds all 301 coins without reconnecting. In mempool_spendcoinbase, with the real maturity of 100, the accept/refuse boundary falls exactly where the test expects. |
| `phase_wait_pass` | PollRefined, PollReturns, InstantLockPollRefined, InstantLockPollReturns | pass | Both waits implement the bounded poller. Neither returns True on a predicate it has not seen hold, nor gives up before the timeout, even though `wait_until` counts its sleeps rather than reading the clock. Both end whether or not the members or the lock ever arrive. |
| `phase_wait_rpc_error` | PollRefined | **violation** | `wait_for_quorum_phase` calls `quorum("dkgstatus")` at line 802 with no `try/except`, so a transport error escapes the wait as an exception. Spec 4.1 says it counts as "not yet satisfied". `wait_for_instantlock` does catch it. |

Each property of a passing run has a mutant in `PROJECT.json`: a plausible bug in the mapped code, defined in the module as `<Name><Bug>`, that TLC shows breaks it. Examples:
- rollback re-adding spent MNs in spending order;
- `concurrent.futures.wait` instead of `result()`;
- a phase wait ignoring its counter;
- `ping_counter` advancing only on success;
- `setup_network(split=True)` connecting nodes 1 and 2 anyway;
- `connect_nodes` within one half;
- a commitment wait that polls only the members;
- a missing `sync_with_ping` before peer 2's old-block request;
- a restart that keeps the old pong state;
- a missing `sync_all` before the imports;
- block relay that leaves mined transactions in the mempool;
- `all_ok` not cleared on a failed member;
- `t = time()` taken on every iteration;
- `check_instantlock` without its `try/except`;
- `wait_until` not counting its sleeps;
- a ProUpServTx mined without `sync_all`;
- wallet-hd without the `sync_all` after reconnecting;
- an off-by-one derivation loop;
- mempool_spendcoinbase spending blocks 100 and 101 instead of 101 and 102;
- a teardown handler that does not clear `success`;
- a payment round without its `sync_all`, so the next `getblocktemplate` is read on a lagging node.

## Bounds and why they suffice

- **`MCRosterConsistency`.**
  - 3 MNs: enough for one started-before and one started-after registration (`i % 3`).
  - 2 replacements, 2 spends and 2 rollbacks: enough that reverse-order re-adding differs from forward order.
  - 4 payment rounds: enough that `i % len(nodes)` reaches lagging nodes.
  - Sync timeout 2.
- **`MCClusterStart`.** 3 MNs and 2 workers. This lets a failure happen while another job is running and a third is queued. With the code's 20 workers, jobs queue only beyond 20 masternodes. The two-worker pool shows the properties do not rely on there being no queue.
- **`MCPhaseSync`.**
  - K = 3, threshold 2.
  - 24-block window with 2 blocks per phase, as in the code.
  - Start heights 22 and 24 cover `h % 24 ≠ 0` and `= 0`.
  - One retry per wait.
  - At most 8 mining-loop iterations. Eight iterations carry the chain past the mining window (offsets 10..18), so a loop that still has not seen the commitment never will.
- **`MCPingSync`.**
  - 2 synchronised requests.
  - The test's 3 extra requests.
  - A node budget of `success_count` up to `success_count + 2`, per the test's "a couple more".
  - One poll per wait, so timeouts happen.
- **`SplitDoubleSpend`.** The test's four nodes and five transactions; both values of `--mineblock`.
- **`MCUploadTarget`.**
  - `success_count` 2 and a buffer of 3 blocks.
  - 4 new-block requests (800 in the test). They take the cycle's bytes past the limit, as 800 blocks pass 800 MB, so the buffer rule matters.
  - 3 whitelisted requests after the restart. They pass the 1-block limit, so whitelisting matters.
- **`MCPrunedFunds`.**
  - importprunedfunds: 8 blocks stand for the 101 of `generate(101)`. Node 1 may lag any number of them when a sync or an import comes. The three payments are the test's own.
  - wallet-hd: 3 HD addresses stand for 300, and 3 blocks for the 101. Each address has its own payment block, so node 1 can lag by any number of blocks and relayed payments at each sync and at the restart.
  - mempool_spendcoinbase: the real `COINBASE_MATURITY` of 100 and the test's 200 blocks, since the property is about that exact boundary. The state space is a single path.
- **`MCPhaseWait`.**
  - 3 members, each needing 2 steps: a pass can break at any member.
  - Timeout 3 and at most 3 ticks: the wait can time out and can also succeed late.
  - Each member and the lock may start done or undone.
  - `MCPhaseWaitRpcError` allows transport errors.

## Fairness

`SplitDoubleSpend` and `PhaseSync` state liveness.
- It assumes weak fairness of the harness: the test thread runs.
- It also assumes weak fairness of relaying: a connected node keeps processing its peers' messages.
- `sync_blocks` is modelled as polling until chains agree. The question is whether they ever do, not whether they do within 60 s.

`PhaseSync`'s `LiveSpec` assumes weak fairness of the harness, of each member's relay and DKG handler, of message delivery and of the final commitment's propagation. Each of these is a node thread or the test thread, which the OS keeps scheduling. It assumes no fairness of the poll timeouts.

`MCPhaseWait`'s `BothSpec` assumes weak fairness of each wait's harness (the test thread) and of time passing. It assumes none for the members' progress or the lock: the waits must end even if these never come.

The other modules check safety only and have no fairness. Their waits carry an explicit poll bound, so a run that ends in a timeout is a legal behaviour, not a stuck one.

## Not modelled, and why

- DIP3 payment enforcement, the `found_multisig_payee` assertion and the InstantSend steps. They assert on the node's payee rotation and fees, not on the roster or the harness's control flow. The ProUpServTx and payee-update steps are modelled.
- `restart_controller_node` and `force_finish_mnsync_list`. Nothing in `src/` calls them.
- Mocktime (`set_mocktime` / `set_node_times`). No modelled guard reads the clock. The DKG handlers are driven by height.
- `split_network` / `join_network`. No test in `src/` calls them.
- `wait_for_tx`, `wait_for_chainlocked_block`, `wait_for_sporks_same`, `wait_for_mnauth` and `wait_for_quorum_commitment`. They have the same shape as `wait_for_instantlock`: a `wait_until` over one RPC per node. `InstantLockWait` is their representative. `ZnodeTestFramework` is unused.
- Callers of `start_masternodes` and `mine_quorum`. No test under `src/` calls either; `dip3-deterministicmns.py` starts its masternodes itself. `ClusterStart` and `PhaseSync` model these framework methods as spec sections 4.3 and 4.4 describe their use, not any one test's calls.
- `activate_autois_bip9`, `get/set_autois_spork_state`, `send_regular_instantsend`, `create_raw_tx`, `generate_until_sigma_activated`, `znsync_all`. No test under `src/` calls them, directly or through another helper. The same holds for `split_network`/`join_network`, listed above.
- `create_cache.py`: it has no nodes, and its `setup_network` and `run_test` are empty. The cache building is in `util.py`'s `initialize_chain`, which is not under `src/`.
- `privora-util-test.py`: it runs an external binary over a table of command lines and compares the outputs. This is pure I/O with no state to interleave.
- Dead code in `dip3-deterministicmns.py`. `test_instantsend` and `mine_double_spend` are only called from commented-out lines (111, 185, 191). `wait_for_sporks`/`compare_sporks` are used only by `test_instantsend`. `stop_controller_node` and `force_finish_mnsync*` are never called.
- The coinbase and payee construction in `mine_block` (lines 369-436) and `spend_input`. They build transactions byte by byte. The model keeps only whether the block extends the tip.
- Node 0's account balances in `txn_doublespend.py` (fees, the legacy "foo"/"bar" accounts). These are node-side wallet arithmetic. The model checks confirmations and node 1's `from0` receipts.
- Found by reading, not by a model:
  - `test_framework.py:586` uses `true` (NameError).
  - `configure_znode` is defined twice, and its second definition calls `generate_znode_privkey` with two arguments.
  - `time.sleep` is called on the imported function `time`.

## Plan for later work

1. **`BoundedPoll`.** Compose `PhaseWait` into `PhaseSync`, in place of its abstract `Poll`.
2. **`PhaseSync`.** Mocktime advances.
3. **`RosterConsistency`.** Restart of the controller (`restart_controller_node`), and a roster refinement against an abstract "list = registered minus spent" spec.
4. **`PingSync` / `UploadTarget`.** Compose them into one module for the whole test. Cover byte-exact accounting, where pongs and invs count against the target.
