---------------------------- MODULE SpendCoinbase ----------------------------
(***************************************************************************)
(* mempool_spendcoinbase.py: one node mines 200 blocks on a clean chain,  *)
(* then offers spends of the coinbases of blocks 101 and 102.  The node's *)
(* rule, as the test's header states it: the coinbase of block N may      *)
(* appear in block N + Maturity, so a spend of it enters the mempool when *)
(* the tip is at N + Maturity - 1 and is refused before.                  *)
(***************************************************************************)
EXTENDS Naturals, Sequences

CONSTANTS
  Maturity  \* COINBASE_MATURITY, 100

ASSUME Maturity \in Nat \ {0}

VARIABLES
  height,   \* the node's block count
  mempool,  \* the coinbases spent by transactions in the mempool
  pc,       \* run_test's program counter
  failed    \* the assertion that ended run_test, or "none"

vars == <<height, mempool, pc, failed>>

\* Mutant of SpendOf: range(100, 102).
SpendOfShifted == [k \in 1..2 |-> 99 + k]

\* b = [getblockhash(n) for n in range(101, 103)]: spends_raw[k] spends
\* the coinbase of block SpendOf[k]
SpendOf == [k \in 1..2 |-> 100 + k]

\* AcceptToMemoryPool of a coinbase spend: mature in the next block, and
\* not already spent in the mempool
Accept(h) == height + 1 - h >= Maturity /\ h \notin mempool

\* generate(200); sync_all; assert_equal(getblockcount(), 200)
Generate200 ==
  /\ pc = "generate"
  /\ height' = height + 200
  /\ IF height + 200 = 200 THEN pc' = "send1" /\ UNCHANGED failed
     ELSE failed' = "blockcount" /\ UNCHANGED pc
  /\ UNCHANGED mempool

\* spend_101_id = sendrawtransaction(spends_raw[0]): an exception ends
\* run_test
SendFirst ==
  /\ pc = "send1"
  /\ IF Accept(SpendOf[1])
     THEN mempool' = mempool \cup {SpendOf[1]} /\ pc' = "raises2"
          /\ UNCHANGED failed
     ELSE failed' = "raised" /\ UNCHANGED <<mempool, pc>>
  /\ UNCHANGED height

\* assert_raises(JSONRPCException, sendrawtransaction, spends_raw[1]): a
\* spend the node accepts is in its mempool and fails the assertion
ExpectRefused ==
  /\ pc = "raises2"
  /\ IF Accept(SpendOf[2])
     THEN mempool' = mempool \cup {SpendOf[2]} /\ failed' = "accepted"
          /\ UNCHANGED pc
     ELSE pc' = "mempool1" /\ UNCHANGED <<mempool, failed>>
  /\ UNCHANGED height

\* assert_equal(getrawmempool(), [spend_k_id]) at each check
MempoolNext == [mempool1 |-> "mine", mempool2 |-> "done"]
Expected == [mempool1 |-> {SpendOf[1]}, mempool2 |-> {SpendOf[2]}]
CheckMempool ==
  /\ pc \in DOMAIN MempoolNext
  /\ IF mempool = Expected[pc] THEN pc' = MempoolNext[pc] /\ UNCHANGED failed
     ELSE failed' = "mempool" /\ UNCHANGED pc
  /\ UNCHANGED <<height, mempool>>

\* generate(1): the block takes the whole mempool;
\* assert_equal(set(getrawmempool()), set())
GenerateOne ==
  /\ pc = "mine"
  /\ height' = height + 1 /\ mempool' = {}
  /\ pc' = "send2"
  /\ UNCHANGED failed

\* spend_102_id = sendrawtransaction(spends_raw[1])
SendSecond ==
  /\ pc = "send2"
  /\ IF Accept(SpendOf[2])
     THEN mempool' = mempool \cup {SpendOf[2]} /\ pc' = "mempool2"
          /\ UNCHANGED failed
     ELSE failed' = "raised" /\ UNCHANGED <<mempool, pc>>
  /\ UNCHANGED height

Finished ==
  /\ pc = "done" \/ failed # "none"
  /\ UNCHANGED vars

\* setup_clean_chain: the genesis block only
Init ==
  /\ height = 0 /\ mempool = {}
  /\ pc = "generate" /\ failed = "none"

Next ==
  \/ /\ failed = "none"
     /\ \/ Generate200 \/ SendFirst \/ ExpectRefused \/ CheckMempool
        \/ GenerateOne \/ SendSecond
  \/ Finished

Spec == Init /\ [][Next]_vars

-----------------------------------------------------------------------------

\* Every assertion of run_test holds: the test's block heights sit exactly
\* on the maturity boundary, so the spend of block 101's coinbase is
\* accepted at tip 200, block 102's is refused there and accepted one
\* block later.
AssertionsHold == failed = "none"

=============================================================================
