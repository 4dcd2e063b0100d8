----------------------------- MODULE PhaseSync -----------------------------
(***************************************************************************)
(* EvoZnodeTestFramework.mine_quorum and wait_for_quorum_phase /          *)
(* wait_for_quorum_commitment (test_framework.py): the harness drives one *)
(* DKG session of llmq_5_60 by mining on the controller (node 0) and      *)
(* polling every masternode's quorum("dkgstatus").                         *)
(*                                                                         *)
(* The nodes are the external collaborator (spec.md 4.4, 6).  Each        *)
(* masternode connects the controller's blocks (catching up to its tip)   *)
(* and, asynchronously, its DKG handler processes the latest tip: the     *)
(* session phase is a function of the height (a WindowSize-block window,  *)
(* PhaseBlocks blocks per phase).  A member initializes the session when  *)
(* its handler sees phase 1, sends its contribution when it sees phase 2, *)
(* its premature commitment in phase 5, and in phase 6 builds the final   *)
(* commitment if it holds Threshold premature commitments.  Every node    *)
(* receives the final commitment; node 0 mines it in the mining window.   *)
(* Complaints and justifications are not sent: every member is honest,   *)
(* and the harness expects zero of them.                                   *)
(***************************************************************************)
EXTENDS Integers, FiniteSets, Sequences

CONSTANTS
  K,            \* masternodes, all members of the quorum (llmq_5_60: 5)
  Threshold,    \* premature commitments needed for a final one (60%)
  WindowSize,   \* the DKG interval (24 in the test)
  PhaseBlocks,  \* blocks per phase (2: mine_quorum generates 2 per phase)
  MiningStart, MiningEnd,  \* window offsets where commitments are mined
  InitHeights,  \* node 0's block count when mine_quorum is called
  PollLimit,    \* polls before a wait raises (timeout / sleep)
  MaxLoops      \* iterations of "while quorums == list" the model follows

ASSUME K \in Nat \ {0} /\ Threshold \in 1..K
ASSUME WindowSize > 6 * PhaseBlocks /\ PhaseBlocks \in Nat \ {0}
ASSUME InitHeights \subseteq Nat

Members == 1..K
Nodes   == 0..K
Idle    == 7                 \* QuorumPhase_Idle, after Finalize

Offset(h) == h % WindowSize
WindowStart(h) == h - Offset(h)
PhaseAt(h) ==
  IF Offset(h) < 6 * PhaseBlocks THEN Offset(h) \div PhaseBlocks + 1 ELSE Idle

InMiningWindow(h) == Offset(h) \in MiningStart..MiningEnd

\* the phase checks of mine_quorum: phase, counter, expected count
Checks == << [phase |-> 1, kind |-> "none",    count |-> 0],
             [phase |-> 2, kind |-> "contrib", count |-> K],
             [phase |-> 3, kind |-> "none",    count |-> 0],
             [phase |-> 4, kind |-> "none",    count |-> 0],
             [phase |-> 5, kind |-> "premature", count |-> K],
             [phase |-> 6, kind |-> "none",    count |-> 0] >>

NoSession == -1
Msgs == [kind : {"contrib", "premature"}, from : Members, to : Members,
         s : Nat]

VARIABLES
  height,    \* height[n]: node n's block count
  dkgH,      \* dkgH[n]: the tip member n's DKG handler has processed
  sess,      \* sess[n]: window start of the session member n initialized
  recv,      \* recv[n]: <<kind, from>> messages received for sess[n]
  msgs,      \* DKG messages in flight
  fc,        \* sessions for which a final commitment was built
  minable,   \* minable[n]: final commitments node n can mine
  minedQ,    \* sessions whose commitment node 0 has mined: quorum("list")
  pc, j,     \* harness program counter; index into Checks
  ret,       \* where sync_blocks returns to
  polls,     \* polls spent in the current wait
  target,    \* window start of the session mine_quorum drives
  quorums,   \* the quorum("list") snapshot taken on entry
  loops      \* iterations of the final mining loop

nodeVars == <<height, dkgH, sess, recv, msgs, fc, minable, minedQ>>
harnessVars == <<pc, j, ret, polls, target, quorums, loops>>
vars == <<nodeVars, harnessVars>>

Received(n, kind) == Cardinality({r \in recv[n] : r[1] = kind})

-----------------------------------------------------------------------------
(* Nodes.                                                                  *)

\* member n connects the controller's blocks up to its tip
Relay(n) ==
  /\ height[n] < height[0]
  /\ height' = [height EXCEPT ![n] = height[0]]
  /\ UNCHANGED <<dkgH, sess, recv, msgs, fc, minable, minedQ, harnessVars>>

Broadcast(n, kind, s) ==
  msgs' = msgs \cup {[kind |-> kind, from |-> n, to |-> m, s |-> s] : m \in Members}

\* member n's DKG handler processes its latest tip
DkgStep(n) ==
  LET h == height[n]
      p == PhaseAt(h)
      s == WindowStart(h)
  IN
  /\ dkgH[n] < h
  /\ dkgH' = [dkgH EXCEPT ![n] = h]
  /\ IF p = 1
     THEN sess' = [sess EXCEPT ![n] = s] /\ recv' = [recv EXCEPT ![n] = {}]
     ELSE UNCHANGED <<sess, recv>>
  /\ IF p = 2 /\ sess[n] = s THEN Broadcast(n, "contrib", s)
     ELSE IF p = 5 /\ sess[n] = s THEN Broadcast(n, "premature", s)
     ELSE UNCHANGED msgs
  /\ IF p = 6 /\ sess[n] = s /\ Received(n, "premature") >= Threshold
     THEN fc' = fc \cup {s} ELSE UNCHANGED fc
  /\ UNCHANGED <<height, minable, minedQ, harnessVars>>

\* a message reaches its recipient; one for another session is dropped
Deliver(msg) ==
  /\ msg \in msgs
  /\ msgs' = msgs \ {msg}
  /\ IF sess[msg.to] = msg.s
     THEN recv' = [recv EXCEPT ![msg.to] = @ \cup {<<msg.kind, msg.from>>}]
     ELSE UNCHANGED recv
  /\ UNCHANGED <<height, dkgH, sess, fc, minable, minedQ, harnessVars>>

\* node n receives a final commitment into its quorum mempool
ReceiveFinal(n, s) ==
  /\ s \in fc \ minable[n]
  /\ minable' = [minable EXCEPT ![n] = @ \cup {s}]
  /\ UNCHANGED <<height, dkgH, sess, recv, msgs, fc, minedQ, harnessVars>>

-----------------------------------------------------------------------------
(* Harness.                                                                *)

\* nodes[0].generate(k): node 0 mines k blocks; a block in the mining
\* window includes the minable commitment of its session.
Generate(k) ==
  LET new == {b \in height[0] + 1..height[0] + k :
                InMiningWindow(b) /\ WindowStart(b) \in minable[0]}
  IN /\ height' = [height EXCEPT ![0] = @ + k]
     /\ minedQ' = minedQ \cup {WindowStart(b) : b \in new}

CallSync(back) == pc' = "sync" /\ ret' = back /\ polls' = 0

\* Mutant of Poll: one poll more than the limit (polls <= PollLimit).
PollOneMore(cond, next) ==
  \/ cond /\ pc' = next /\ polls' = 0
  \/ ~cond /\ polls <= PollLimit /\ polls' = polls + 1 /\ UNCHANGED pc
  \/ ~cond /\ polls = PollLimit /\ pc' = "failed" /\ UNCHANGED polls

\* a wait that polls until Cond, raising after PollLimit polls
Poll(cond, next) ==
  \/ cond /\ pc' = next /\ polls' = 0
  \/ ~cond /\ polls < PollLimit /\ polls' = polls + 1 /\ UNCHANGED pc
  \/ ~cond /\ polls = PollLimit /\ pc' = "failed" /\ UNCHANGED polls

\* quorums = quorum("list"); skip_count = 24 - (blockcount % 24);
\* generate(skip_count); sync_blocks(self.nodes)
Start ==
  LET skip == WindowSize - Offset(height[0]) IN
  /\ pc = "start"
  /\ quorums' = minedQ
  /\ target' = height[0] + skip
  /\ Generate(skip)
  /\ CallSync("wait") /\ j' = 1
  /\ UNCHANGED <<dkgH, sess, recv, msgs, fc, minable, loops>>

\* sync_blocks: every node's tip equals node 0's
SyncBlocks ==
  /\ pc = "sync"
  /\ Poll(\A n \in Nodes : height[n] = height[0], ret)
  /\ UNCHANGED <<nodeVars, j, ret, target, quorums, loops>>

\* Mutant of PhaseOk: the counter argument is ignored.
PhaseOkNoCounter(c) == \A n \in Members : PhaseAt(dkgH[n]) = c.phase

\* wait_for_quorum_phase: every member reports exactly the phase and,
\* when a counter is named, at least the expected count
PhaseOk(c) ==
  \A n \in Members :
    /\ PhaseAt(dkgH[n]) = c.phase
    /\ c.kind # "none" => Received(n, c.kind) >= c.count

WaitPhase ==
  /\ pc = "wait"
  /\ Poll(PhaseOk(Checks[j]), IF j < Len(Checks) THEN "advance" ELSE "commitment")
  /\ UNCHANGED <<nodeVars, j, ret, target, quorums, loops>>

\* Mutant of Advance: mines two phases' worth of blocks per step.
AdvanceDouble ==
  /\ pc = "advance"
  /\ Generate(2 * PhaseBlocks)
  /\ CallSync("wait") /\ j' = j + 1
  /\ UNCHANGED <<dkgH, sess, recv, msgs, fc, minable, target, quorums, loops>>

\* set_mocktime; set_node_times; generate(2); sync_blocks
Advance ==
  /\ pc = "advance"
  /\ Generate(PhaseBlocks)
  /\ CallSync("wait") /\ j' = j + 1
  /\ UNCHANGED <<dkgH, sess, recv, msgs, fc, minable, target, quorums, loops>>

\* Mutant of WaitCommitment: only the masternodes are polled, not node 0.
WaitCommitmentMembersOnly ==
  /\ pc = "commitment"
  /\ Poll(\A n \in Members : minable[n] # {}, "mine")
  /\ UNCHANGED <<nodeVars, j, ret, target, quorums, loops>>

\* wait_for_quorum_commitment: every node has llmq_5_60 among its
\* minableCommitments
WaitCommitment ==
  /\ pc = "commitment"
  /\ Poll(\A n \in Nodes : minable[n] # {}, "mine")
  /\ UNCHANGED <<nodeVars, j, ret, target, quorums, loops>>

\* generate(1), then: while quorums == quorum("list"): generate(1); sync
MineCommitment ==
  /\ pc = "mine"
  /\ Generate(1)
  /\ pc' = "loop"
  /\ UNCHANGED <<dkgH, sess, recv, msgs, fc, minable, j, ret, polls,
                 target, quorums, loops>>

\* Past MaxLoops iterations the model stops following the loop, which goes
\* on mining: with MaxLoops beyond the mining window it can no longer end.
MineLoop ==
  /\ pc = "loop"
  /\ IF quorums # minedQ
     THEN pc' = "final" /\ UNCHANGED <<height, minedQ, ret, polls, loops>>
     ELSE IF loops < MaxLoops
     THEN Generate(1) /\ CallSync("loop") /\ loops' = loops + 1
     ELSE UNCHANGED <<height, minedQ, pc, ret, polls, loops>>
  /\ UNCHANGED <<dkgH, sess, recv, msgs, fc, minable, j, target, quorums>>

\* generate(8) (SIGN_HEIGHT_OFFSET); sync_blocks
Activate ==
  /\ pc = "final"
  /\ Generate(8)
  /\ CallSync("done")
  /\ UNCHANGED <<dkgH, sess, recv, msgs, fc, minable, j, target, quorums,
                 loops>>

Finished ==
  /\ pc \in {"done", "failed"}
  /\ UNCHANGED vars

Harness ==
  Start \/ SyncBlocks \/ WaitPhase \/ Advance \/ WaitCommitment
  \/ MineCommitment \/ MineLoop \/ Activate

Init ==
  /\ \E h \in InitHeights : height = [n \in Nodes |-> h]
  /\ dkgH = height
  \* members already in phase 1 have initialized that session
  /\ sess = [n \in Nodes |-> IF PhaseAt(height[n]) = 1
                             THEN WindowStart(height[n]) ELSE NoSession]
  /\ recv = [n \in Nodes |-> {}]
  /\ msgs = {} /\ fc = {}
  /\ minable = [n \in Nodes |-> {}]
  /\ minedQ = {}
  /\ pc = "start" /\ j = 0 /\ ret = "start" /\ polls = 0
  /\ target = 0 /\ quorums = {} /\ loops = 0

Next ==
  \/ Harness
  \/ \E n \in Members : Relay(n) \/ DkgStep(n)
  \/ \E msg \in msgs : Deliver(msg)
  \/ \E n \in Nodes, s \in fc : ReceiveFinal(n, s)
  \/ Finished

Spec == Init /\ [][Next]_vars

\* The harness is one thread that keeps running; each node keeps
\* connecting blocks, running its DKG handler and taking in messages.
Fairness ==
  /\ WF_vars(Harness)
  /\ \A n \in Members : WF_vars(Relay(n)) /\ WF_vars(DkgStep(n))
  /\ WF_vars(\E msg \in msgs : Deliver(msg))
  /\ \A n \in Nodes : WF_vars(\E s \in fc : ReceiveFinal(n, s))

LiveSpec == Spec /\ Fairness

-----------------------------------------------------------------------------
(* Properties.                                                             *)

TypeOK ==
  /\ height \in [Nodes -> Nat] /\ dkgH \in [Nodes -> Nat]
  /\ sess \in [Nodes -> Nat \cup {NoSession}]
  /\ msgs \subseteq Msgs
  /\ minable \in [Nodes -> SUBSET fc]
  /\ j \in 0..Len(Checks) /\ polls \in 0..PollLimit

\* The harness only mines the blocks of the next phase once every member
\* has all it needs from the current one: no member of the driven session
\* enters the complain phase missing a contribution, or the finalize phase
\* missing a premature commitment.
NoPrematurePhaseAdvance ==
  \A n \in Members :
    (sess[n] = target /\ WindowStart(dkgH[n]) = target) =>
      /\ PhaseAt(dkgH[n]) \in 3..Idle => Received(n, "contrib") = K
      /\ PhaseAt(dkgH[n]) \in 6..Idle => Received(n, "premature") = K

\* Every member's DKG handler walks the phases in order: a step of the
\* system moves its observed phase by at most one (Idle wraps to 1).
PhasesInOrder ==
  [][\A n \in Members :
       LET p == PhaseAt(dkgH[n])  q == PhaseAt(dkgH'[n])
       IN q = p \/ q = p + 1 \/ (p = Idle /\ q = 1)]_vars

\* A phase check passes only when every member's handler is in the session
\* mine_quorum is driving (spec.md 4.4: the phase of the Quorum Session),
\* not in an earlier session that happens to report the same phase.
ChecksSeeDrivenSession ==
  [][(pc = "wait" /\ pc' \in {"advance", "commitment"}) =>
       \A n \in Members : WindowStart(dkgH[n]) = target]_vars

\* mine_quorum returns or raises: the "while quorums == quorum('list')"
\* loop, the one wait without a timeout, ends because
\* wait_for_quorum_commitment saw the commitment in node 0's own
\* mempool before the first generate(1) of the mining window.
MineQuorumReturns == <>(pc \in {"done", "failed"})

=============================================================================
