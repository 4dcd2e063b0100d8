------------------------------ MODULE PingSync ------------------------------
(***************************************************************************)
(* maxuploadtarget.py: a TestNode peer (mininode) requests the big old    *)
(* block from node 0 SuccessCount times, each request followed by         *)
(* sync_with_ping and an assertion on block_receive_map, then sends three *)
(* more requests and waits for the node to drop it.                       *)
(*                                                                         *)
(* Three actors interleave: the main test thread, the mininode network    *)
(* thread (which runs the on_* callbacks), and the node, which handles    *)
(* the peer's messages in order and disconnects it once its upload        *)
(* target for old blocks is spent.  Both directions of the TCP connection *)
(* are FIFO and lossless.  The node's budget of old-block serves is a     *)
(* little above the test's success_count (the target grows with elapsed   *)
(* time: "at most a couple more tries should succeed").                   *)
(***************************************************************************)
EXTENDS Integers, Sequences

CONSTANTS
  SuccessCount, \* success_count = max_bytes_available // old_block_size
  Extra,        \* the "for i in range(3)" extra requests
  Slack,        \* serves the node may allow beyond success_count
  Timeout       \* polls of wait_until before it returns False

ASSUME SuccessCount \in Nat \ {0} /\ Extra \in Nat /\ Slack \in Nat
ASSUME Timeout \in Nat

NoNonce == 0                  \* msg_pong() defaults to nonce 0
Nonces  == 0..SuccessCount + 1
ToNodeMsgs == [t : {"getdata", "ping"}, n : Nonces]
ToTestMsgs == [t : {"block", "pong", "close"}, n : Nonces]

VARIABLES
  toNode,      \* bytes in flight from the TestNode to node 0
  toTest,      \* bytes in flight from node 0 to the TestNode
  nodeConn,    \* node 0 still has the peer connected (getpeerinfo)
  budget,      \* old-block serves node 0 still allows
  state,       \* NodeConn.state on the test side: "connected" / "closed"
  received,    \* block_receive_map[big_old_block]
  lastPong,    \* self.last_pong.nonce
  pingCounter, \* self.ping_counter
  peerDisc,    \* self.peer_disconnected
  pc, i,       \* main thread: program counter and loop index
  polls,       \* polls spent in the current wait_until
  synced,      \* the value sync_with_ping returned
  failed       \* why run_test raised, or "none"

nodeVars == <<toNode, nodeConn, budget>>
testVars == <<state, received, lastPong, pingCounter, peerDisc>>
mainVars == <<pc, i, polls, synced, failed>>
vars == <<toNode, toTest, nodeConn, budget, testVars, mainVars>>

-----------------------------------------------------------------------------
(* Node 0.                                                                 *)

\* Mutant of NodeStep: the budget check is budget >= 0.
NodeStepServesAtZero ==
  /\ nodeConn /\ toNode # <<>>
  /\ LET m == Head(toNode) IN
     IF m.t = "ping"
     THEN /\ toTest' = Append(toTest, [t |-> "pong", n |-> m.n])
          /\ toNode' = Tail(toNode) /\ UNCHANGED <<nodeConn, budget>>
     ELSE IF budget >= 0
     THEN /\ toTest' = Append(toTest, [t |-> "block", n |-> NoNonce])
          /\ budget' = budget - 1
          /\ toNode' = Tail(toNode) /\ UNCHANGED nodeConn
     ELSE /\ toTest' = Append(toTest, [t |-> "close", n |-> NoNonce])
          /\ nodeConn' = FALSE /\ toNode' = <<>> /\ UNCHANGED budget
  /\ UNCHANGED <<testVars, mainVars>>

\* ProcessMessages: the oldest message from the peer.  A getdata for the
\* old block is served while the budget lasts; past it the node drops the
\* peer (its later bytes are discarded).  A ping is answered by a pong.
NodeStep ==
  /\ nodeConn /\ toNode # <<>>
  /\ LET m == Head(toNode) IN
     IF m.t = "ping"
     THEN /\ toTest' = Append(toTest, [t |-> "pong", n |-> m.n])
          /\ toNode' = Tail(toNode) /\ UNCHANGED <<nodeConn, budget>>
     ELSE IF budget > 0
     THEN /\ toTest' = Append(toTest, [t |-> "block", n |-> NoNonce])
          /\ budget' = budget - 1
          /\ toNode' = Tail(toNode) /\ UNCHANGED nodeConn
     ELSE /\ toTest' = Append(toTest, [t |-> "close", n |-> NoNonce])
          /\ nodeConn' = FALSE /\ toNode' = <<>> /\ UNCHANGED budget
  /\ UNCHANGED <<testVars, mainVars>>

-----------------------------------------------------------------------------
(* Network thread: asyncore reads in order and calls the callbacks under  *)
(* mininode_lock.                                                          *)

\* on_block / on_pong / handle_close + on_close
NetDeliver ==
  /\ toTest # <<>>
  /\ LET m == Head(toTest) IN
     /\ received' = IF m.t = "block" THEN received + 1 ELSE received
     /\ lastPong' = IF m.t = "pong" THEN m.n ELSE lastPong
     /\ state' = IF m.t = "close" THEN "closed" ELSE state
     /\ peerDisc' = (peerDisc \/ m.t = "close")
  /\ toTest' = Tail(toTest)
  /\ UNCHANGED <<nodeVars, pingCounter, mainVars>>

-----------------------------------------------------------------------------
(* Main thread.                                                            *)

\* NodeConn.send_message: raises IOError once the connection is closed;
\* bytes sent to a node that already dropped the peer are lost.
Send(m, next) ==
  IF state # "connected"
  THEN pc' = "failed" /\ failed' = "ioerror" /\ UNCHANGED toNode
  ELSE /\ toNode' = IF nodeConn THEN Append(toNode, m) ELSE toNode
       /\ pc' = next /\ UNCHANGED failed

GetData == [t |-> "getdata", n |-> NoNonce]

\* test_nodes[0].send_message(getdata_request)
SendRequest ==
  /\ pc = "request"
  /\ Send(GetData, "ping")
  /\ UNCHANGED <<toTest, nodeConn, budget, testVars, i, polls, synced>>

\* sync_with_ping: send_message(msg_ping(nonce=self.ping_counter))
SendPing ==
  /\ pc = "ping"
  /\ Send([t |-> "ping", n |-> pingCounter], "wait_pong")
  /\ polls' = 0
  /\ UNCHANGED <<toTest, nodeConn, budget, testVars, i, synced>>

\* Mutant of WaitPong: ping_counter advances only when the pong came.
WaitPongCountOnSuccess ==
  /\ pc = "wait_pong"
  /\ \/ lastPong # pingCounter /\ polls < Timeout /\ polls' = polls + 1
        /\ UNCHANGED <<pc, pingCounter, synced>>
     \/ (lastPong = pingCounter \/ polls = Timeout)
        /\ synced' = (lastPong = pingCounter)
        /\ pingCounter' = (IF lastPong = pingCounter THEN pingCounter + 1
                           ELSE pingCounter)
        /\ pc' = "assert" /\ UNCHANGED polls
  /\ UNCHANGED <<toNode, toTest, nodeConn, budget, state, received, lastPong,
                 peerDisc, i, failed>>

\* wait_until(received_pong, timeout): poll last_pong.nonce == ping_counter;
\* return False after the timeout.  Either way ping_counter += 1.
WaitPong ==
  /\ pc = "wait_pong"
  /\ \/ lastPong # pingCounter /\ polls < Timeout /\ polls' = polls + 1
        /\ UNCHANGED <<pc, pingCounter, synced>>
     \/ (lastPong = pingCounter \/ polls = Timeout)
        /\ synced' = (lastPong = pingCounter)
        /\ pingCounter' = pingCounter + 1
        /\ pc' = "assert" /\ UNCHANGED polls
  /\ UNCHANGED <<toNode, toTest, nodeConn, budget, state, received, lastPong,
                 peerDisc, i, failed>>

\* assert_equal(block_receive_map[big_old_block], i+1); after the loop,
\* assert_equal(len(getpeerinfo()), 3).  The result of sync_with_ping is
\* not looked at.
CheckCount ==
  /\ pc = "assert"
  /\ IF received # i + 1 \/ (i + 1 = SuccessCount /\ ~nodeConn)
     THEN pc' = "failed" /\ failed' = "assert" /\ UNCHANGED i
     ELSE /\ i' = IF i + 1 = SuccessCount THEN 0 ELSE i + 1
          /\ pc' = IF i + 1 = SuccessCount THEN "extra" ELSE "request"
          /\ UNCHANGED failed
  /\ UNCHANGED <<nodeVars, toTest, testVars, polls, synced>>

\* for i in range(3): test_nodes[0].send_message(getdata_request)
SendExtra ==
  /\ pc = "extra"
  /\ i < Extra
  /\ Send(GetData, "extra")
  /\ i' = i + 1
  /\ UNCHANGED <<toTest, nodeConn, budget, testVars, polls, synced>>

EndExtra ==
  /\ pc = "extra" /\ i = Extra
  /\ pc' = "wait_disc" /\ polls' = 0
  /\ UNCHANGED <<nodeVars, toTest, testVars, i, synced, failed>>

\* wait_for_disconnect (its False result is ignored), then
\* assert_equal(len(getpeerinfo()), 2)
WaitDisconnect ==
  /\ pc = "wait_disc"
  /\ \/ ~peerDisc /\ polls < Timeout /\ polls' = polls + 1
        /\ UNCHANGED <<pc, failed>>
     \/ (peerDisc \/ polls = Timeout) /\ UNCHANGED polls
        /\ IF nodeConn THEN pc' = "failed" /\ failed' = "assert"
           ELSE pc' = "done" /\ UNCHANGED failed
  /\ UNCHANGED <<nodeVars, toTest, testVars, i, synced>>

\* run_test returned or raised; the connections stay up until main's
\* teardown.
Finished ==
  /\ pc \in {"done", "failed"}
  /\ UNCHANGED vars

Init ==
  /\ toNode = <<>> /\ toTest = <<>>
  /\ nodeConn = TRUE
  /\ budget \in SuccessCount..SuccessCount + Slack
  /\ state = "connected"
  /\ received = 0 /\ lastPong = NoNonce /\ pingCounter = 1
  /\ peerDisc = FALSE
  /\ pc = "request" /\ i = 0 /\ polls = 0 /\ synced = FALSE
  /\ failed = "none"

Next ==
  \/ NodeStep \/ NetDeliver
  \/ SendRequest \/ SendPing \/ WaitPong \/ CheckCount
  \/ SendExtra \/ EndExtra \/ WaitDisconnect \/ Finished

Spec == Init /\ [][Next]_vars

-----------------------------------------------------------------------------
(* Properties.                                                             *)

TypeOK ==
  /\ toNode \in Seq(ToNodeMsgs) /\ toTest \in Seq(ToTestMsgs)
  /\ nodeConn \in BOOLEAN /\ peerDisc \in BOOLEAN /\ synced \in BOOLEAN
  /\ budget \in 0..SuccessCount + Slack
  /\ state \in {"connected", "closed"}
  /\ received \in 0..SuccessCount + Slack
  /\ lastPong \in Nonces /\ pingCounter \in 1..SuccessCount + 1
  /\ failed \in {"none", "assert", "ioerror"}

\* sync_with_ping is a barrier: when it returns True, every block the
\* node sent for a getdata queued before the ping has been counted by
\* on_block, so the assertion on block_receive_map right after it holds.
\* It rests on the FIFO connection, the node's in-order handling and a
\* fresh nonce per call (ping_counter += 1 even after a timeout).
PingIsBarrier ==
  (pc = "assert" /\ synced) => received = i + 1

\* The extra requests of the upload-target phase never hit a connection
\* the node has already closed: run_test reaches wait_for_disconnect.
ExtraRequestsSent ==
  failed # "ioerror"

=============================================================================
