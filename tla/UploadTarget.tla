---------------------------- MODULE UploadTarget ----------------------------
(***************************************************************************)
(* maxuploadtarget.py after peer 0 has been dropped (line 173 on): peer 1 *)
(* downloads the new block NewCount times, then asks for the old block    *)
(* and is dropped; the node's clock is advanced a day and peer 2 gets the *)
(* old block; the node is restarted with -whitelist and -maxuploadtarget=1*)
(* and peer 1, whitelisted, downloads WhiteCount new blocks and the old   *)
(* one without being dropped.  (Peer 0's phase is module PingSync.)       *)
(*                                                                         *)
(* Node 0 is the external collaborator (spec.md 1, "out of scope"): its   *)
(* upload target follows CConnman's accounting.  Bytes are counted in     *)
(* blocks (the old and new blocks are both mine_large_block blocks; a     *)
(* pong counts as no block but is a send).  Time is counted in days:      *)
(* the cycle is one day, and the buffer kept for new blocks is            *)
(* DailyBuffer blocks while a day is left in the cycle, none once it has  *)
(* expired.  A cycle is restarted lazily, by the first send after it      *)
(* expired (RecordBytesSent), not by setmocktime.                          *)
(*                                                                         *)
(* Three actors interleave: the test thread, the mininode network thread  *)
(* and the node, over one FIFO, lossless connection per peer.  A wait     *)
(* (sync_with_ping, wait_for_disconnect) returns False only once nothing  *)
(* is in flight on its connection: the timeouts are long enough for a     *)
(* reply the node sends (PingSync checks the early-timeout case).         *)
(***************************************************************************)
EXTENDS Integers, Sequences, FiniteSets, SequencesExt

CONSTANTS
  SuccessCount,  \* old blocks peer 0 downloaded: max_bytes_available // size
  DailyBuffer,   \* 144 * MAX_BLOCK_SIZE, in blocks
  NewCount,      \* the "for i in range(800)" new-block requests of peer 1
  WhiteCount,    \* the "for i in range(20)" requests after the restart
  RestartLimit   \* -maxuploadtarget=1 (1 MB), in blocks

ASSUME SuccessCount \in Nat \ {0} /\ DailyBuffer \in Nat \ {0}
ASSUME NewCount \in Nat \ {0} /\ WhiteCount \in Nat /\ RestartLimit \in Nat

Peers == 0..2
TwoDaysAgo == 12   \* setmocktime(int(time.time()) - 2*60*60*24), in days
Now        == 14   \* setmocktime(int(time.time()))
Timeframe  == 1    \* nMaxOutboundTimeframe: one day

\* the instructions of run_test from line 173 on
Op(op, p) == [op |-> op, p |-> p]
GetData(p, kind) == [op |-> "getdata", p |-> p, kind |-> kind]
SyncWithPing(p) == << Op("ping", p), Op("pong", p) >>
AssertRecv(p, kind, n) == [op |-> "recv", p |-> p, kind |-> kind, n |-> n]
AssertPeers(n) == [op |-> "peers", n |-> n]

\* send_message(getdata); sync_with_ping(); assert_equal(map[block], k)
Request(p, kind, k) ==
  << GetData(p, kind) >> \o SyncWithPing(p) \o << AssertRecv(p, kind, k) >>

\* Mutant of Script: no sync_with_ping on peer 2 before its request.
ScriptNoResetPing ==
  FlattenSeq([k \in 1..NewCount |-> Request(1, "new", k)])
  \o << GetData(1, "old"), Op("disc", 1), AssertPeers(1), Op("clock", 0) >>
  \o Request(2, "old", 1)
  \o << Op("restart", 0) >>
  \o FlattenSeq([k \in 1..WhiteCount |-> Request(1, "new", k)])
  \o << GetData(1, "old"), Op("disc", 1), AssertPeers(3) >>

Script ==
  FlattenSeq([k \in 1..NewCount |-> Request(1, "new", k)])
  \o << GetData(1, "old"), Op("disc", 1), AssertPeers(1), Op("clock", 0) >>
  \o SyncWithPing(2) \o Request(2, "old", 1)
  \o << Op("restart", 0) >>
  \o FlattenSeq([k \in 1..WhiteCount |-> Request(1, "new", k)])
  \o << GetData(1, "old"), Op("disc", 1), AssertPeers(3) >>

VARIABLES
  now,         \* node 0's mocktime
  limit,       \* nMaxOutboundLimit
  cycleStart,  \* nMaxOutboundCycleStartTime
  sent,        \* nMaxOutboundTotalBytesSentInCycle
  whitelisted, \* the peers connect from a -whitelist'ed address
  conn,        \* conn[p]: node 0 still has peer p (getpeerinfo)
  toNode,      \* toNode[p]: bytes in flight from test peer p to node 0
  toTest,      \* toTest[p]: bytes in flight from node 0 to test peer p
  state,       \* state[p]: NodeConn.state of test peer p
  recv,        \* recv[p][kind]: block_receive_map of test peer p
  pings,       \* pings[p]: pings test peer p sent (ping_counter)
  pongs,       \* pongs[p]: pongs it received
  disc,        \* disc[p]: peer_disconnected
  pc,          \* index of the next instruction of Script
  failed       \* why run_test raised, or "none"

nodeVars == <<now, limit, cycleStart, sent, whitelisted, conn>>
testVars == <<state, recv, pings, pongs, disc>>
vars == <<nodeVars, toNode, toTest, testVars, pc, failed>>

NoRecv == [kind \in {"old", "new"} |-> 0]

-----------------------------------------------------------------------------
(* Node 0.                                                                 *)

Expired == cycleStart + Timeframe < now

\* CConnman::OutboundTargetReached(true): the buffer kept for the rest of
\* the cycle is gone, or the bytes sent reach the limit less the buffer
TargetReached ==
  LET buffer == IF Expired THEN 0 ELSE DailyBuffer
  IN buffer >= limit \/ sent >= limit - buffer

\* CConnman::RecordBytesSent: a send in an expired cycle starts a new one
RecordBytes(b) ==
  IF Expired THEN cycleStart' = now /\ sent' = b
  ELSE sent' = sent + b /\ UNCHANGED cycleStart

\* ProcessMessages for peer p: a ping is answered; a getdata for a block
\* older than a week, once the target is reached, drops a peer that is
\* not whitelisted; any other getdata is served.
NodeStep(p) ==
  /\ conn[p] /\ toNode[p] # <<>>
  /\ LET m == Head(toNode[p]) IN
     \/ /\ m.t = "ping"
        /\ toTest' = [toTest EXCEPT ![p] = Append(@, [t |-> "pong"])]
        /\ toNode' = [toNode EXCEPT ![p] = Tail(@)]
        /\ RecordBytes(0) /\ UNCHANGED conn
     \/ /\ m.t = "getdata"
        /\ m.kind = "old" /\ TargetReached /\ ~whitelisted
        /\ conn' = [conn EXCEPT ![p] = FALSE]
        /\ toNode' = [toNode EXCEPT ![p] = <<>>]
        /\ toTest' = [toTest EXCEPT ![p] = Append(@, [t |-> "close"])]
        /\ UNCHANGED <<cycleStart, sent>>
     \/ /\ m.t = "getdata"
        /\ ~(m.kind = "old" /\ TargetReached /\ ~whitelisted)
        /\ toTest' = [toTest EXCEPT ![p] = Append(@, [t |-> "block", kind |-> m.kind])]
        /\ toNode' = [toNode EXCEPT ![p] = Tail(@)]
        /\ RecordBytes(1) /\ UNCHANGED conn
  /\ UNCHANGED <<now, limit, whitelisted, testVars, pc, failed>>

-----------------------------------------------------------------------------
(* Network thread: on_block / on_pong / handle_close + on_close.           *)

NetDeliver(p) ==
  /\ toTest[p] # <<>>
  /\ LET m == Head(toTest[p]) IN
     /\ recv' = IF m.t = "block"
                THEN [recv EXCEPT ![p][m.kind] = @ + 1] ELSE recv
     /\ pongs' = IF m.t = "pong" THEN [pongs EXCEPT ![p] = @ + 1] ELSE pongs
     /\ state' = IF m.t = "close" THEN [state EXCEPT ![p] = "closed"] ELSE state
     /\ disc' = IF m.t = "close" THEN [disc EXCEPT ![p] = TRUE] ELSE disc
  /\ toTest' = [toTest EXCEPT ![p] = Tail(@)]
  /\ UNCHANGED <<nodeVars, toNode, pings, pc, failed>>

-----------------------------------------------------------------------------
(* Test thread.                                                            *)

Ins == Script[pc]
At(op) == pc \in 1..Len(Script) /\ Ins.op = op
Step == pc' = pc + 1

\* NodeConn.send_message: raises IOError once the connection is closed;
\* bytes to a node that has dropped the peer are lost.
Send(p, m) ==
  IF state[p] # "connected"
  THEN failed' = "ioerror" /\ UNCHANGED <<toNode, pc>>
  ELSE /\ toNode' = IF conn[p] THEN [toNode EXCEPT ![p] = Append(@, m)]
                    ELSE toNode
       /\ Step /\ UNCHANGED failed

\* nothing in flight either way on peer p's connection
Quiescent(p) == toNode[p] = <<>> /\ toTest[p] = <<>>

\* test_nodes[p].send_message(getdata_request)
SendGetData ==
  /\ At("getdata")
  /\ Send(Ins.p, [t |-> "getdata", kind |-> Ins.kind])
  /\ UNCHANGED <<nodeVars, toTest, testVars>>

\* sync_with_ping: send_message(msg_ping(nonce=self.ping_counter)) ...
SendPing ==
  /\ At("ping")
  /\ Send(Ins.p, [t |-> "ping"])
  /\ pings' = [pings EXCEPT ![Ins.p] = @ + 1]
  /\ UNCHANGED <<nodeVars, toTest, state, recv, pongs, disc>>

\* ... wait_until(received_pong); its result is not looked at
WaitPong ==
  /\ At("pong")
  /\ pongs[Ins.p] = pings[Ins.p] \/ Quiescent(Ins.p)
  /\ Step
  /\ UNCHANGED <<nodeVars, toNode, toTest, testVars, failed>>

\* assert_equal(test_nodes[p].block_receive_map[block], n)
CheckRecv ==
  /\ At("recv")
  /\ IF recv[Ins.p][Ins.kind] = Ins.n THEN Step /\ UNCHANGED failed
     ELSE failed' = "assert" /\ UNCHANGED pc
  /\ UNCHANGED <<nodeVars, toNode, toTest, testVars>>

\* wait_for_disconnect(); its False result is not looked at
WaitDisconnect ==
  /\ At("disc")
  /\ disc[Ins.p] \/ Quiescent(Ins.p)
  /\ Step
  /\ UNCHANGED <<nodeVars, toNode, toTest, testVars, failed>>

\* assert_equal(len(self.nodes[0].getpeerinfo()), n)
CheckPeers ==
  /\ At("peers")
  /\ IF Cardinality({p \in Peers : conn[p]}) = Ins.n
     THEN Step /\ UNCHANGED failed
     ELSE failed' = "assert" /\ UNCHANGED pc
  /\ UNCHANGED <<nodeVars, toNode, toTest, testVars>>

\* self.nodes[0].setmocktime(int(time.time())): a day past the cycle
SetMocktime ==
  /\ At("clock")
  /\ now' = Now /\ Step
  /\ UNCHANGED <<limit, cycleStart, sent, whitelisted, conn, toNode, toTest,
                 testVars, failed>>

\* Mutant of Restart: the test peers' pong counts survive the restart.
RestartKeepsPongs ==
  /\ At("restart")
  /\ now' = Now /\ limit' = RestartLimit /\ whitelisted' = TRUE
  /\ cycleStart' = Now /\ sent' = 0
  /\ conn' = [p \in Peers |-> TRUE]
  /\ toNode' = [p \in Peers |-> <<>>] /\ toTest' = [p \in Peers |-> <<>>]
  /\ state' = [p \in Peers |-> "connected"]
  /\ recv' = [p \in Peers |-> NoRecv]
  /\ pings' = [p \in Peers |-> 0] /\ UNCHANGED pongs
  /\ disc' = [p \in Peers |-> FALSE]
  /\ Step /\ UNCHANGED failed

\* disconnect_node every connection; stop_node; start_node with
\* -whitelist=127.0.0.1 -maxuploadtarget=1 (no mocktime); three new
\* TestNodes connect and wait_for_verack (the version handshake is the
\* first send of the new node's cycle).
Restart ==
  /\ At("restart")
  /\ now' = Now /\ limit' = RestartLimit /\ whitelisted' = TRUE
  /\ cycleStart' = Now /\ sent' = 0
  /\ conn' = [p \in Peers |-> TRUE]
  /\ toNode' = [p \in Peers |-> <<>>] /\ toTest' = [p \in Peers |-> <<>>]
  /\ state' = [p \in Peers |-> "connected"]
  /\ recv' = [p \in Peers |-> NoRecv]
  /\ pings' = [p \in Peers |-> 0] /\ pongs' = [p \in Peers |-> 0]
  /\ disc' = [p \in Peers |-> FALSE]
  /\ Step /\ UNCHANGED failed

\* run_test returned or raised
Finished ==
  /\ pc > Len(Script) \/ failed # "none"
  /\ UNCHANGED vars

\* line 171: peer 0 downloaded the old block SuccessCount times in the
\* cycle begun at the two-days-ago mocktime, and was dropped; node 0
\* runs with -maxuploadtarget=800 (SuccessCount old blocks and the buffer)
Init ==
  /\ now = TwoDaysAgo /\ cycleStart = TwoDaysAgo
  /\ limit = SuccessCount + DailyBuffer /\ sent = SuccessCount
  /\ whitelisted = FALSE
  /\ conn = [p \in Peers |-> p # 0]
  /\ toNode = [p \in Peers |-> <<>>] /\ toTest = [p \in Peers |-> <<>>]
  /\ state = [p \in Peers |-> IF p = 0 THEN "closed" ELSE "connected"]
  /\ recv = [p \in Peers |-> IF p = 0 THEN [NoRecv EXCEPT !.old = SuccessCount]
                             ELSE NoRecv]
  /\ pings = [p \in Peers |-> IF p = 0 THEN SuccessCount ELSE 0]
  /\ pongs = pings
  /\ disc = [p \in Peers |-> p = 0]
  /\ pc = 1 /\ failed = "none"

TestThread ==
  \/ SendGetData \/ SendPing \/ WaitPong \/ CheckRecv \/ WaitDisconnect
  \/ CheckPeers \/ SetMocktime \/ Restart

Next ==
  \/ \E p \in Peers : NodeStep(p) \/ NetDeliver(p)
  \/ TestThread
  \/ Finished

Spec == Init /\ [][Next]_vars

-----------------------------------------------------------------------------
(* Properties.                                                             *)

TypeOK ==
  /\ now \in {TwoDaysAgo, Now} /\ cycleStart \in {TwoDaysAgo, Now}
  /\ sent \in Nat /\ whitelisted \in BOOLEAN /\ conn \in [Peers -> BOOLEAN]
  /\ state \in [Peers -> {"connected", "closed"}]
  /\ recv \in [Peers -> [{"old", "new"} -> Nat]]
  /\ pings \in [Peers -> Nat] /\ \A p \in Peers : pongs[p] \in 0..pings[p]
  /\ disc \in [Peers -> BOOLEAN]
  /\ pc \in 1..Len(Script) + 1 /\ failed \in {"none", "assert", "ioerror"}

\* Every assertion of run_test from line 173 on holds and no send raises,
\* in every order of the node's, the network thread's and the test
\* thread's steps: new blocks are served past the target, the old block
\* drops peer 1, the clock advance lets peer 2 have it, and whitelisted
\* peer 1 keeps its connection.
AssertionsHold == failed = "none"

=============================================================================
