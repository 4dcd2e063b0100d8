---------------------------- MODULE ClusterStart ----------------------------
(***************************************************************************)
(* EvoZnodeTestFramework.start_masternodes (test_framework.py): the        *)
(* masternode processes are started by a ThreadPoolExecutor, the main     *)
(* thread waits for every start job in submission order, then submits one *)
(* connect job per masternode (to the controller, node 0) and waits for   *)
(* them, and finally syncs and shuts the executor down.  Any exception    *)
(* propagates to PrivoraTestFramework.main, whose teardown calls          *)
(* stop_nodes(self.nodes) and exits.  The executor's worker threads are   *)
(* joined at interpreter exit, so jobs still queued or running then run   *)
(* to completion.                                                          *)
(***************************************************************************)
EXTENDS Integers, FiniteSets

CONSTANTS
  MnCount,    \* self.mn_count
  PoolSize    \* ThreadPoolExecutor(max_workers=20)

ASSUME MnCount \in Nat \ {0} /\ PoolSize \in Nat \ {0}

Mns   == 1..MnCount         \* start_idx = 1: node idx + start_idx hosts MN idx
Nodes == 0..MnCount
Kinds == {"start", "connect"}

\* status of one future
JobStates == {"none", "queued", "running", "ok", "err"}
Done(s) == s \in {"ok", "err"}

VARIABLES
  job,      \* job[k][idx]: the future of do_start / do_connect for MN idx
  proc,     \* proc[n]: is node n's privorad process running
  slot,     \* slot[n]: self.nodes[n] holds a handle (FALSE: None)
  linked,   \* MNs connected to the controller
  pc,       \* main thread
  w,        \* index of the future job.result() is waiting on
  opts,     \* main's --noshutdown and --nocleanup options
  success,  \* main's success flag
  cleaned,  \* shutil.rmtree(self.options.tmpdir) has run
  status    \* the argument of sys.exit, or -1 before it

mainVars == <<opts, success, cleaned, status>>
vars == <<job, proc, slot, linked, pc, w, mainVars>>

\* no future is queued or running any more
Quiescent == \A k \in Kinds, idx \in Mns : job[k][idx] \in {"none", "ok", "err"}

Running(k) == {idx \in Mns : job[k][idx] = "running"}
Busy == Cardinality(Running("start")) + Cardinality(Running("connect"))

\* the executor's FIFO work queue: start jobs were submitted first
NextQueued(k, idx) ==
  /\ job[k][idx] = "queued"
  /\ \A j \in Mns : job[k][j] = "queued" => idx <= j
  /\ k = "connect" => \A j \in Mns : job["start"][j] # "queued"

-----------------------------------------------------------------------------
(* Worker threads.                                                         *)

\* an idle worker takes the oldest queued job
Dequeue(k, idx) ==
  /\ Busy < PoolSize
  /\ NextQueued(k, idx)
  /\ job' = [job EXCEPT ![k][idx] = "running"]
  /\ UNCHANGED <<proc, slot, linked, pc, w, mainVars>>

\* do_start: start_node succeeds, then mninfo[idx].node and
\* self.nodes[idx + start_idx] are set
StartOk(idx) ==
  /\ job["start"][idx] = "running"
  /\ job' = [job EXCEPT !["start"][idx] = "ok"]
  /\ proc' = [proc EXCEPT ![idx] = TRUE]
  /\ slot' = [slot EXCEPT ![idx] = TRUE]
  /\ UNCHANGED <<linked, pc, w, mainVars>>

\* start_node raises: the node never reached the RPC-ready state
StartFails(idx) ==
  /\ job["start"][idx] = "running"
  /\ job' = [job EXCEPT !["start"][idx] = "err"]
  /\ UNCHANGED <<proc, slot, linked, pc, w, mainVars>>

\* do_connect: connect_nodes(self.mninfo[idx].node, 0).  Without a
\* started node mninfo[idx] has no .node and the job raises.
Connect(idx) ==
  /\ job["connect"][idx] = "running"
  /\ IF job["start"][idx] = "ok" /\ proc[0]
     THEN /\ job' = [job EXCEPT !["connect"][idx] = "ok"]
          /\ linked' = linked \cup {idx}
     ELSE /\ job' = [job EXCEPT !["connect"][idx] = "err"]
          /\ UNCHANGED linked
  /\ UNCHANGED <<proc, slot, pc, w, mainVars>>

\* connect_nodes times out waiting for the version handshake
ConnectFails(idx) ==
  /\ job["connect"][idx] = "running"
  /\ job' = [job EXCEPT !["connect"][idx] = "err"]
  /\ UNCHANGED <<proc, slot, linked, pc, w, mainVars>>

-----------------------------------------------------------------------------
(* Main thread.                                                            *)

\* Mutant of Submit: range(0, mn_count + 1), one job too many.
SubmitOneTooMany(k) == job' = [job EXCEPT ![k] = [idx \in 0..MnCount |-> "queued"]]

Submit(k) == job' = [job EXCEPT ![k] = [idx \in Mns |-> "queued"]]

\* nodes.append(None) per MN; submit do_start for each
SubmitStarts ==
  /\ pc = "submit_start"
  /\ Submit("start")
  /\ pc' = "wait_start" /\ w' = 1
  /\ UNCHANGED <<proc, slot, linked, mainVars>>

\* where main goes once the try block has returned or raised: the
\* teardown, unless --noshutdown
AfterTry == IF opts.noshutdown THEN "cleanup" ELSE "teardown"

\* for job in jobs: job.result() -- re-raises the job's exception
WaitResult(k, here, next) ==
  /\ pc = here
  /\ Done(job[k][w])
  /\ IF job[k][w] = "err" THEN pc' = AfterTry /\ w' = 0
     ELSE IF w = MnCount THEN pc' = next /\ w' = 1
     ELSE pc' = pc /\ w' = w + 1
  /\ UNCHANGED <<job, proc, slot, linked, mainVars>>

\* Mutant of WaitStarts: waits for the start futures without re-raising
\* their exceptions (concurrent.futures.wait instead of result()).
WaitStartsSwallow ==
  /\ pc = "wait_start"
  /\ Done(job["start"][w])
  /\ IF w = MnCount THEN pc' = "submit_connect" /\ w' = 1
     ELSE pc' = pc /\ w' = w + 1
  /\ UNCHANGED <<job, proc, slot, linked, mainVars>>

WaitStarts == WaitResult("start", "wait_start", "submit_connect")

SubmitConnects ==
  /\ pc = "submit_connect"
  /\ Submit("connect")
  /\ pc' = "wait_connect"
  /\ UNCHANGED <<proc, slot, linked, w, mainVars>>

\* Mutant of WaitConnects: returns without waiting for the connect jobs.
WaitConnectsSkipped ==
  /\ pc = "wait_connect"
  /\ pc' = "shutdown"
  /\ UNCHANGED <<job, proc, slot, linked, w, mainVars>>

WaitConnects == WaitResult("connect", "wait_connect", "shutdown")

\* main's try block: setup_chain, setup_network and run_test return and
\* success = True, or one of them raises a JSONRPCException,
\* AssertionError, KeyError, other Exception or KeyboardInterrupt, which
\* is logged and leaves success False
TryOutcome == BOOLEAN

\* sync_blocks, generate, sync_znodes; executor.shutdown(); the rest of
\* setup_network and run_test
FinishSetup ==
  /\ pc = "shutdown"
  /\ success' \in TryOutcome
  /\ pc' = AfterTry /\ w' = 0
  /\ UNCHANGED <<job, proc, slot, linked, opts, cleaned, status>>

\* Mutant of StopNext: an exception out of stop_nodes is reported but
\* success is left as it was.
StopNextKeepsSuccess ==
  /\ pc = "teardown"
  /\ IF w > MnCount THEN pc' = "cleanup" /\ UNCHANGED <<proc, w>>
     ELSE IF slot[w] THEN \/ proc' = [proc EXCEPT ![w] = FALSE] /\ w' = w + 1
                             /\ UNCHANGED pc
                          \/ pc' = "cleanup" /\ UNCHANGED <<proc, w>>
     ELSE pc' = "cleanup" /\ UNCHANGED <<proc, w>>
  /\ UNCHANGED <<job, slot, linked, mainVars>>

\* main(): stop_nodes(self.nodes) -- node.stop() on each entry in order.
\* A None entry raises AttributeError, and node.stop() raises when the
\* node's RPC server cannot be reached; main's BaseException handler
\* catches either, sets success = False and ends the teardown.
StopNext ==
  /\ pc = "teardown"
  /\ IF w > MnCount THEN pc' = "cleanup" /\ UNCHANGED <<proc, w, success>>
     ELSE IF slot[w] THEN \/ /\ proc' = [proc EXCEPT ![w] = FALSE] /\ w' = w + 1
                             /\ UNCHANGED <<pc, success>>
                          \/ pc' = "cleanup" /\ success' = FALSE
                             /\ UNCHANGED <<proc, w>>
     ELSE pc' = "cleanup" /\ success' = FALSE /\ UNCHANGED <<proc, w>>
  /\ UNCHANGED <<job, slot, linked, opts, cleaned, status>>

\* rmtree(tmpdir) unless --nocleanup, --noshutdown or a failure; then
\* sys.exit(0) on success and sys.exit(1) otherwise
Cleanup ==
  /\ pc = "cleanup"
  /\ cleaned' = (~opts.nocleanup /\ ~opts.noshutdown /\ success)
  /\ status' = IF success THEN 0 ELSE 1
  /\ pc' = "exit"
  /\ UNCHANGED <<job, proc, slot, linked, w, opts, success>>

\* the interpreter exited and every executor thread has been joined
Exited ==
  /\ pc = "exit"
  /\ Quiescent
  /\ UNCHANGED vars

Init ==
  /\ job = [k \in Kinds |-> [idx \in Mns |-> "none"]]
  /\ proc = [n \in Nodes |-> n = 0]     \* the faucet node is running
  /\ slot = [n \in Nodes |-> n = 0]
  /\ linked = {}
  /\ pc = "submit_start" /\ w = 0
  /\ opts \in [{"noshutdown", "nocleanup"} -> BOOLEAN]
  /\ success = FALSE /\ cleaned = FALSE /\ status = -1

Next ==
  \/ SubmitStarts \/ WaitStarts \/ SubmitConnects \/ WaitConnects
  \/ FinishSetup \/ StopNext \/ Cleanup \/ Exited
  \/ \E k \in Kinds, idx \in Mns : Dequeue(k, idx)
  \/ \E idx \in Mns : StartOk(idx) \/ StartFails(idx) \/ Connect(idx)
                      \/ ConnectFails(idx)

Spec == Init /\ [][Next]_vars

-----------------------------------------------------------------------------
(* Properties.                                                             *)

TypeOK ==
  /\ job \in [Kinds -> [Mns -> JobStates]]
  /\ proc \in [Nodes -> BOOLEAN] /\ slot \in [Nodes -> BOOLEAN]
  /\ linked \subseteq Mns
  /\ w \in 0..MnCount + 1
  /\ opts \in [{"noshutdown", "nocleanup"} -> BOOLEAN]
  /\ success \in BOOLEAN /\ cleaned \in BOOLEAN /\ status \in {-1, 0, 1}

\* Connections are established only after every start of the batch has
\* completed successfully: no do_connect is ever submitted while a
\* do_start is pending or has failed.
ConnectsAfterStarts ==
  (\E idx \in Mns : job["connect"][idx] # "none")
    => \A idx \in Mns : job["start"][idx] = "ok"

\* When start_masternodes returns, the requested star topology is in
\* place: every masternode process runs and is connected to node 0.
StarOnReturn ==
  pc = "shutdown" => \A idx \in Mns : proc[idx] /\ idx \in linked

\* The teardown in main() stops every node the test started, whatever
\* failed: once the harness process has exited without --noshutdown, no
\* privorad is left running.
NoOrphanNodes ==
  (pc = "exit" /\ Quiescent /\ ~opts.noshutdown) => \A n \in Nodes : ~proc[n]

\* main() removes the test directory only when no privorad runs in it:
\* the rmtree of the cleanup step never happens while a node the test
\* started (by the main thread or a pool thread) is still running, or
\* can still be started, whichever of run_test, a start, a connect or a
\* node.stop() in the teardown failed.
CleanupOnlyWhenStopped ==
  cleaned => Quiescent /\ \A n \in Nodes : ~proc[n]

=============================================================================
