---------------------------- MODULE MCPhaseWait ----------------------------
(* The two polling shapes of the harness, side by side: a pass over the  *)
(* members that lets an RPC error escape (wait_for_quorum_phase) and a  *)
(* wait_until over a predicate that catches it (wait_for_instantlock).  *)
(* They share no state; either may take the next step.                   *)
(*                                                                       *)
(* Three members, so a pass can break at the first, the second or the   *)
(* third; two steps to the awaited phase, so a member is caught both     *)
(* short of it and on it; a timeout of three ticks, so several passes    *)
(* fit into one wait and the timeout is reached too.                     *)
EXTENDS PhaseWait

MCMembers == 3
MCNeed == 2
MCTimeout == 3
MCMaxTime == 3

VARIABLES locked, ilClock, slept, ilPc, w, expected, doAssert, outcome

ilVars == <<locked, ilClock, slept, ilPc, w, expected, doAssert, outcome>>

IL == INSTANCE InstantLockWait
        WITH Timeout <- MCTimeout, MaxTime <- MCMaxTime, RpcErrors <- TRUE,
             clock <- ilClock, pc <- ilPc

BothInit == Init /\ IL!Init

BothNext ==
  \/ Next /\ UNCHANGED ilVars
  \/ IL!Next /\ UNCHANGED vars

BothSafety == BothInit /\ [][BothNext]_<<vars, ilVars>>

\* each wait's thread runs and time passes for it
BothSpec ==
  /\ BothSafety
  /\ WF_<<vars, ilVars>>(Harness /\ UNCHANGED ilVars)
  /\ WF_<<vars, ilVars>>(Tick /\ UNCHANGED ilVars)
  /\ WF_<<vars, ilVars>>(IL!Harness /\ UNCHANGED vars)
  /\ WF_<<vars, ilVars>>(IL!Tick /\ UNCHANGED vars)

\* wait_for_instantlock's wait_until refines the bounded poller even with
\* transport errors, which check_instantlock catches.
InstantLockPollRefined == IL!PollRefined

\* wait_for_instantlock returns or raises, whether or not the lock comes.
InstantLockPollReturns == IL!PollReturns

=============================================================================
