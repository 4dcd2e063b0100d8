------------------------------ MODULE PhaseWait ------------------------------
(***************************************************************************)
(* wait_for_quorum_phase (test_framework.py 797-820): until timeout has   *)
(* elapsed since the call, ask each member in turn for its dkgstatus and  *)
(* break out of the pass at the first one that is not in the phase with   *)
(* enough messages; return after a pass that found them all, sleep        *)
(* otherwise, and raise AssertionError once the time is up.               *)
(*                                                                         *)
(* A member's DKG handler moves on by itself: progress[n] counts the      *)
(* steps member n has made towards the awaited phase and message count,   *)
(* and it only grows while the harness is waiting (no block is mined).    *)
(* The RPC quorum("dkgstatus") is not wrapped in try/except: a transport  *)
(* error, when RpcErrors allows one, propagates out of the wait.          *)
(***************************************************************************)
EXTENDS Naturals

CONSTANTS
  Members,   \* self.mninfo, in order
  Need,      \* progress at which a member reports the phase and count
  Timeout,   \* the timeout argument, in ticks
  MaxTime,   \* ticks the model lets pass
  RpcErrors  \* whether a dkgstatus call may fail on the transport

ASSUME Members \in Nat \ {0} /\ Need \in Nat \ {0}
ASSUME Timeout \in Nat /\ MaxTime \in Nat /\ Timeout <= MaxTime
ASSUME RpcErrors \in BOOLEAN

VARIABLES
  progress,  \* progress[n]: how far member n's handler has got
  clock,     \* time(), in ticks since the call
  t,         \* t = time() at the call
  pc,        \* the harness's place in the wait
  idx,       \* the member of "for mn in self.mninfo" being asked
  allOk      \* all_ok

vars == <<progress, clock, t, pc, idx, allOk>>

Member == 1..Members

\* the predicate the loop evaluates, over the members' current states
AllInPhase == \A n \in Member : progress[n] >= Need

-----------------------------------------------------------------------------
(* Environment.                                                            *)

\* a member's DKG handler gets one step further
Progress(n) ==
  /\ progress[n] < Need
  /\ progress' = [progress EXCEPT ![n] = @ + 1]
  /\ UNCHANGED <<clock, t, pc, idx, allOk>>

\* real time passes, while an RPC runs, in sleep(0.1) or after the wait
Tick ==
  /\ clock < MaxTime
  /\ clock' = clock + 1
  /\ UNCHANGED <<progress, t, pc, idx, allOk>>

-----------------------------------------------------------------------------
(* The harness.                                                            *)

\* Mutant of LoopTest: t = time() is taken again on every iteration.
LoopTestRestartsClock ==
  /\ pc = "loop"
  /\ IF clock - t < Timeout
     THEN pc' = "pass" /\ idx' = 1 /\ allOk' = TRUE /\ t' = clock
     ELSE pc' = "timedout" /\ UNCHANGED <<idx, allOk, t>>
  /\ UNCHANGED <<progress, clock>>

\* while time() - t < timeout: all_ok = True; otherwise
\* raise AssertionError("wait_for_quorum_phase timed out")
LoopTest ==
  /\ pc = "loop"
  /\ IF clock - t < Timeout
     THEN pc' = "pass" /\ idx' = 1 /\ allOk' = TRUE
     ELSE pc' = "timedout" /\ UNCHANGED <<idx, allOk>>
  /\ UNCHANGED <<progress, clock, t>>

\* Mutant of Ask: a failed check leaves all_ok as it was before break.
AskKeepsAllOk ==
  /\ pc = "pass" /\ idx \in Member
  /\ IF progress[idx] >= Need
     THEN idx' = idx + 1 /\ UNCHANGED pc
     ELSE pc' = "end" /\ UNCHANGED idx
  /\ UNCHANGED <<progress, clock, t, allOk>>

\* s = mn.node.quorum("dkgstatus")["session"]; a member without the
\* session, the phase, or the message count sets all_ok = False and
\* breaks; an RPC error raises out of the wait.
Ask ==
  /\ pc = "pass" /\ idx \in Member
  /\ \/ /\ progress[idx] >= Need
        /\ idx' = idx + 1 /\ UNCHANGED <<pc, allOk>>
     \/ /\ progress[idx] < Need
        /\ allOk' = FALSE /\ pc' = "end" /\ UNCHANGED idx
     \/ /\ RpcErrors
        /\ pc' = "rpcerror" /\ UNCHANGED <<idx, allOk>>
  /\ UNCHANGED <<progress, clock, t>>

\* the for loop ran through every member
PassDone ==
  /\ pc = "pass" /\ idx = Members + 1
  /\ pc' = "end"
  /\ UNCHANGED <<progress, clock, t, idx, allOk>>

\* if all_ok: return; otherwise sleep(0.1) and test the loop again
AfterPass ==
  /\ pc = "end"
  /\ pc' = IF allOk THEN "returned" ELSE "loop"
  /\ UNCHANGED <<progress, clock, t, idx, allOk>>

\* the wait has returned or raised; the caller goes on
Finished ==
  /\ pc \in {"returned", "timedout", "rpcerror"}
  /\ UNCHANGED vars

Harness == LoopTest \/ Ask \/ PassDone \/ AfterPass

\* the members may be anywhere short of or at the awaited phase
Init ==
  /\ progress \in [Member -> 0..Need]
  /\ clock = 0 /\ t = 0
  /\ pc = "loop" /\ idx = 1 /\ allOk = TRUE

Next ==
  \/ Harness \/ Tick \/ \E n \in Member : Progress(n) \/ Finished

Spec == Init /\ [][Next]_vars

\* The harness thread runs and time passes; the members need not progress.
LiveSpec == Spec /\ WF_vars(Harness) /\ WF_vars(Tick)

-----------------------------------------------------------------------------
(* Refinement: the wait is a bounded poll of AllInPhase.  Returning maps  *)
(* to True; the AssertionError after the timeout is the caller's          *)
(* conversion of False.  An RPC error has no counterpart.  clock counts    *)
(* the ticks since the call.                                              *)

PollResult ==
  CASE pc = "returned" -> "true"
    [] pc = "timedout" -> "false"
    [] pc = "rpcerror" -> "raised"
    [] OTHER           -> "pending"

Poll == INSTANCE BoundedPoll
          WITH pred <- AllInPhase, elapsed <- clock, result <- PollResult

TypeOK ==
  /\ progress \in [Member -> 0..Need]
  /\ clock \in 0..MaxTime /\ t \in 0..MaxTime
  /\ pc \in {"loop", "pass", "end", "returned", "timedout", "rpcerror"}
  /\ idx \in 1..Members + 1 /\ allOk \in BOOLEAN

\* wait_for_quorum_phase implements the bounded poller of spec 4.1: it
\* returns only after a pass in which every member reported the phase and
\* count, raises its timeout only once timeout has elapsed since the call,
\* and a dkgstatus call that fails on the transport counts as "not yet".
PollRefined == Poll!Spec

\* The wait ends, by returning or by its timeout, whatever the members do.
PollReturns == Poll!Returns

=============================================================================
