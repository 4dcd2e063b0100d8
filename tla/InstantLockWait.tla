--------------------------- MODULE InstantLockWait ---------------------------
(***************************************************************************)
(* wait_for_instantlock (test_framework.py 745-762): wait_until polls     *)
(* check_instantlock, which asks node for getrawtransaction(txid, True)   *)
(* ["instantlock"] and turns any exception into False; the result is then *)
(* compared with expected and either returned or, with do_assert, raised. *)
(*                                                                         *)
(* wait_until (mininode, not under src/) is modelled from spec 4.1: it    *)
(* evaluates the predicate, and while it is false sleeps and adds the     *)
(* sleep to its elapsed count until that reaches timeout.  The node locks *)
(* the transaction at some point or never; a lock, once there, stays.     *)
(***************************************************************************)
EXTENDS Naturals

CONSTANTS
  Timeout,   \* timeout=15 with sleep=0.1, in sleeps
  MaxTime,   \* ticks the model lets pass
  RpcErrors  \* whether getrawtransaction may fail on the transport

ASSUME Timeout \in Nat /\ MaxTime \in Nat /\ Timeout <= MaxTime
ASSUME RpcErrors \in BOOLEAN

VARIABLES
  locked,    \* the node reports the transaction as instant-locked
  clock,     \* real time since the call, in ticks
  slept,     \* wait_until's elapsed: the sleeps it has counted
  pc,        \* "poll", "decide" or "done"
  w,         \* wait_until's result
  expected, doAssert,  \* the call's arguments
  outcome    \* what wait_for_instantlock returned or raised

vars == <<locked, clock, slept, pc, w, expected, doAssert, outcome>>

\* the instant lock reaches the node
Lock ==
  /\ ~locked /\ locked' = TRUE
  /\ UNCHANGED <<clock, slept, pc, w, expected, doAssert, outcome>>

\* real time passes
Tick ==
  /\ clock < MaxTime /\ clock' = clock + 1
  /\ UNCHANGED <<locked, slept, pc, w, expected, doAssert, outcome>>

\* Mutant of CheckInstantlock: no try/except around the RPC.
CheckInstantlockUncaught(answer) ==
  CASE answer = "error" -> "raise"
    [] locked           -> "true"
    [] OTHER            -> "false"

\* check_instantlock: the RPC's "instantlock" field, False on any exception
CheckInstantlock(answer) ==
  IF answer = "reply" /\ locked THEN "true" ELSE "false"

Answers == IF RpcErrors THEN {"reply", "error"} ELSE {"reply"}

\* the sleep of one round: real time passes with it
Sleep == clock' = IF clock < MaxTime THEN clock + 1 ELSE clock

\* Mutant of WaitUntil: the sleep is not added to elapsed.
WaitUntilNoElapsed ==
  /\ pc = "poll"
  /\ \E answer \in Answers :
       LET r == CheckInstantlock(answer) IN
       CASE slept >= Timeout -> w' = FALSE /\ pc' = "decide" /\ UNCHANGED <<clock, slept>>
         [] r = "raise"      -> pc' = "raised" /\ UNCHANGED <<w, clock, slept>>
         [] r = "true"       -> w' = TRUE /\ pc' = "decide" /\ UNCHANGED <<clock, slept>>
         [] OTHER            -> Sleep /\ UNCHANGED <<pc, w, slept>>
  /\ UNCHANGED <<locked, expected, doAssert, outcome>>

\* wait_until, one round: give up once elapsed >= timeout; otherwise
\* evaluate the predicate (an exception propagates), return True if it
\* holds, or sleep and add the sleep to elapsed.
WaitUntil ==
  /\ pc = "poll"
  /\ \E answer \in Answers :
       LET r == CheckInstantlock(answer) IN
       CASE slept >= Timeout -> w' = FALSE /\ pc' = "decide" /\ UNCHANGED <<clock, slept>>
         [] r = "raise"      -> pc' = "raised" /\ UNCHANGED <<w, clock, slept>>
         [] r = "true"       -> w' = TRUE /\ pc' = "decide" /\ UNCHANGED <<clock, slept>>
         [] OTHER            -> Sleep /\ slept' = slept + 1 /\ UNCHANGED <<pc, w>>
  /\ UNCHANGED <<locked, expected, doAssert, outcome>>

\* if not w and expected, or w and not expected: raise AssertionError
\* with do_assert, return False without it; otherwise return True
Decide ==
  /\ pc = "decide"
  /\ outcome' = IF w = expected THEN "true"
                ELSE IF doAssert THEN "assert" ELSE "false"
  /\ pc' = "done"
  /\ UNCHANGED <<locked, clock, slept, w, expected, doAssert>>

Finished ==
  /\ pc \in {"done", "raised"}
  /\ UNCHANGED vars

Harness == WaitUntil \/ Decide

\* a call with any of its argument combinations, the lock not yet there
\* or already there
Init ==
  /\ locked \in BOOLEAN
  /\ clock = 0 /\ slept = 0
  /\ pc = "poll" /\ w = FALSE
  /\ expected \in BOOLEAN /\ doAssert \in BOOLEAN
  /\ outcome = "none"

Next == Harness \/ Lock \/ Tick \/ Finished

Spec == Init /\ [][Next]_vars

\* The test thread runs and time passes; the lock need not come.
LiveSpec == Spec /\ WF_vars(Harness) /\ WF_vars(Tick)

-----------------------------------------------------------------------------
(* Refinement: wait_until is a bounded poll of the lock; an exception out *)
(* of the predicate has no counterpart.                                    *)

PollResult ==
  CASE pc \in {"decide", "done"} -> IF w THEN "true" ELSE "false"
    [] pc = "raised"             -> "raised"
    [] OTHER                     -> "pending"

Poll == INSTANCE BoundedPoll
          WITH pred <- locked, elapsed <- clock, result <- PollResult

TypeOK ==
  /\ locked \in BOOLEAN /\ w \in BOOLEAN
  /\ expected \in BOOLEAN /\ doAssert \in BOOLEAN
  /\ clock \in 0..MaxTime /\ slept \in 0..Timeout
  /\ pc \in {"poll", "decide", "done", "raised"}
  /\ outcome \in {"none", "true", "false", "assert"}

\* wait_until over check_instantlock implements the bounded poller of
\* spec 4.1 even when getrawtransaction fails on the transport: the
\* try/except makes the failure "not yet", and the sleeps it counts never
\* exceed the time that has really passed.
PollRefined == Poll!Spec

\* wait_for_instantlock returns or raises, whether or not the lock comes.
PollReturns == Poll!Returns

=============================================================================
