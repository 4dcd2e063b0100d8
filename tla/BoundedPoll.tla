----------------------------- MODULE BoundedPoll -----------------------------
(***************************************************************************)
(* The contract of the harness's bounded poller (wait_until): evaluate a  *)
(* predicate until it holds or the timeout has elapsed, and return        *)
(* True or False.  A transport error while evaluating the predicate       *)
(* counts as "not yet satisfied", so the only outcomes are the two        *)
(* results; the poller never answers True on a predicate it has not seen  *)
(* hold, and never gives up before the timeout.                            *)
(*                                                                         *)
(* pred is whatever the predicate would answer now; the environment may   *)
(* change it at any time.  Time is counted in ticks up to MaxTime.        *)
(***************************************************************************)
EXTENDS Naturals

CONSTANTS
  Timeout,  \* the timeout argument, in ticks
  MaxTime   \* ticks the model lets pass

ASSUME Timeout \in Nat /\ MaxTime \in Nat /\ Timeout <= MaxTime

VARIABLES
  pred,     \* the predicate's current answer
  elapsed,  \* ticks since the call
  result    \* "pending" while the call runs, then "true" or "false"

vars == <<pred, elapsed, result>>

Init ==
  /\ pred \in BOOLEAN
  /\ elapsed = 0
  /\ result = "pending"

\* real time passes, during the call or after it
Tick ==
  /\ elapsed < MaxTime
  /\ elapsed' = elapsed + 1
  /\ UNCHANGED <<pred, result>>

\* the observed system moves on
Change ==
  /\ pred' \in BOOLEAN
  /\ UNCHANGED <<elapsed, result>>

\* an evaluation of the predicate answered True
ReturnTrue ==
  /\ result = "pending" /\ pred
  /\ result' = "true"
  /\ UNCHANGED <<pred, elapsed>>

\* the timeout has elapsed
ReturnFalse ==
  /\ result = "pending" /\ elapsed >= Timeout
  /\ result' = "false"
  /\ UNCHANGED <<pred, elapsed>>

Next == Tick \/ Change \/ ReturnTrue \/ ReturnFalse

Spec == Init /\ [][Next]_vars

\* The call ends, with one of its two results, once time keeps passing.
Returns == <>(result \in {"true", "false"})

=============================================================================
