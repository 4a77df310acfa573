---------------------------- MODULE BreakerState ----------------------------
(***************************************************************************)
(* The state of one CircuitBreaker (packages/infra/src/circuit-breaker.ts) *)
(* and the three synchronous pieces of execute(): admission, onSuccess()   *)
(* and onFailure().  Time enters as "cooled": resetTimeoutMs have passed   *)
(* since lastFailureAt.                                                    *)
(***************************************************************************)
EXTENDS Integers

CONSTANTS Threshold,    \* failureThreshold
          HalfOpenMax,  \* halfOpenMaxAttempts
          FailureCap    \* the failure counter saturates here

BreakerAssumption ==
    /\ Threshold \in Nat \ {0}
    /\ HalfOpenMax \in Nat \ {0}
    /\ FailureCap \in Nat /\ FailureCap >= Threshold

Breakers == [state : {"closed", "open", "half-open"},
             failures : 0..FailureCap, attempts : 0..HalfOpenMax, cooled : BOOLEAN]

NewBreaker == [state |-> "closed", failures |-> 0, attempts |-> 0, cooled |-> FALSE]

\* execute() throws without calling fn.
Refuses(b) == \/ b.state = "open" /\ ~b.cooled
              \/ b.state = "half-open" /\ b.attempts >= HalfOpenMax

\* The breaker after execute() let a call through.
Admitted(b) ==
    CASE b.state = "closed"    -> b
      [] b.state = "open"      -> [b EXCEPT !.state = "half-open", !.attempts = 1]
      [] b.state = "half-open" -> [b EXCEPT !.attempts = @ + 1]

\* onSuccess()
AfterSuccess(b) == [b EXCEPT !.failures = 0, !.state = "closed"]

\* onFailure()
AfterFailure(b) ==
    LET failures == IF b.failures < FailureCap THEN b.failures + 1 ELSE b.failures IN
    [b EXCEPT !.failures = failures, !.cooled = FALSE,
              !.state = IF failures >= Threshold THEN "open" ELSE @]

\* resetTimeoutMs have passed since the last failure.
Cooled(b) == [b EXCEPT !.cooled = TRUE]
=============================================================================
