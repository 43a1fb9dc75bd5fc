--------------------------- MODULE CircuitBreaker ---------------------------
(***************************************************************************)
(* The per-endpoint circuit breaker of the webhook dispatcher              *)
(* (services/webhook-dispatcher/circuitbreaker/breaker.go).                *)
(*                                                                         *)
(* A breaker is a value here; every method of the Go type holds cb.mu from *)
(* its first to its last line, so a method is one operator from the old    *)
(* value to the new one.  The time stamp lastFailure is kept as the time   *)
(* elapsed since it, which is all Allow looks at, and stops growing once   *)
(* it is past openTimeout.                                                 *)
(***************************************************************************)
EXTENDS Naturals

CONSTANTS
  FailureThresh,   \* recorded failures in a row that open a closed circuit
  SuccessThresh,   \* successes needed in half-open to close
  OpenTimeout      \* openTimeout, in clock ticks

ASSUME BreakerAssumption ==
  /\ FailureThresh \in Nat \ {0}
  /\ SuccessThresh \in Nat \ {0}
  /\ OpenTimeout \in Nat

\* Elapsed times are told apart up to "more than OpenTimeout".
Elapsed == 0 .. OpenTimeout + 1

Expired == OpenTimeout + 1

State == {"closed", "open", "half-open"}

Breaker == [state        : State,
            failureCount : Nat,
            successCount : Nat,
            sinceFailure : Elapsed]

\* A new breaker has the zero time as lastFailure: any timeout has passed.
NewCircuitBreaker ==
  [state |-> "closed", failureCount |-> 0, successCount |-> 0, sinceFailure |-> Expired]

Later(t) == IF t < Expired THEN t + 1 ELSE t

\* What the passing of one tick does to a breaker.
Aged(b) == [b EXCEPT !.sinceFailure = Later(@)]

-----------------------------------------------------------------------------
\* Mutant: the half-open transition forgets to restart the success count.
AllowKeepsSuccesses(b) ==
  CASE b.state = "open" /\ b.sinceFailure > OpenTimeout ->
         [ok |-> TRUE, cb |-> [b EXCEPT !.state = "half-open"]]
    [] b.state = "open" /\ ~(b.sinceFailure > OpenTimeout) -> [ok |-> FALSE, cb |-> b]
    [] OTHER -> [ok |-> TRUE, cb |-> b]

\* Mutant: an open circuit never lets a probe through.
AllowNeverProbes(b) == [ok |-> b.state # "open", cb |-> b]

\* Allow: the answer, and the breaker it leaves behind.
Allow(b) ==
  CASE b.state = "open" /\ b.sinceFailure > OpenTimeout ->
         [ok |-> TRUE, cb |-> [b EXCEPT !.state = "half-open", !.successCount = 0]]
    [] b.state = "open" /\ ~(b.sinceFailure > OpenTimeout) -> [ok |-> FALSE, cb |-> b]
    [] OTHER -> [ok |-> TRUE, cb |-> b]

\* Mutant: a success takes one failure back instead of clearing them all.
RecordSuccessDecays(b) ==
  LET n == b.successCount + 1
      decayed == [b EXCEPT !.failureCount = @ - 1]
  IN  IF b.state # "half-open" THEN decayed
      ELSE IF n >= SuccessThresh
           THEN [decayed EXCEPT !.state = "closed", !.successCount = 0]
           ELSE [decayed EXCEPT !.successCount = n]

RecordSuccess(b) ==
  LET reset == [b EXCEPT !.failureCount = 0]
      n     == b.successCount + 1
  IN  IF b.state # "half-open" THEN reset
      ELSE IF n >= SuccessThresh
           THEN [reset EXCEPT !.state = "closed", !.successCount = 0]
           ELSE [reset EXCEPT !.successCount = n]

\* Mutant: the time stamp is only taken when the circuit opens.
RecordFailureStampsOnce(b) ==
  LET n == b.failureCount + 1
      opens == b.state = "half-open" \/ n >= FailureThresh
  IN  [b EXCEPT !.failureCount = n,
                !.sinceFailure = IF b.state # "open" THEN 0 ELSE @,
                !.state = IF opens THEN "open" ELSE @]

\* Mutant: the threshold is exceeded, not reached.
RecordFailureOffByOne(b) ==
  LET n == b.failureCount + 1
  IN  [b EXCEPT !.failureCount = n,
                !.sinceFailure = 0,
                !.state = IF b.state = "half-open" \/ n > FailureThresh THEN "open" ELSE @]

RecordFailure(b) ==
  LET n == b.failureCount + 1
  IN  [b EXCEPT !.failureCount = n,
                !.sinceFailure = 0,
                !.state = IF b.state = "half-open" \/ n >= FailureThresh THEN "open" ELSE @]

=============================================================================
