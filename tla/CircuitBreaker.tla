--------------------------- MODULE CircuitBreaker ---------------------------
(***************************************************************************)
(* application/services/circuit_breaker.py: the methods of a breaker as    *)
(* functions from breaker to breaker.  Each method holds the lock and      *)
(* awaits nothing, so it is one step of whoever calls it.                  *)
(*                                                                         *)
(* Time is kept as what is left of it: cooling is how long before an open  *)
(* breaker may be probed.  Failures are counted up to Threshold: beyond it *)
(* no count makes a difference.                                            *)
(***************************************************************************)
EXTENDS Integers

CONSTANTS
  Threshold,  \* circuit_failure_threshold
  Recovery    \* circuit_recovery_seconds, in ticks

ASSUME BreakerAssumption == Threshold \in Nat \ {0} /\ Recovery \in Nat \ {0}

\* _TRANSIENT_CODES, and the codes a gateway retries.
Transient == {"rate_limited", "timeout", "unavailable"}

Breaker == [state : {"closed", "open", "half_open"}, failures : 0 .. Threshold,
            cooling : 0 .. Recovery, probe : BOOLEAN]

\* _close, and a new breaker.
Closed == [state |-> "closed", failures |-> 0, cooling |-> 0, probe |-> FALSE]

\* _open keeps the count.
Opened(b) == [b EXCEPT !.state = "open", !.cooling = Recovery, !.probe = FALSE]

\* before_call raises circuit_open.
Rejects(b) == \/ b.state = "open" /\ b.cooling > 0
              \/ b.state = "half_open" /\ b.probe

\* before_call returns: who comes first after the recovery time is the probe.
Admitted(b) ==
  IF b.state = "closed" THEN b
  ELSE [b EXCEPT !.state = "half_open", !.cooling = 0, !.probe = TRUE]

\* record_success, whatever the state.
RecordSuccess(b) == Closed

\* record_failure: an error that is not transient ends a probe well.
RecordFailure(b, code) ==
  LET counted == [b EXCEPT !.failures = IF @ < Threshold THEN @ + 1 ELSE @]
  IN CASE code \notin Transient /\ b.state = "half_open" -> Closed
       [] code \notin Transient /\ b.state # "half_open" -> b
       [] code \in Transient /\ b.state = "half_open"    -> Opened(b)
       [] code \in Transient /\ b.state # "half_open"    ->
            IF counted.failures = Threshold THEN Opened(counted) ELSE counted

\* MUTANT of RecordCancelled: it is forgotten.
CancellationIsIgnored(b) == b

\* record_cancelled: the slot of the probe is free again.
RecordCancelled(b) == IF b.state = "half_open" THEN [b EXCEPT !.probe = FALSE] ELSE b

\* One tick passes.
Cooled(b) == [b EXCEPT !.cooling = IF @ > 0 THEN @ - 1 ELSE 0]
=============================================================================
