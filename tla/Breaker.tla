-------------------------------- MODULE Breaker --------------------------------
(******************************************************************************)
(* The circuit breaker of gateway/circuitbreaker.go as a value: what each of  *)
(* its methods does to the fields of one breaker.  Every method runs under    *)
(* cb.mu, so each is one atomic function of the breaker.  CircuitBreaker puts *)
(* a breaker under concurrent calls; LoadBalancer keeps one per backend.      *)
(*                                                                            *)
(* Time is counted in ticks.  Instead of the instant lastFailure a breaker    *)
(* carries  since,  the ticks elapsed since then.  The code reads the clock   *)
(* only in  time.Since(lastFailure) >= openDuration,  so since stops growing  *)
(* at OpenDuration; failures is only compared with the threshold, so it stops *)
(* growing there.                                                             *)
(******************************************************************************)
EXTENDS Integers

CONSTANTS
  Threshold,      \* failures in a row that open the breaker
  OpenDuration    \* ticks an open breaker waits before it lets a trial through

ASSUME BreakerAssumption ==
  /\ Threshold \in Nat \ {0}
  /\ OpenDuration \in Nat \ {0}

cbState == {"closed", "open", "half-open"}

BreakerType ==
  [state : cbState, failures : 0 .. Threshold, since : 0 .. OpenDuration]

(* lastFailure starts as the zero time: any cooldown has long elapsed.        *)
NewCircuitBreaker == [state |-> "closed", failures |-> 0, since |-> OpenDuration]

(* Seeded faults: each is the definition whose name it ends in, with a         *)
(* plausible bug; the runs show that some property notices.                   *)
(* FaultyOpenAllow: the cooldown branch of Allow is missing.                  *)
FaultyOpenAllow(cb) == cb.state = "closed"

(* FaultySharedAllow: half-open does not refuse, every caller is a probe.     *)
FaultySharedAllow(cb) == cb.state # "open" \/ cb.since >= OpenDuration

(* FaultyAfterAllow: the probe is let through but half-open is not recorded.  *)
FaultyAfterAllow(cb) == cb

(* FaultyRecordSuccess: closes the breaker and keeps the failure count.       *)
FaultyRecordSuccess(cb) == [cb EXCEPT !.state = "closed"]

(* LeakyRecordSuccess: a success takes one failure back, with no floor.       *)
LeakyRecordSuccess(cb) == [cb EXCEPT !.state = "closed", !.failures = @ - 1]

(* FaultyRecordFailure: only the first failure of a row is time-stamped.      *)
FaultyRecordFailure(cb) ==
  LET n == IF cb.failures < Threshold THEN cb.failures + 1 ELSE cb.failures
  IN  [state    |-> IF n >= Threshold THEN "open" ELSE cb.state,
       failures |-> n,
       since    |-> IF cb.failures = 0 THEN 0 ELSE cb.since]

(* Allow, split in two: what it answers, and the breaker it leaves behind     *)
(* when the answer is TRUE (a refusal changes nothing).                       *)
Allow(cb) ==
  \/ cb.state = "closed"
  \/ cb.state = "open" /\ cb.since >= OpenDuration

AfterAllow(cb) ==
  IF cb.state = "open" THEN [cb EXCEPT !.state = "half-open"] ELSE cb

RecordSuccess(cb) == [cb EXCEPT !.state = "closed", !.failures = 0]

CountFailure(n) == IF n < Threshold THEN n + 1 ELSE n

RecordFailure(cb) ==
  LET n == CountFailure(cb.failures)
  IN  [state    |-> IF n >= Threshold THEN "open" ELSE cb.state,
       failures |-> n,
       since    |-> 0]

(* One tick of the clock that time.Since reads.                               *)
Elapse(cb) ==
  [cb EXCEPT !.since = IF @ < OpenDuration THEN @ + 1 ELSE @]

================================================================================
