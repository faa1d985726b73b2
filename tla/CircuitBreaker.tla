---------------------------- MODULE CircuitBreaker -----------------------------
(******************************************************************************)
(* One breaker of gateway/circuitbreaker.go under concurrent calls.  A call   *)
(* is admitted by Allow (LoadBalancer.Pick), runs under the context deadline  *)
(* of its request, and reports exactly one RecordSuccess or RecordFailure     *)
(* (Proxy.forward, and the goroutines of handleFlood).  Results arrive in any *)
(* order, also after the breaker has moved on.                                *)
(******************************************************************************)
EXTENDS Breaker

CONSTANTS
  Call,       \* the calls that may be under way at once
  Timeout     \* longest budget, in ticks, a call can have left when it starts

(* A breaker cools down for 10 s (gateway/loadbalancer.go).  userProxy,       *)
(* productProxy and the flood give a request 5 s, but orderProxy all of 10 s  *)
(* (gateway/main.go): that the budget is shorter is no assumption.            *)
ASSUME BudgetAssumption == Timeout \in Nat

VARIABLES
  cb,         \* the breaker
  calls       \* ticks left to each running call; its domain is the running calls

vars == <<cb, calls>>

Running == DOMAIN calls

TypeOK ==
  /\ cb \in BreakerType
  /\ Running \subseteq Call
  /\ calls \in [Running -> 0 .. Timeout]

Init ==
  /\ cb = NewCircuitBreaker
  /\ calls = [c \in {} |-> 0]

(* Allow lets the call in.  Its request may have spent part of its budget on  *)
(* earlier attempts, so it starts with any left \in 0 .. Timeout.             *)
Start(c, left) ==
  /\ c \notin Running
  /\ Allow(cb)
  /\ cb' = AfterAllow(cb)
  /\ calls' = [d \in Running \cup {c} |-> IF d = c THEN left ELSE calls[d]]

Return(c) ==
  /\ c \in Running
  /\ calls' = [d \in Running \ {c} |-> calls[d]]

Succeed(c) == Return(c) /\ cb' = RecordSuccess(cb)

(* Seeded fault: a call that was cut short is not held against the backend.   *)
UnreportedFail(c) ==
  Return(c) /\ cb' = IF calls[c] = 0 THEN cb ELSE RecordFailure(cb)

Fail(c) == Return(c) /\ cb' = RecordFailure(cb)

(* The client went away: the request's context is done at once.               *)
Cancel(c) ==
  /\ c \in Running
  /\ calls' = [calls EXCEPT ![c] = 0]
  /\ UNCHANGED cb

(* Seeded fault: the calls do not carry the context of their request, so     *)
(* they outlive its deadline.                                                 *)
UnboundedTick ==
  /\ calls' = [c \in Running |-> IF calls[c] > 0 THEN calls[c] - 1 ELSE 0]
  /\ cb' = Elapse(cb)

(* Time passes.  No call outlives its deadline: http.Client.Do and the reads  *)
(* of the body return when the context is done.                               *)
Tick ==
  /\ \A c \in Running : calls[c] > 0
  /\ calls' = [c \in Running |-> calls[c] - 1]
  /\ cb' = Elapse(cb)

Next ==
  \/ \E c \in Call, left \in 0 .. Timeout : Start(c, left)
  \/ \E c \in Call : Succeed(c) \/ Fail(c) \/ Cancel(c)
  \/ Tick

Spec == Init /\ [][Next]_vars

(* Time goes on, every call ends (its deadline forces it to), and there is    *)
(* always another client asking.                                              *)
Fairness ==
  /\ WF_vars(Tick)
  /\ \A c \in Call : WF_vars(Succeed(c) \/ Fail(c))
  /\ WF_vars(\E c \in Call, left \in 0 .. Timeout : Start(c, left))

FairSpec == Spec /\ Fairness

--------------------------------------------------------------------------------
(* The breaker is closed exactly while the failures in a row are below the    *)
(* threshold.  RecordFailure has no case for half-open: that a failed probe   *)
(* re-opens the breaker rests on the counter still being at the threshold     *)
(* there, whatever results came in before.                                    *)
ClosedBelowThreshold == (cb.state = "closed") <=> (cb.failures < Threshold)

(* Where budgets are shorter than the cooldown: while the breaker is          *)
(* half-open the probe is the only call under way.  The calls of the closed   *)
(* phase are over and nobody else gets in, so the next result the breaker     *)
(* sees is the probe's.  The code does not track the probe; it is the         *)
(* cooldown, counted from the last failure, that keeps late results out.      *)
HalfOpenExclusive ==
  cb.state = "half-open" => \E c \in Call : Running = {c}

(* Whatever the budget: a half-open breaker has a probe under way, and what   *)
(* other calls have left is at most what the budget exceeds the cooldown by.  *)
(* In the order pool, where they are equal, such a call is out of time: only  *)
(* the instant in which its result is recorded can clash with the probe.      *)
LateCallsAreOut ==
  cb.state = "half-open" =>
    \E c \in Running : \A d \in Running \ {c} : calls[d] + OpenDuration <= Timeout

(* Why: every call that is under way while the breaker is open has started    *)
(* before the last failure, so what is left of its budget and the time since  *)
(* that failure add up to at most one budget.                                 *)
OpenOutlastsCalls ==
  cb.state = "open" => \A c \in Running : calls[c] + cb.since <= Timeout

(* Seen from its calls, the breaker does what BreakerContract promises.       *)
Contract == INSTANCE BreakerContract WITH mode <- cb.state, running <- Running

ContractSpec == Contract!Spec

(* An open breaker does not stay open: late failures restart the cooldown,    *)
(* but only the finitely many calls admitted before it opened can do so.      *)
OpenEnds == (cb.state = "open") ~> (cb.state # "open")

(* A half-open breaker does not stay half-open: its probe always reports.     *)
HalfOpenEnds == (cb.state = "half-open") ~> (cb.state # "half-open")

================================================================================
