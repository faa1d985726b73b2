---------------------------- MODULE BreakerContract ----------------------------
(******************************************************************************)
(* What a circuit breaker promises the calls that go through it, with neither *)
(* clocks nor counters: a closed breaker admits anyone; an open one admits a  *)
(* single trial, and only once every earlier call is over; a half-open one    *)
(* admits nobody; a failed trial opens it again.  (The header comment and the *)
(* remarks in Allow, gateway/circuitbreaker.go: "one probe allowed",          *)
(* "probe already in-flight".)                                                *)
(******************************************************************************)

CONSTANT Call

VARIABLES
  mode,       \* what the breaker is doing with new calls
  running     \* the calls it admitted that have no result yet

vars == <<mode, running>>

TypeOK ==
  /\ mode \in {"closed", "open", "half-open"}
  /\ running \in SUBSET Call

Init == mode = "closed" /\ running = {}

Admit(c) ==
  /\ mode = "closed"
  /\ c \notin running
  /\ running' = running \cup {c}
  /\ UNCHANGED mode

Trial(c) ==
  /\ mode = "open"
  /\ running = {}
  /\ mode' = "half-open"
  /\ running' = {c}

Succeed(c) ==
  /\ c \in running
  /\ running' = running \ {c}
  /\ mode' = "closed"

(* A closed breaker may put up with a failure; any other one is open after it. *)
Fail(c) ==
  /\ c \in running
  /\ running' = running \ {c}
  /\ mode' \in IF mode = "closed" THEN {"closed", "open"} ELSE {"open"}

Next == \E c \in Call : Admit(c) \/ Trial(c) \/ Succeed(c) \/ Fail(c)

Spec == Init /\ [][Next]_vars

================================================================================
