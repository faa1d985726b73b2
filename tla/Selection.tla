------------------------------- MODULE Selection -------------------------------
(******************************************************************************)
(* How the algorithms of LoadBalancer share out requests over a pool that     *)
(* does not change meanwhile: the same healthy backends, every breaker        *)
(* closed, the same requests in flight.  What the pool learns of latencies    *)
(* may change at any time.  wins counts who was picked since the pool settled *)
(* or the algorithm was switched.                                             *)
(******************************************************************************)
EXTENDS LoadBalancer

CONSTANTS
  Busy,       \* backends that may be kept busy by a warm-up request
  MaxPicks    \* bound on the picks that are counted

VARIABLE wins     \* how often each backend was picked

selVars == <<vars, wins>>

NoWins == [b \in Backend |-> 0]

Picks == SumOf(wins)

SelInit == Init /\ wins = NoWins

(* Before the first pick is counted the pool settles: probes come back,       *)
(* warm-up requests start and end (gateway/simulate.go, handleWarmup).        *)
Settling == mu = "free" /\ wins = NoWins

ProbeBack(b, ok) == Settling /\ checkBackend(b, ok) /\ UNCHANGED wins

WarmUp(b) == Settling /\ AddActive(b) /\ UNCHANGED wins

CoolDown(b) == Settling /\ DropActive(b) /\ UNCHANGED wins

Settle ==
  \/ \E b \in Flaky, ok \in BOOLEAN : ProbeBack(b, ok)
  \/ \E b \in Busy : WarmUp(b) \/ CoolDown(b)

(* An answer of b has been relayed and its latency is recorded.               *)
Learn(b, us) == RecordLatency(b, us) /\ UNCHANGED wins

Ask(hash) == Picks < MaxPicks /\ Choose(hash) /\ UNCHANGED wins

Win(b) == Granted(b) /\ wins' = [wins EXCEPT ![b] = @ + 1]

NobodyLeft == GiveUp /\ UNCHANGED wins

Switch(a) == SetAlgorithm(a) /\ wins' = NoWins

SelNext ==
  \/ Settle
  \/ \E b \in Called, us \in Sample : Learn(b, us)
  \/ \E hash \in Hashes : Ask(hash)
  \/ \E b \in Backend : Win(b)
  \/ NobodyLeft
  \/ \E a \in Algorithms : Switch(a)

SelSpec == SelInit /\ [][SelNext]_selVars

--------------------------------------------------------------------------------
(* What one round is: everybody once, or as often as its weight says.         *)
Share(b) == IF algorithm = "weighted-round-robin" THEN Weight[b] ELSE 1

Round == SumOf([b \in Backend |-> IF healthy[b] THEN Share(b) ELSE 0])

(* The algorithms that do not draw lots are exact: at the end of every round  *)
(* each healthy backend has had its share.  For weighted round-robin that is  *)
(* the example in its header comment, for any weights and although ties go to *)
(* a rotating backend.  For the algorithms that look for a best one it is     *)
(* what rotateStart is for, while all look alike: with an idle pool, or with  *)
(* nobody measured (cold start).  Once one latency is recorded                *)
(* least-response-time is meant to be uneven and nothing is said of it.       *)
Idle == \A b \in Backend : active[b] = 0

Unmeasured == \A b \in Backend : ewmaUs[b] = 0

Alike ==
  /\ algorithm = "least-connections" => Idle
  /\ algorithm = "least-response-time" => Unmeasured

SharedOut ==
  (Round > 0 /\ Picks % Round = 0 /\ Alike) =>
    \A b \in Backend :
      wins[b] = IF healthy[b] THEN (Picks \div Round) * Share(b) ELSE 0

================================================================================
