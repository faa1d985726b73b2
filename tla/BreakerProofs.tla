----------------------------- MODULE BreakerProofs -----------------------------
(******************************************************************************)
(* Facts about the operators of Breaker: what the methods of a breaker do to  *)
(* one that is well typed, and what keeps a breaker and the calls it has let  *)
(* in Sound.  They speak of any breaker c and any calls k, so they serve the  *)
(* one breaker of CircuitBreaker and every backend's of Proxy alike.          *)
(******************************************************************************)
EXTENDS Breaker, TLAPS

LEMMA NewBreakerIsClosed ==
  /\ NewCircuitBreaker \in BreakerType
  /\ NewCircuitBreaker.state = "closed"
  /\ NewCircuitBreaker.failures = 0
  BY BreakerAssumption DEF NewCircuitBreaker, BreakerType, cbState

LEMMA RecordSuccessCloses ==
  ASSUME NEW b \in BreakerType
  PROVE  /\ RecordSuccess(b) \in BreakerType
         /\ RecordSuccess(b).state = "closed"
         /\ RecordSuccess(b).failures = 0
<1>1. 0 \in 0 .. Threshold
  BY BreakerAssumption
<1>2. /\ RecordSuccess(b).state = "closed"
      /\ RecordSuccess(b).failures = 0
  BY DEF BreakerType, RecordSuccess
<1>3. RecordSuccess(b) \in BreakerType
  BY <1>1 DEF BreakerType, cbState, RecordSuccess
<1> QED BY <1>2, <1>3

LEMMA RecordFailureCounts ==
  ASSUME NEW b \in BreakerType
  PROVE  /\ RecordFailure(b) \in BreakerType
         /\ RecordFailure(b).since = 0
         /\ RecordFailure(b).failures >= b.failures
         /\ RecordFailure(b).failures >= Threshold => RecordFailure(b).state = "open"
         /\ RecordFailure(b).failures < Threshold => RecordFailure(b).state = b.state
  BY BreakerAssumption DEF BreakerType, cbState, RecordFailure, CountFailure

LEMMA AfterAllowKeepsCounts ==
  ASSUME NEW b \in BreakerType
  PROVE  /\ AfterAllow(b) \in BreakerType
         /\ AfterAllow(b).failures = b.failures
         /\ AfterAllow(b).since = b.since
         /\ AfterAllow(b).state = IF b.state = "open" THEN "half-open" ELSE b.state
  BY DEF BreakerType, cbState, AfterAllow

LEMMA ElapseKeepsState ==
  ASSUME NEW b \in BreakerType
  PROVE  /\ Elapse(b) \in BreakerType
         /\ Elapse(b).state = b.state
         /\ Elapse(b).failures = b.failures
         /\ Elapse(b).since <= b.since + 1
  BY BreakerAssumption DEF BreakerType, cbState, Elapse

--------------------------------------------------------------------------------
(* A breaker c and the ticks k that the calls it has let in have left, each   *)
(* started with at most budget.  That late calls are out of time when the     *)
(* breaker is half-open is what matters; it does not keep itself: that the    *)
(* calls still inside when an open breaker admits its probe are out of time   *)
(* needs the conjunct about open, and that a failure in half-open opens the   *)
(* breaker again needs the one about closed.                                  *)
Sound(c, k, budget) ==
  /\ c \in BreakerType
  /\ k \in [DOMAIN k -> 0 .. budget]
  /\ (c.state = "closed") <=> (c.failures < Threshold)
  /\ c.state = "open" => \A x \in DOMAIN k : k[x] + c.since <= budget
  /\ c.state = "half-open" =>
       \E x \in DOMAIN k : \A y \in DOMAIN k \ {x} : k[y] + OpenDuration <= budget

LEMMA NewIsSound ==
  ASSUME NEW k, DOMAIN k = {}, k \in [DOMAIN k -> {}], NEW budget \in Nat
  PROVE  Sound(NewCircuitBreaker, k, budget)
  BY NewBreakerIsClosed, BreakerAssumption DEF Sound

(* When an open breaker lets its probe in, the time of every earlier call is  *)
(* up but for the excess of the budget over the cooldown.                     *)
LEMMA ProbeFindsLateCalls ==
  ASSUME NEW budget \in Nat, NEW c, NEW k, Sound(c, k, budget),
         c.state = "open", c.since >= OpenDuration
  PROVE  \A x \in DOMAIN k : k[x] + OpenDuration <= budget
<1> SUFFICES ASSUME NEW x \in DOMAIN k PROVE k[x] + OpenDuration <= budget
  OBVIOUS
<1>1. k[x] \in 0 .. budget /\ c.since \in 0 .. OpenDuration
  BY DEF Sound, BreakerType
<1>2. k[x] + c.since <= budget
  BY DEF Sound
<1> QED BY <1>1, <1>2, BreakerAssumption

LEMMA StartSound ==
  ASSUME NEW budget \in Nat, NEW c, NEW k, Sound(c, k, budget), Allow(c),
         NEW x, NEW left \in 0 .. budget, x \notin DOMAIN k,
         NEW k1, k1 = [y \in DOMAIN k \cup {x} |-> IF y = x THEN left ELSE k[y]]
  PROVE  Sound(AfterAllow(c), k1, budget)
<1> DEFINE c1 == AfterAllow(c)
<1>1. /\ c1 \in BreakerType
      /\ c1.failures = c.failures
      /\ c1.state = IF c.state = "open" THEN "half-open" ELSE c.state
  BY AfterAllowKeepsCounts DEF Sound
<1>2. k1 \in [DOMAIN k1 -> 0 .. budget]
  BY DEF Sound
<1>3. (c1.state = "closed") <=> (c1.failures < Threshold)
  BY <1>1 DEF Sound
<1>4. c1.state # "open"
  BY <1>1
<1>5. ASSUME c1.state = "half-open"
      PROVE  \A y \in DOMAIN k1 \ {x} : k1[y] + OpenDuration <= budget
  <2>1. c.state = "open" /\ c.since >= OpenDuration
    BY <1>1, <1>5 DEF Allow
  <2> QED BY <2>1, ProbeFindsLateCalls
<1> HIDE DEF c1
<1>6. x \in DOMAIN k1
  OBVIOUS
<1> QED BY <1>1, <1>2, <1>3, <1>4, <1>5, <1>6 DEF Sound, c1

(* A success closes the breaker: nothing is left to be shown of its calls.    *)
LEMMA SuccessSound ==
  ASSUME NEW budget \in Nat, NEW c, NEW k, Sound(c, k, budget), NEW x
  PROVE  Sound(RecordSuccess(c), [y \in DOMAIN k \ {x} |-> k[y]], budget)
<1>1. c \in BreakerType
  BY DEF Sound
<1> QED BY <1>1, RecordSuccessCloses, BreakerAssumption DEF Sound

(* A failure leaves the breaker closed, below the threshold, or open with a   *)
(* cooldown that starts now.                                                  *)
LEMMA FailureSound ==
  ASSUME NEW budget \in Nat, NEW c, NEW k, Sound(c, k, budget), NEW x
  PROVE  Sound(RecordFailure(c), [y \in DOMAIN k \ {x} |-> k[y]], budget)
<1> DEFINE c1 == RecordFailure(c)
           k1 == [y \in DOMAIN k \ {x} |-> k[y]]
<1> c \in BreakerType
  BY DEF Sound
<1>1. /\ c1 \in BreakerType
      /\ c1.since = 0
      /\ c1.failures >= c.failures
      /\ c1.failures >= Threshold => c1.state = "open"
      /\ c1.failures < Threshold => c1.state = c.state
  BY RecordFailureCounts
<1> HIDE DEF c1
<1>2. c.failures \in Nat /\ c1.failures \in Nat /\ Threshold \in Nat
  BY <1>1, BreakerAssumption DEF BreakerType
<1>3. c1.failures < Threshold => c.failures < Threshold /\ c1.state = "closed"
  BY <1>1, <1>2 DEF Sound
<1>4. c1.failures < Threshold \/ c1.failures >= Threshold
  BY <1>2
<1>5. (c1.state = "closed") <=> (c1.failures < Threshold)
  BY <1>1, <1>3, <1>4
<1>6. c1.state # "half-open"
  BY <1>1, <1>3, <1>4
<1>7. k1 \in [DOMAIN k1 -> 0 .. budget]
  BY DEF Sound
<1>8. \A y \in DOMAIN k1 : k1[y] + c1.since <= budget
  BY <1>1, <1>7
<1> QED BY <1>1, <1>5, <1>6, <1>7, <1>8 DEF Sound, c1

(* Calls that have less left, by at least what the cooldown has gone on, are  *)
(* as late as they were.                                                      *)
LEMMA LessLeftSound ==
  ASSUME NEW budget \in Nat, NEW c, NEW k, Sound(c, k, budget), NEW c1, NEW k1,
         c1 \in BreakerType, c1.state = c.state, c1.failures = c.failures,
         k1 \in [DOMAIN k -> 0 .. budget],
         \A x \in DOMAIN k : k1[x] <= k[x] /\ k1[x] + c1.since <= k[x] + c.since
  PROVE  Sound(c1, k1, budget)
<1>1. \A x \in DOMAIN k : k[x] \in Nat /\ k1[x] \in Nat
  BY DEF Sound
<1>2. c.since \in Nat /\ c1.since \in Nat /\ OpenDuration \in Nat
  BY BreakerAssumption DEF Sound, BreakerType
<1>3. DOMAIN k1 = DOMAIN k
  OBVIOUS
<1>4. ASSUME c.state = "open", NEW x \in DOMAIN k
      PROVE  k1[x] + c1.since <= budget
  <2>1. k[x] + c.since <= budget
    BY <1>4 DEF Sound
  <2> QED BY <2>1, <1>1, <1>2
<1>5. ASSUME c.state = "half-open"
      PROVE  \E x \in DOMAIN k :
               \A y \in DOMAIN k \ {x} : k1[y] + OpenDuration <= budget
  <2>1. PICK x \in DOMAIN k :
          \A y \in DOMAIN k \ {x} : k[y] + OpenDuration <= budget
    BY <1>5 DEF Sound
  <2>2. ASSUME NEW y \in DOMAIN k \ {x} PROVE k1[y] + OpenDuration <= budget
    <3>1. k[y] + OpenDuration <= budget /\ k1[y] <= k[y]
      BY <2>1
    <3> QED BY <3>1, <1>1, <1>2
  <2> QED BY <2>2
<1>6. (c1.state = "closed") <=> (c1.failures < Threshold)
  BY DEF Sound
<1>7. c1.state = "open" => \A x \in DOMAIN k1 : k1[x] + c1.since <= budget
  BY <1>3, <1>4
<1>8. c1.state = "half-open" =>
        \E x \in DOMAIN k1 : \A y \in DOMAIN k1 \ {x} : k1[y] + OpenDuration <= budget
  BY <1>3, <1>5
<1> QED BY <1>3, <1>6, <1>7, <1>8 DEF Sound

LEMMA CancelSound ==
  ASSUME NEW budget \in Nat, NEW c, NEW k, Sound(c, k, budget), NEW x
  PROVE  Sound(c, [k EXCEPT ![x] = 0], budget)
<1> DEFINE k1 == [k EXCEPT ![x] = 0]
<1>1. c \in BreakerType /\ k \in [DOMAIN k -> 0 .. budget] /\ c.since \in Nat
  BY BreakerAssumption DEF Sound, BreakerType
<1>2. k1 = [y \in DOMAIN k |-> IF y = x THEN 0 ELSE k[y]]
  OBVIOUS
<1>3. k1 \in [DOMAIN k -> 0 .. budget]
  <2>1. \A y \in DOMAIN k : (IF y = x THEN 0 ELSE k[y]) \in 0 .. budget
    BY <1>1
  <2> QED BY <1>2, <2>1
<1>4. \A y \in DOMAIN k : k1[y] <= k[y] /\ k1[y] + c.since <= k[y] + c.since
  BY <1>1, <1>2
<1> QED BY <1>1, <1>3, <1>4, LessLeftSound

LEMMA TickSound ==
  ASSUME NEW budget \in Nat, NEW c, NEW k, Sound(c, k, budget),
         \A x \in DOMAIN k : k[x] > 0
  PROVE  Sound(Elapse(c), [x \in DOMAIN k |-> k[x] - 1], budget)
<1> DEFINE c1 == Elapse(c)
           k1 == [x \in DOMAIN k |-> k[x] - 1]
<1>1. c \in BreakerType /\ k \in [DOMAIN k -> 0 .. budget]
  BY DEF Sound
<1>2. /\ c1 \in BreakerType
      /\ c1.state = c.state
      /\ c1.failures = c.failures
      /\ c1.since <= c.since + 1
  BY <1>1, ElapseKeepsState
<1>3. c.since \in Nat /\ c1.since \in Nat
  BY <1>1, <1>2, BreakerAssumption DEF BreakerType
<1> HIDE DEF c1
<1>4. k1 \in [DOMAIN k -> 0 .. budget]
  BY <1>1
<1>5. \A x \in DOMAIN k : k1[x] <= k[x] /\ k1[x] + c1.since <= k[x] + c.since
  BY <1>1, <1>2, <1>3
<1>6. Sound(c1, k1, budget)
  BY <1>2, <1>4, <1>5, LessLeftSound
<1> QED BY <1>6 DEF c1

(* Where the budget is shorter than the cooldown the late calls are over: a   *)
(* half-open breaker has exactly one call, and an open one that lets its      *)
(* probe in has none.                                                         *)
LEMMA SoundProbeIsAlone ==
  ASSUME NEW budget \in Nat, budget < OpenDuration, NEW c, NEW k, Sound(c, k, budget)
  PROVE  /\ c.state = "half-open" => \E x : DOMAIN k = {x}
         /\ c.state = "open" /\ c.since >= OpenDuration => DOMAIN k = {}
<1>1. \A x \in DOMAIN k : k[x] \in Nat /\ ~(k[x] + OpenDuration <= budget)
  BY BreakerAssumption DEF Sound
<1>2. ASSUME c.state = "half-open" PROVE \E x : DOMAIN k = {x}
  <2>1. PICK x \in DOMAIN k :
          \A y \in DOMAIN k \ {x} : k[y] + OpenDuration <= budget
    BY <1>2 DEF Sound
  <2>2. DOMAIN k = {x}
    BY <1>1, <2>1
  <2> QED BY <2>2
<1>3. ASSUME c.state = "open", c.since >= OpenDuration PROVE DOMAIN k = {}
  BY <1>1, <1>3, ProbeFindsLateCalls
<1> QED BY <1>2, <1>3

================================================================================
