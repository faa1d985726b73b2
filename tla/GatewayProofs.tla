----------------------------- MODULE GatewayProofs -----------------------------
(******************************************************************************)
(* The safety of Proxy for every pool, every set of requests, every budget    *)
(* and number of retries, and of Simulation: floods and warm-ups beside the   *)
(* proxied requests, for every number of each.  A flooder does what a request *)
(* does, so the second rests on the lemmas of the first, with one more place  *)
(* to be in.                                                                  *)
(******************************************************************************)
EXTENDS Simulation, LoadBalancerProofs

(* What a request may be.  Simulation has one more place a request can be in, *)
(* so the lemmas leave the places open.                                       *)
Requests(Place) ==
  [at : Place, attempt : 0 .. MaxRetries + 1, left : 0 .. Timeout,
   backend : Backend \cup {NoBackend}]

Places == {"idle"} \cup Live \cup Done

(* What the requests that hold the breaker of b have left.                    *)
Budgets(b) == [r \in Holding(b) |-> req[r].left]

(* The breaker of b takes a step of CircuitBreaker, or none.                  *)
BreakerSteps(b) == UNCHANGED BreakerOf(b)!vars \/ BreakerOf(b)!Next

--------------------------------------------------------------------------------
(* Every breaker works *)

(* The breakers of the instances are those of Breaker.                        *)
LEMMA OfBreaker ==
  ASSUME NEW b, NEW c
  PROVE  /\ BreakerOf(b)!NewCircuitBreaker = NewCircuitBreaker
         /\ BreakerOf(b)!Allow(c) <=> Allow(c)
         /\ BreakerOf(b)!AfterAllow(c) = AfterAllow(c)
         /\ BreakerOf(b)!RecordSuccess(c) = RecordSuccess(c)
         /\ BreakerOf(b)!RecordFailure(c) = RecordFailure(c)
         /\ BreakerOf(b)!Elapse(c) = Elapse(c)
  BY DEF NewCircuitBreaker, BreakerOf!NewCircuitBreaker, Allow, BreakerOf!Allow,
         AfterAllow, BreakerOf!AfterAllow, RecordSuccess, BreakerOf!RecordSuccess,
         RecordFailure, BreakerOf!RecordFailure, CountFailure, BreakerOf!CountFailure,
         Elapse, BreakerOf!Elapse

(* A step of r that leaves breakers alone and moves r neither into nor out of *)
(* forward is no step of any breaker.                                         *)
LEMMA Unnoticed ==
  ASSUME NEW b \in Backend, NEW r \in Req, UNCHANGED cb,
         \A q \in Req \ {r} : req'[q] = req[q],
         \/ req[r].at \notin InForward /\ req'[r].at \notin InForward
         \/ /\ req[r].at \in InForward /\ req'[r].at \in InForward
            /\ req'[r].backend = req[r].backend /\ req'[r].left = req[r].left
  PROVE  UNCHANGED BreakerOf(b)!vars
<1>1. Holding(b)' = Holding(b)
  BY DEF Holding
<1>2. \A q \in Holding(b) : req'[q].left = req[q].left
  BY DEF Holding
<1>3. Budgets(b)' = Budgets(b)
  BY <1>1, <1>2 DEF Budgets
<1> QED BY <1>3 DEF BreakerOf!vars, Budgets

(* Of another backend's call a breaker notices nothing.                       *)
LEMMA Elsewhere ==
  ASSUME NEW b \in Backend, NEW r \in Req, cb'[b] = cb[b],
         \A q \in Req \ {r} : req'[q] = req[q],
         r \notin Holding(b), r \notin Holding(b)'
  PROVE  UNCHANGED BreakerOf(b)!vars
<1>1. Holding(b)' = Holding(b)
  BY DEF Holding
<1>2. \A q \in Holding(b) : req'[q].left = req[q].left
  BY DEF Holding
<1>3. Budgets(b)' = Budgets(b)
  BY <1>1, <1>2 DEF Budgets
<1> QED BY <1>3 DEF BreakerOf!vars, Budgets

(* Pick returns b to r, which sets out with left ticks.                       *)
LEMMA PickedStarts ==
  ASSUME NEW Place, req \in [Req -> Requests(Place)], cb \in [Backend -> BreakerType],
         NEW b \in Backend, NEW r \in Req, NEW c \in Backend, NEW left \in 0 .. Timeout,
         At(r, "picking"), Granted(c),
         req' = [req EXCEPT ![r].at = "picked", ![r].backend = c, ![r].left = left]
  PROVE  BreakerSteps(b)
<1>1. /\ \A q \in Req \ {r} : req'[q] = req[q]
      /\ req'[r].at = "picked" /\ req'[r].backend = c /\ req'[r].left = left
  BY DEF Requests
<1>2. r \notin Holding(b)
  BY DEF Holding, At, InForward
<1>3. CASE b = c
  <2>1. Holding(b)' = Holding(b) \cup {r}
    BY <1>1, <1>2, <1>3 DEF Holding, InForward
  <2>2. Budgets(b)' = [q \in Holding(b) \cup {r} |-> IF q = r THEN left ELSE Budgets(b)[q]]
    BY <1>1, <2>1 DEF Budgets, Holding
  <2>3. Allow(cb[b]) /\ cb'[b] = AfterAllow(cb[b])
    BY <1>3 DEF Granted
  <2>4. BreakerOf(b)!Start(r, left)
    BY <1>2, <2>2, <2>3, OfBreaker DEF BreakerOf!Start, BreakerOf!Running, Budgets
  <2> QED BY <2>4 DEF BreakerSteps, BreakerOf!Next
<1>4. CASE b # c
  <2>1. r \notin Holding(b)'
    BY <1>1, <1>4 DEF Holding
  <2>2. cb'[b] = cb[b]
    BY <1>4 DEF Granted
  <2> QED BY <1>1, <1>2, <2>1, <2>2, Elsewhere DEF BreakerSteps
<1> QED BY <1>3, <1>4

(* The result of r is reported, and r leaves forward.                         *)
LEMMA ReportEnds ==
  ASSUME NEW Place, req \in [Req -> Requests(Place)], cb \in [Backend -> BreakerType],
         NEW b \in Backend, NEW r \in Req, NEW ok \in BOOLEAN,
         req[r].at \in InForward, Report(req[r].backend, ok),
         \A q \in Req \ {r} : req'[q] = req[q],
         req'[r].at \notin InForward
  PROVE  BreakerSteps(b)
<1>1. r \notin Holding(b)'
  BY DEF Holding
<1>2. CASE req[r].backend = b
  <2>1. r \in Holding(b) /\ Holding(b)' = Holding(b) \ {r}
    BY <1>1, <1>2 DEF Holding
  <2>2. Budgets(b)' = [q \in Holding(b) \ {r} |-> Budgets(b)[q]]
    BY <2>1 DEF Budgets, Holding
  <2>3. BreakerOf(b)!Return(r)
    BY <2>1, <2>2 DEF BreakerOf!Return, BreakerOf!Running, Budgets
  <2>4. cb'[b] = IF ok THEN RecordSuccess(cb[b]) ELSE RecordFailure(cb[b])
    BY <1>2 DEF Report
  <2>5. BreakerOf(b)!Succeed(r) \/ BreakerOf(b)!Fail(r)
    BY <2>3, <2>4, OfBreaker DEF BreakerOf!Succeed, BreakerOf!Fail
  <2> QED BY <2>5 DEF BreakerSteps, BreakerOf!Next
<1>3. CASE req[r].backend # b
  <2>1. r \notin Holding(b)
    BY <1>3 DEF Holding
  <2>2. cb'[b] = cb[b]
    BY <1>3 DEF Report
  <2> QED BY <1>1, <2>1, <2>2, Elsewhere DEF BreakerSteps
<1> QED BY <1>2, <1>3

LEMMA HangUpCancels ==
  ASSUME NEW Place, req \in [Req -> Requests(Place)],
         NEW b \in Backend, NEW r \in Req, HangUp(r)
  PROVE  BreakerSteps(b)
<1>1. /\ \A q \in Req \ {r} : req'[q] = req[q]
      /\ req'[r].at = req[r].at /\ req'[r].backend = req[r].backend /\ req'[r].left = 0
      /\ UNCHANGED cb
  BY DEF HangUp, Requests, vars, backendVars
<1>2. Holding(b)' = Holding(b)
  BY <1>1 DEF Holding
<1>3. CASE r \in Holding(b)
  <2>1. Budgets(b)' = [Budgets(b) EXCEPT ![r] = 0]
    BY <1>1, <1>2 DEF Budgets, Holding
  <2>2. BreakerOf(b)!Cancel(r)
    BY <1>1, <1>3, <2>1 DEF BreakerOf!Cancel, BreakerOf!Running, Budgets
  <2> QED BY <2>2 DEF BreakerSteps, BreakerOf!Next
<1>4. CASE r \notin Holding(b)
  BY <1>1, <1>2, <1>4, Elsewhere DEF BreakerSteps
<1> QED BY <1>3, <1>4

LEMMA ElapsesTicks ==
  ASSUME NEW Place, req \in [Req -> Requests(Place)], cb \in [Backend -> BreakerType],
         NEW b \in Backend, Elapses
  PROVE  BreakerSteps(b)
<1>1. \A r \in Req : /\ req'[r].at = req[r].at /\ req'[r].backend = req[r].backend
                     /\ req[r].at \in InForward =>
                          req[r].left > 0 /\ req'[r].left = req[r].left - 1
  BY DEF Elapses, Requests, Live
<1>2. Holding(b)' = Holding(b)
  BY <1>1 DEF Holding
<1>3. Budgets(b)' = [r \in Holding(b) |-> Budgets(b)[r] - 1]
  BY <1>1, <1>2 DEF Budgets, Holding
<1>4. \A r \in Holding(b) : Budgets(b)[r] > 0
  BY <1>1 DEF Budgets, Holding
<1>5. cb'[b] = Elapse(cb[b])
  BY DEF Elapses, Tick
<1>6. BreakerOf(b)!Tick
  BY <1>3, <1>4, <1>5, OfBreaker DEF BreakerOf!Tick, BreakerOf!Running, Budgets
<1> QED BY <1>6 DEF BreakerSteps, BreakerOf!Next

(* The steps outside forward.                                                 *)
LEMMA QuietSteps ==
  ASSUME NEW Place, req \in [Req -> Requests(Place)], NEW r \in Req,
         \/ Arrive(r) \/ Loop(r) \/ Backoff(r)
         \/ Pick(r) \/ PickRefused(r) \/ PickReturnsNil(r) \/ Relay(r)
  PROVE  /\ UNCHANGED <<cb, active>>
         /\ \A q \in Req \ {r} : req'[q] = req[q]
         /\ req[r].at \notin InForward /\ req'[r].at \notin InForward
<1> USE DEF Requests, InForward, Live, At, Go, vars, backendVars
<1>1. CASE Arrive(r) \/ Loop(r) \/ Backoff(r)
  BY <1>1 DEF Arrive, Loop, Backoff
<1>2. CASE Pick(r) \/ PickRefused(r) \/ PickReturnsNil(r)
  BY <1>2 DEF Pick, PickRefused, PickReturnsNil, Choose, Refused, GiveUp
<1>3. CASE Relay(r)
  BY <1>3 DEF Relay, RecordLatency
<1> QED BY <1>1, <1>2, <1>3

(* Sending and receiving: the breaker does not know.                          *)
LEMMA SilentSteps ==
  ASSUME NEW Place, req \in [Req -> Requests(Place)], NEW r \in Req,
         Send(r) \/ \E result \in {"answered", "failed"} : Return(r, result)
  PROVE  /\ UNCHANGED cb
         /\ \A q \in Req \ {r} : req'[q] = req[q]
         /\ req[r].at \in InForward /\ req'[r].at \in InForward
         /\ req'[r].backend = req[r].backend /\ req'[r].left = req[r].left
  BY DEF Requests, InForward, At, Go, Send, Return, AddActive, DropActive

(* Whatever a request does is a step of each breaker, or none.                *)
LEMMA RequestSteps ==
  ASSUME NEW Place, req \in [Req -> Requests(Place)], cb \in [Backend -> BreakerType],
         NEW b \in Backend, NEW r \in Req, Arrive(r) \/ Step(r) \/ HangUp(r)
  PROVE  BreakerSteps(b)
<1>1. CASE \/ Arrive(r) \/ Loop(r) \/ Backoff(r)
           \/ Pick(r) \/ PickRefused(r) \/ PickReturnsNil(r) \/ Relay(r)
  BY <1>1, QuietSteps, Unnoticed DEF BreakerSteps
<1>2. CASE Send(r) \/ \E result \in {"answered", "failed"} : Return(r, result)
  BY <1>2, SilentSteps, Unnoticed DEF BreakerSteps
<1>3. ASSUME NEW c \in Backend, PickReturns(r, c) PROVE BreakerSteps(b)
  <2>1. req[r].left \in 0 .. Timeout
    BY DEF Requests
  <2>2. req' = [req EXCEPT ![r].at = "picked", ![r].backend = c, ![r].left = req[r].left]
    BY <1>3 DEF PickReturns, Requests
  <2> QED BY <1>3, <2>1, <2>2, PickedStarts DEF PickReturns
<1>4. CASE Succeed(r)
  <2>1. /\ \A q \in Req \ {r} : req'[q] = req[q]
        /\ req[r].at \in InForward /\ req'[r].at \notin InForward
    BY <1>4 DEF Succeed, At, Go, InForward, Requests
  <2>2. Report(req[r].backend, TRUE)
    BY <1>4 DEF Succeed
  <2> QED BY <2>1, <2>2, ReportEnds
<1>5. CASE Fail(r)
  <2>1. /\ \A q \in Req \ {r} : req'[q] = req[q]
        /\ req[r].at \in InForward /\ req'[r].at \notin InForward
    <3>1. req' = [req EXCEPT ![r].at = "loop", ![r].attempt = @ + 1,
                             ![r].backend = NoBackend]
      BY <1>5 DEF Fail
    <3>2. req'[r].at = "loop"
      BY <3>1 DEF Requests
    <3> QED BY <1>5, <3>1, <3>2 DEF Fail, At, InForward
  <2>2. Report(req[r].backend, FALSE)
    BY <1>5 DEF Fail
  <2> QED BY <2>1, <2>2, ReportEnds
<1>6. CASE HangUp(r)
  BY <1>6, HangUpCancels
<1> QED BY <1>1, <1>2, <1>3, <1>4, <1>5, <1>6 DEF Step

LEMMA EnvironmentStutters ==
  ASSUME NEW b \in Backend, Environment
  PROVE  UNCHANGED BreakerOf(b)!vars /\ UNCHANGED <<req, active>>
<1>1. UNCHANGED <<req, cb, active>>
  BY DEF Environment, CrashOrRestart, Probe, checkBackend, Switch, SetAlgorithm, vars,
         backendVars
<1> QED BY <1>1 DEF BreakerOf!vars, Holding

(* A sound breaker stays so.                                                  *)
LEMMA StepsKeepSound ==
  ASSUME NEW b \in Backend, Sound(cb[b], Budgets(b), Timeout), BreakerSteps(b)
  PROVE  Sound(cb'[b], Budgets(b)', Timeout)
<1> DEFINE k == Budgets(b)
<1>1. /\ DOMAIN k = Holding(b)
      /\ k = [r \in Holding(b) |-> req[r].left]
      /\ k' = [r \in Holding(b) |-> req[r].left]'
  BY DEF Budgets
<1>2. Timeout \in Nat /\ Sound(cb[b], k, Timeout)
  BY ProxyAssumption
<1> HIDE DEF k
<1>3. ASSUME NEW r \in Req, NEW left \in 0 .. Timeout, BreakerOf(b)!Start(r, left)
      PROVE  Sound(cb'[b], k', Timeout)
  <2>1. /\ r \notin DOMAIN k
        /\ Allow(cb[b]) /\ cb'[b] = AfterAllow(cb[b])
        /\ k' = [y \in DOMAIN k \cup {r} |-> IF y = r THEN left ELSE k[y]]
    BY <1>1, <1>3, OfBreaker DEF BreakerOf!Start, BreakerOf!Running
  <2>2. Sound(AfterAllow(cb[b]), k', Timeout)
    BY <1>2, <2>1, StartSound
  <2> QED BY <2>1, <2>2
<1>4. ASSUME NEW r \in Req, BreakerOf(b)!Return(r)
      PROVE  k' = [y \in DOMAIN k \ {r} |-> k[y]]
  BY <1>1, <1>4 DEF BreakerOf!Return, BreakerOf!Running
<1>5. ASSUME NEW r \in Req, BreakerOf(b)!Succeed(r)
      PROVE  Sound(cb'[b], k', Timeout)
  <2>1. cb'[b] = RecordSuccess(cb[b]) /\ BreakerOf(b)!Return(r)
    BY <1>5, OfBreaker DEF BreakerOf!Succeed
  <2>2. Sound(RecordSuccess(cb[b]), [y \in DOMAIN k \ {r} |-> k[y]], Timeout)
    BY <1>2, SuccessSound
  <2> QED BY <1>4, <2>1, <2>2
<1>6. ASSUME NEW r \in Req, BreakerOf(b)!Fail(r)
      PROVE  Sound(cb'[b], k', Timeout)
  <2>1. cb'[b] = RecordFailure(cb[b]) /\ BreakerOf(b)!Return(r)
    BY <1>6, OfBreaker DEF BreakerOf!Fail
  <2>2. Sound(RecordFailure(cb[b]), [y \in DOMAIN k \ {r} |-> k[y]], Timeout)
    BY <1>2, FailureSound
  <2> QED BY <1>4, <2>1, <2>2
<1>7. ASSUME NEW r \in Req, BreakerOf(b)!Cancel(r)
      PROVE  Sound(cb'[b], k', Timeout)
  <2>1. cb'[b] = cb[b] /\ k' = [k EXCEPT ![r] = 0]
    BY <1>1, <1>7 DEF BreakerOf!Cancel
  <2>2. Sound(cb[b], [k EXCEPT ![r] = 0], Timeout)
    BY <1>2, CancelSound
  <2> QED BY <2>1, <2>2
<1>8. CASE BreakerOf(b)!Tick
  <2>1. /\ cb'[b] = Elapse(cb[b]) /\ k' = [y \in DOMAIN k |-> k[y] - 1]
        /\ \A y \in DOMAIN k : k[y] > 0
    BY <1>1, <1>8, OfBreaker DEF BreakerOf!Tick, BreakerOf!Running
  <2>2. Sound(Elapse(cb[b]), [y \in DOMAIN k |-> k[y] - 1], Timeout)
    BY <1>2, <2>1, TickSound
  <2> QED BY <2>1, <2>2 DEF k
<1>9. CASE UNCHANGED BreakerOf(b)!vars
  BY <1>1, <1>9 DEF BreakerOf!vars, k
<1> QED BY <1>3, <1>5, <1>6, <1>7, <1>8, <1>9 DEF BreakerSteps, BreakerOf!Next, k

--------------------------------------------------------------------------------
(* Types *)

(* Where a request still has an attempt before it or under way.               *)
Trying == {"barrier", "backoff", "pick", "picking"} \cup InForward

(* The retry loop lets no request try more than MaxRetries + 1 times.  That   *)
(* attempt stays below MaxRetries + 2 rests on it: Fail counts before the     *)
(* loop tests.                                                                *)
Attempts == \A r \in Req : req[r].at \in Trying => req[r].attempt <= MaxRetries

(* What a step of r does to req.                                              *)
Moves(r, Place) ==
  /\ \E v : req' = [req EXCEPT ![r] = v]
  /\ req'[r] \in Requests(Place)
  /\ req'[r].at \in Trying => req'[r].attempt <= MaxRetries

LEMMA MovesKeep ==
  ASSUME NEW Place, req \in [Req -> Requests(Place)], Attempts,
         NEW r \in Req, Moves(r, Place)
  PROVE  req' \in [Req -> Requests(Place)] /\ Attempts'
<1>1. PICK v : req' = [req EXCEPT ![r] = v]
  BY DEF Moves
<1>2. req'[r] = v
  BY <1>1
<1>3. req' \in [Req -> Requests(Place)]
  BY <1>1, <1>2 DEF Moves
<1>4. ASSUME NEW q \in Req, req'[q].at \in Trying PROVE req'[q].attempt <= MaxRetries
  <2>1. CASE q = r
    BY <1>4, <2>1 DEF Moves
  <2>2. CASE q # r
    BY <1>1, <1>4, <2>2 DEF Attempts
  <2> QED BY <2>1, <2>2
<1> QED BY <1>3, <1>4 DEF Attempts

LEMMA GoMoves ==
  ASSUME NEW Place, req \in [Req -> Requests(Place)], Attempts,
         NEW r \in Req, NEW where \in Place, Go(r, where),
         where \in Trying => req[r].attempt <= MaxRetries
  PROVE  Moves(r, Place)
<1>1. /\ req' = [req EXCEPT ![r] = [req[r] EXCEPT !.at = where]]
      /\ req[r] \in Requests(Place)
  BY DEF Go
<1>2. req'[r] = [req[r] EXCEPT !.at = where]
  BY <1>1
<1>3. req'[r] \in Requests(Place) /\ req'[r].at = where /\ req'[r].attempt = req[r].attempt
  BY <1>1, <1>2 DEF Requests
<1> QED BY <1>1, <1>3 DEF Moves

LEMMA RequestMoves ==
  ASSUME NEW Place, Places \subseteq Place, req \in [Req -> Requests(Place)], Attempts,
         NEW r \in Req, Arrive(r) \/ Step(r) \/ HangUp(r)
  PROVE  req' \in [Req -> Requests(Place)] /\ Attempts'
<1>1. /\ MaxRetries \in Nat /\ Timeout \in Nat /\ NoBackend \in Backend \cup {NoBackend}
      /\ req[r] \in Requests(Place)
      /\ req[r].at \in Trying => req[r].attempt <= MaxRetries
  BY ProxyAssumption DEF Attempts
<1>2. {"loop", "relayed", "picked"} \subseteq Place
  BY DEF Places, Live, Done, InForward
<1>3. ASSUME NEW where \in Places, Go(r, where),
             where \in Trying => req[r].attempt <= MaxRetries
      PROVE  req' \in [Req -> Requests(Place)] /\ Attempts'
  BY <1>3, GoMoves, MovesKeep
<1>4. CASE Arrive(r)
  <2>1. req'[r] = [at |-> "loop", attempt |-> 0, left |-> Timeout, backend |-> NoBackend]
    BY <1>4 DEF Arrive
  <2>2. req'[r] \in Requests(Place)
    BY <1>1, <1>2, <2>1 DEF Requests
  <2> QED BY <1>4, <2>1, <2>2, MovesKeep DEF Arrive, Moves, Trying, InForward
<1>5. CASE Loop(r)
  <2> DEFINE where == IF req[r].attempt > MaxRetries THEN "exhausted"
                      ELSE IF req[r].left = 0 THEN "timeout"
                      ELSE IF req[r].attempt > 0 THEN "backoff"
                      ELSE "pick"
  <2>1. where \in Places /\ (where \in Trying => req[r].attempt <= MaxRetries)
    BY <1>1 DEF Requests, Places, Live, Done, Trying, InForward
  <2>2. Go(r, where)
    BY <1>5 DEF Loop
  <2> HIDE DEF where
  <2> QED BY <1>3, <2>1, <2>2
<1>6. CASE Backoff(r)
  <2>1. {"pick", "timeout"} \subseteq Places /\ req[r].attempt <= MaxRetries
    BY <1>1, <1>6 DEF Backoff, At, Places, Live, Done, Trying
  <2> QED BY <1>3, <1>6, <2>1 DEF Backoff
<1>7. CASE Pick(r) \/ PickReturnsNil(r)
  <2>1. {"picking", "unavailable"} \subseteq Places /\ req[r].attempt <= MaxRetries
    BY <1>1, <1>7 DEF Pick, PickReturnsNil, At, Places, Live, Done, Trying
  <2> QED BY <1>3, <1>7, <2>1 DEF Pick, PickReturnsNil
<1>8. CASE Send(r) \/ Succeed(r) \/ \E result \in {"answered", "failed"} : Return(r, result)
  <2>1. /\ {"calling", "relay", "answered", "failed"} \subseteq Places
        /\ req[r].attempt <= MaxRetries
    BY <1>1, <1>8 DEF Send, Succeed, Return, At, Places, Live, Trying, InForward
  <2> QED BY <1>3, <1>8, <2>1 DEF Send, Succeed, Return
<1>9. CASE PickRefused(r)
  BY <1>9 DEF PickRefused, Attempts
<1>10. ASSUME NEW b \in Backend, PickReturns(r, b)
       PROVE  req' \in [Req -> Requests(Place)] /\ Attempts'
  <2>1. /\ req' = [req EXCEPT ![r] = [req[r] EXCEPT !.at = "picked", !.backend = b]]
        /\ req[r].attempt <= MaxRetries
    BY <1>1, <1>10 DEF PickReturns, At, Trying
  <2>2. req'[r] = [req[r] EXCEPT !.at = "picked", !.backend = b]
    BY <2>1
  <2>3. req'[r] \in Requests(Place) /\ req'[r].attempt = req[r].attempt
    BY <1>1, <1>2, <2>2 DEF Requests
  <2> QED BY <2>1, <2>3, MovesKeep DEF Moves
<1>11. CASE Fail(r)
  <2>1. /\ req' = [req EXCEPT ![r] = [req[r] EXCEPT !.at = "loop",
                                      !.attempt = req[r].attempt + 1,
                                      !.backend = NoBackend]]
        /\ req[r].attempt <= MaxRetries
    BY <1>1, <1>11 DEF Fail, At, Trying, InForward
  <2>2. req'[r] = [req[r] EXCEPT !.at = "loop", !.attempt = req[r].attempt + 1,
                                 !.backend = NoBackend]
    BY <2>1
  <2>3. req[r].attempt + 1 \in 0 .. MaxRetries + 1
    BY <1>1, <2>1 DEF Requests
  <2>4. req'[r] \in Requests(Place) /\ req'[r].at = "loop"
    BY <1>1, <1>2, <2>2, <2>3 DEF Requests
  <2> QED BY <2>1, <2>4, MovesKeep DEF Moves, Trying, InForward
<1>12. CASE Relay(r)
  <2>1. req' = [req EXCEPT ![r] = [req[r] EXCEPT !.at = "relayed", !.backend = NoBackend]]
    BY <1>12 DEF Relay
  <2>2. req'[r] = [req[r] EXCEPT !.at = "relayed", !.backend = NoBackend]
    BY <2>1
  <2>3. req'[r] \in Requests(Place) /\ req'[r].at = "relayed"
    BY <1>1, <1>2, <2>2 DEF Requests
  <2> QED BY <2>1, <2>3, MovesKeep DEF Moves, Trying, InForward
<1>13. CASE HangUp(r)
  <2>1. req' = [req EXCEPT ![r] = [req[r] EXCEPT !.left = 0]]
    BY <1>13 DEF HangUp
  <2>2. req'[r] = [req[r] EXCEPT !.left = 0]
    BY <2>1
  <2>3. req'[r] \in Requests(Place) /\ req'[r].at = req[r].at /\ req'[r].attempt = req[r].attempt
    BY <1>1, <2>2 DEF Requests
  <2> QED BY <1>1, <2>1, <2>3, MovesKeep DEF Moves
<1> QED BY <1>4, <1>5, <1>6, <1>7, <1>8, <1>9, <1>10, <1>11, <1>12, <1>13
    DEF Step

LEMMA ElapsesMoves ==
  ASSUME NEW Place, req \in [Req -> Requests(Place)], Attempts, Elapses
  PROVE  req' \in [Req -> Requests(Place)] /\ Attempts'
<1>1. Timeout \in Nat
  BY ProxyAssumption
<1>2. ASSUME NEW r \in Req
      PROVE  /\ req'[r] \in Requests(Place)
             /\ req'[r].at = req[r].at /\ req'[r].attempt = req[r].attempt
  <2>1. CASE req[r].at \in Live
    <3>1. req'[r] = [req[r] EXCEPT !.left = req[r].left - 1] /\ req[r].left > 0
      BY <2>1 DEF Elapses
    <3>2. req[r].left - 1 \in 0 .. Timeout
      BY <1>1, <3>1 DEF Requests
    <3> QED BY <3>1, <3>2 DEF Requests
  <2>2. CASE req[r].at \notin Live
    BY <2>2 DEF Elapses
  <2> QED BY <2>1, <2>2
<1>3. req' \in [Req -> Requests(Place)]
  BY <1>2 DEF Elapses
<1> QED BY <1>2, <1>3 DEF Attempts

(* The pool stays well typed under whatever a request does.                   *)
LEMMA RequestTyped ==
  ASSUME TypeOK, up \in [Backend -> BOOLEAN], NEW r \in Req,
         Arrive(r) \/ Step(r) \/ HangUp(r)
  PROVE  TypeOK' /\ up' \in [Backend -> BOOLEAN]
<1>1. up' = up
  BY DEF Arrive, Step, HangUp, Loop, Backoff, Pick, PickRefused, PickReturns,
         PickReturnsNil, Send, Return, Succeed, Fail, Relay
<1>2. UNCHANGED vars => TypeOK'
  BY DEF TypeOK, vars, lbVars, backendVars, pickVars
<1>3. algorithm \in Algorithms /\ 0 \in Nat /\ TRUE \in BOOLEAN /\ FALSE \in BOOLEAN
  BY DEF TypeOK
<1>4. CASE Arrive(r) \/ Loop(r) \/ Backoff(r) \/ HangUp(r)
  BY <1>1, <1>2, <1>4 DEF Arrive, Loop, Backoff, HangUp
<1>5. CASE Pick(r)
  <2>1. HashOf[r] \in Hashes
    BY ProxyAssumption
  <2> QED BY <1>1, <1>5, <2>1, ChooseTyped DEF Pick
<1>6. CASE PickRefused(r) \/ PickReturnsNil(r) \/ \E b \in Backend : PickReturns(r, b)
  BY <1>1, <1>6, PickTyped DEF PickRefused, PickReturnsNil, PickReturns
<1>7. CASE \/ Send(r) \/ Succeed(r) \/ Fail(r)
           \/ \E result \in {"answered", "failed"} : Return(r, result)
  <2>1. \/ AddActive(req[r].backend) \/ DropActive(req[r].backend)
        \/ Report(req[r].backend, TRUE) \/ Report(req[r].backend, FALSE)
    BY <1>7 DEF Send, Succeed, Fail, Return
  <2> QED BY <1>1, <1>3, <2>1, OthersTyped
<1>8. CASE Relay(r)
  <2>1. UNCHANGED vars \/ \E us \in Sample : RecordLatency(req[r].backend, us)
    BY <1>8 DEF Relay
  <2>2. Sample \subseteq Nat
    BY PoolAssumption
  <2> QED BY <1>1, <1>2, <1>3, <2>1, <2>2, OthersTyped
<1> QED BY <1>4, <1>5, <1>6, <1>7, <1>8 DEF Step

LEMMA EnvironmentTyped ==
  ASSUME TypeOK, up \in [Backend -> BOOLEAN], Environment \/ Elapses
  PROVE  TypeOK' /\ up' \in [Backend -> BOOLEAN]
<1>1. algorithm \in Algorithms /\ 0 \in Nat /\ TRUE \in BOOLEAN
  BY DEF TypeOK
<1>2. CASE Elapses
  BY <1>1, <1>2, OthersTyped DEF Elapses
<1>3. ASSUME NEW b \in Backend, CrashOrRestart(b)
      PROVE  TypeOK' /\ up' \in [Backend -> BOOLEAN]
  BY <1>3 DEF CrashOrRestart, TypeOK, vars, lbVars, backendVars, pickVars
<1>4. ASSUME NEW b \in Backend, Probe(b)
      PROVE  TypeOK' /\ up' \in [Backend -> BOOLEAN]
  BY <1>1, <1>4, OthersTyped DEF Probe
<1>5. ASSUME NEW a \in Algorithms, Switch(a)
      PROVE  TypeOK' /\ up' \in [Backend -> BOOLEAN]
  BY <1>1, <1>5, OthersTyped DEF Switch
<1> QED BY <1>2, <1>3, <1>4, <1>5 DEF Environment

--------------------------------------------------------------------------------
(* Counting calls *)

CallsTo(b) == {r \in Req : At(r, "calling") /\ req[r].backend = b}

(* active[b] goes up and down with the calls to b.                            *)
Balanced(b) ==
  /\ IsFiniteSet(CallsTo(b))'
  /\ Cardinality(CallsTo(b)) \in Nat /\ Cardinality(CallsTo(b))' \in Nat
  /\ active'[b] - Cardinality(CallsTo(b))' = active[b] - Cardinality(CallsTo(b))

LEMMA SendBalances ==
  ASSUME NEW Place, req \in [Req -> Requests(Place)], TypeOK,
         NEW b \in Backend, IsFiniteSet(CallsTo(b)), NEW r \in Req,
         Send(r)
  PROVE  Balanced(b)
<1>1. active \in [Backend -> Int]
  BY PoolAssumption DEF TypeOK
<1>2. /\ \A q \in Req \ {r} : req'[q] = req[q]
      /\ req[r].at = "picked" /\ req'[r].at = "calling"
      /\ req'[r].backend = req[r].backend
  BY DEF Send, Go, At, Requests
<1>3. CASE req[r].backend = b
  <2>1. CallsTo(b)' = CallsTo(b) \cup {r} /\ r \notin CallsTo(b)
    BY <1>2, <1>3 DEF CallsTo, At
  <2>2. active'[b] = active[b] + 1
    BY <1>1, <1>3 DEF Send, AddActive
  <2>3. /\ IsFiniteSet(CallsTo(b) \cup {r})
        /\ Cardinality(CallsTo(b) \cup {r}) = Cardinality(CallsTo(b)) + 1
        /\ Cardinality(CallsTo(b)) \in Nat
        /\ Cardinality(CallsTo(b) \cup {r}) \in Nat
    BY <2>1, FS_AddElement, FS_CardinalityType
  <2>4. active[b] \in Int
    BY <1>1
  <2> QED BY <2>1, <2>2, <2>3, <2>4 DEF Balanced
<1>4. CASE req[r].backend # b
  <2>1. CallsTo(b)' = CallsTo(b)
    BY <1>2, <1>4 DEF CallsTo, At
  <2>2. active'[b] = active[b]
    BY <1>1, <1>4 DEF Send, AddActive
  <2> QED BY <2>1, <2>2, FS_CardinalityType DEF Balanced
<1> QED BY <1>3, <1>4

LEMMA ReturnBalances ==
  ASSUME NEW Place, req \in [Req -> Requests(Place)], TypeOK,
         NEW b \in Backend, IsFiniteSet(CallsTo(b)), NEW r \in Req,
         NEW result \in {"answered", "failed"},
         At(r, "calling"), DropActive(req[r].backend), Go(r, result)
  PROVE  Balanced(b)
<1>1. active \in [Backend -> Int]
  BY PoolAssumption DEF TypeOK
<1>2. /\ \A q \in Req \ {r} : req'[q] = req[q]
      /\ req[r].at = "calling" /\ req'[r].at # "calling"
  BY DEF Go, At, Requests
<1>3. CASE req[r].backend = b
  <2>1. CallsTo(b)' = CallsTo(b) \ {r} /\ r \in CallsTo(b)
    BY <1>2, <1>3 DEF CallsTo, At
  <2>2. active'[b] = active[b] - 1
    BY <1>1, <1>3 DEF DropActive
  <2>3. /\ IsFiniteSet(CallsTo(b) \ {r})
        /\ Cardinality(CallsTo(b) \ {r}) = Cardinality(CallsTo(b)) - 1
        /\ Cardinality(CallsTo(b)) \in Nat
        /\ Cardinality(CallsTo(b) \ {r}) \in Nat
    BY <2>1, FS_RemoveElement, FS_CardinalityType
  <2>4. active[b] \in Int
    BY <1>1
  <2> QED BY <2>1, <2>2, <2>3, <2>4 DEF Balanced
<1>4. CASE req[r].backend # b
  <2>1. CallsTo(b)' = CallsTo(b)
    BY <1>2, <1>4 DEF CallsTo, At
  <2>2. active'[b] = active[b]
    BY <1>1, <1>4 DEF DropActive
  <2> QED BY <2>1, <2>2, FS_CardinalityType DEF Balanced
<1> QED BY <1>3, <1>4

LEMMA OthersBalance ==
  ASSUME NEW b \in Backend, IsFiniteSet(CallsTo(b)), active' = active,
         \A r \in Req : At(r, "calling") \/ At(r, "calling")' =>
                          At(r, "calling")' /\ At(r, "calling")
                          /\ req'[r].backend = req[r].backend
  PROVE  Balanced(b)
<1>1. CallsTo(b)' = CallsTo(b)
  BY DEF CallsTo
<1> QED BY <1>1, FS_CardinalityType DEF Balanced

LEMMA RequestBalances ==
  ASSUME NEW Place, req \in [Req -> Requests(Place)], TypeOK,
         NEW b \in Backend, IsFiniteSet(CallsTo(b)), NEW r \in Req,
         Arrive(r) \/ Step(r) \/ HangUp(r)
  PROVE  Balanced(b)
<1>1. CASE Send(r)
  BY <1>1, SendBalances
<1>2. ASSUME NEW result \in {"answered", "failed"}, Return(r, result) PROVE Balanced(b)
  BY <1>2, ReturnBalances DEF Return
<1>3. CASE \/ Arrive(r) \/ Loop(r) \/ Backoff(r)
           \/ Pick(r) \/ PickRefused(r) \/ PickReturnsNil(r) \/ Relay(r)
  BY <1>3, QuietSteps, OthersBalance DEF At, InForward
<1>4. CASE Succeed(r) \/ Fail(r) \/ \E c \in Backend : PickReturns(r, c)
  <2>1. /\ active' = active
        /\ \A q \in Req \ {r} : req'[q] = req[q]
        /\ req[r].at # "calling" /\ req'[r].at # "calling"
    BY <1>4 DEF Succeed, Fail, PickReturns, Granted, Report, At, Go, Requests
  <2> QED BY <2>1, OthersBalance DEF At
<1>5. CASE HangUp(r)
  <2>1. /\ active' = active
        /\ \A q \in Req : req'[q].at = req[q].at /\ req'[q].backend = req[q].backend
    BY <1>5 DEF HangUp, Requests, vars, backendVars
  <2> QED BY <2>1, OthersBalance DEF At
<1> QED BY <1>1, <1>2, <1>3, <1>4, <1>5 DEF Step

LEMMA EnvironmentBalances ==
  ASSUME NEW Place, req \in [Req -> Requests(Place)],
         NEW b \in Backend, IsFiniteSet(CallsTo(b)), Environment \/ Elapses
  PROVE  Balanced(b)
<1>1. CASE Environment
  BY <1>1, EnvironmentStutters, OthersBalance DEF At
<1>2. CASE Elapses
  <2>1. /\ active' = active
        /\ \A q \in Req : req'[q].at = req[q].at /\ req'[q].backend = req[q].backend
    BY <1>2 DEF Elapses, Tick, Requests
  <2> QED BY <2>1, OthersBalance DEF At
<1> QED BY <1>1, <1>2

--------------------------------------------------------------------------------
(* The inductive invariant *)

(* What one breaker's calls have left matters, and so does which requests are *)
(* calling; ActiveCountsCalls needs them to be finitely many, or taking one   *)
(* away need not change their number.                                         *)
BackendInv(b) == Sound(cb[b], Budgets(b), Timeout) /\ IsFiniteSet(CallsTo(b))

ProxyInv ==
  /\ TypeOK
  /\ req \in [Req -> Requests(Places)] /\ Attempts
  /\ up \in [Backend -> BOOLEAN]
  /\ \A b \in Backend : BackendInv(b)
  /\ ActiveCountsCalls

LEMMA NobodyHolds ==
  ASSUME ProxyInit, NEW b \in Backend
  PROVE  Holding(b) = {} /\ CallsTo(b) = {} /\ cb[b] = NewCircuitBreaker /\ active[b] = 0
<1>1. \A r \in Req : req[r].at = "idle"
  BY DEF ProxyInit
<1> QED BY <1>1 DEF ProxyInit, NewLoadBalancer, Holding, CallsTo, At, InForward

LEMMA InitProxyInv == ProxyInit => ProxyInv
<1> SUFFICES ASSUME ProxyInit PROVE ProxyInv
  OBVIOUS
<1>1. TypeOK /\ up \in [Backend -> BOOLEAN]
  BY NewLoadBalancerTyped DEF ProxyInit
<1>2. req \in [Req -> Requests(Places)] /\ Attempts
  BY ProxyAssumption DEF ProxyInit, Requests, Places, Attempts, Trying, InForward
<1>3. ASSUME NEW b \in Backend
      PROVE  BackendInv(b) /\ active[b] = Cardinality(CallsTo(b))
  <2>1. DOMAIN Budgets(b) = {} /\ Budgets(b) \in [DOMAIN Budgets(b) -> {}]
    BY NobodyHolds DEF Budgets
  <2>2. Timeout \in Nat /\ cb[b] = NewCircuitBreaker
    BY NobodyHolds, ProxyAssumption
  <2>3. Sound(NewCircuitBreaker, Budgets(b), Timeout)
    BY <2>1, <2>2, NewIsSound
  <2> QED BY <2>2, <2>3, NobodyHolds, FS_EmptySet DEF BackendInv
<1> QED BY <1>1, <1>2, <1>3 DEF ProxyInv, ActiveCountsCalls, CallsTo

LEMMA NextSteps ==
  ASSUME ProxyInv, ProxyNext, NEW b \in Backend
  PROVE  BreakerSteps(b)
<1>1. req \in [Req -> Requests(Places)] /\ cb \in [Backend -> BreakerType]
  BY DEF ProxyInv, TypeOK
<1>2. CASE \E r \in Req : Arrive(r) \/ Step(r) \/ HangUp(r)
  BY <1>1, <1>2, RequestSteps
<1>3. CASE Environment
  BY <1>3, EnvironmentStutters DEF BreakerSteps
<1>4. CASE Elapses
  BY <1>1, <1>4, ElapsesTicks
<1> QED BY <1>2, <1>3, <1>4 DEF ProxyNext

LEMMA NextProxyInv == ProxyInv /\ [ProxyNext]_proxyVars => ProxyInv'
<1> SUFFICES ASSUME ProxyInv, [ProxyNext]_proxyVars PROVE ProxyInv'
  OBVIOUS
<1>1. CASE UNCHANGED proxyVars
  <2>1. UNCHANGED <<req, up, cb, active, vars>>
    BY <1>1 DEF proxyVars, vars, backendVars
  <2>2. TypeOK'
    BY <2>1 DEF ProxyInv, TypeOK, vars, lbVars, backendVars, pickVars
  <2> QED BY <2>1, <2>2 DEF ProxyInv, BackendInv, Budgets, Holding, CallsTo, Attempts,
                            ActiveCountsCalls, At
<1>2. CASE ProxyNext
  <2>1. TypeOK' /\ up' \in [Backend -> BOOLEAN]
    BY <1>2, RequestTyped, EnvironmentTyped DEF ProxyInv, ProxyNext
  <2>2. req' \in [Req -> Requests(Places)] /\ Attempts'
    <3>1. CASE \E r \in Req : Arrive(r) \/ Step(r) \/ HangUp(r)
      BY <3>1, RequestMoves DEF ProxyInv
    <3>2. CASE Environment
      BY <3>2, EnvironmentStutters, PoolAssumption DEF ProxyInv, Attempts, Environment,
         CrashOrRestart, Probe, Switch
    <3>3. CASE Elapses
      BY <3>3, ElapsesMoves DEF ProxyInv
    <3> QED BY <1>2, <3>1, <3>2, <3>3 DEF ProxyNext
  <2>3. ASSUME NEW b \in Backend
        PROVE  BackendInv(b)' /\ active'[b] = Cardinality(CallsTo(b))'
    <3>1. Sound(cb'[b], Budgets(b)', Timeout)
      BY <1>2, NextSteps, StepsKeepSound DEF ProxyInv, BackendInv
    <3>2. Balanced(b)
      BY <1>2, RequestBalances, EnvironmentBalances DEF ProxyInv, BackendInv, ProxyNext
    <3>3. active[b] = Cardinality(CallsTo(b)) /\ active'[b] \in Int
      BY <2>1, PoolAssumption DEF ProxyInv, ActiveCountsCalls, CallsTo, TypeOK
    <3> QED BY <3>1, <3>2, <3>3 DEF BackendInv, Balanced
  <2> QED BY <2>1, <2>2, <2>3 DEF ProxyInv, ActiveCountsCalls, CallsTo
<1> QED BY <1>1, <1>2

(* The strengthened invariant holds in every behaviour.                       *)
THEOREM SpecProxyInv == ProxySpec => []ProxyInv
  BY InitProxyInv, NextProxyInv, PTL DEF ProxySpec

(* Requests and pool keep their types: attempts stay within MaxRetries + 1,   *)
(* budgets within the timeout, the queue of Pick within the pool (ServeHTTP). *)
THEOREM SpecProxyTypeOK == ProxySpec => []ProxyTypeOK
<1>1. ProxyInv => ProxyTypeOK
  BY DEF ProxyInv, ProxyTypeOK, Requests, Places
<1> QED BY <1>1, SpecProxyInv, PTL

(* Whatever happens to them, the calls under way to a backend are what its    *)
(* active says (forward's Add(1) and Add(-1)).                                *)
THEOREM SpecActiveCountsCalls == ProxySpec => []ActiveCountsCalls
<1>1. ProxyInv => ActiveCountsCalls
  BY DEF ProxyInv
<1> QED BY <1>1, SpecProxyInv, PTL

(* Each backend's breaker, seen in the whole gateway, is a CircuitBreaker     *)
(* whose calls are the requests in forward.                                   *)
THEOREM SpecEveryBreakerWorks == ProxySpec => EveryBreakerWorks
<1>1. ProxyInit => \A b \in Backend : BreakerOf(b)!Init
  BY NobodyHolds, OfBreaker DEF BreakerOf!Init
<1>2. ProxyInv /\ [ProxyNext]_proxyVars =>
        [\A b \in Backend : \/ UNCHANGED BreakerOf(b)!vars
                            \/ BreakerOf(b)!Next]_proxyVars
  BY NextSteps DEF BreakerSteps
<1> QED BY <1>1, <1>2, SpecProxyInv, PTL DEF ProxySpec, EveryBreakerWorks

(* Each breaker is closed exactly below its threshold, and a half-open one    *)
(* has, beside its probe, only calls that have at most what the timeout       *)
(* exceeds the cooldown by: in the order pool, where the two are equal, calls *)
(* whose time is up.                                                          *)
THEOREM SpecBreakersAreSound ==
  ProxySpec => [](\A b \in Backend :
                    BreakerOf(b)!ClosedBelowThreshold /\ BreakerOf(b)!LateCallsAreOut)
<1>1. ASSUME ProxyInv, NEW b \in Backend
      PROVE  BreakerOf(b)!ClosedBelowThreshold /\ BreakerOf(b)!LateCallsAreOut
  <2>1. Sound(cb[b], Budgets(b), Timeout)
    BY <1>1 DEF ProxyInv, BackendInv
  <2> QED BY <2>1 DEF Sound, BreakerOf!ClosedBelowThreshold, BreakerOf!LateCallsAreOut,
                      BreakerOf!Running, Budgets
<1>2. ProxyInv => \A b \in Backend :
                    BreakerOf(b)!ClosedBelowThreshold /\ BreakerOf(b)!LateCallsAreOut
  BY <1>1
<1> QED BY <1>2, SpecProxyInv, PTL

LEMMA ProbeIsAlone ==
  ASSUME Timeout < OpenDuration, NEW b \in Backend, BackendInv(b)
  PROVE  /\ cb[b].state = "half-open" => \E r : Holding(b) = {r}
         /\ cb[b].state = "open" /\ cb[b].since >= OpenDuration => Holding(b) = {}
<1>1. Timeout \in Nat /\ Sound(cb[b], Budgets(b), Timeout) /\ DOMAIN Budgets(b) = Holding(b)
  BY ProxyAssumption DEF BackendInv, Budgets
<1> QED BY <1>1, SoundProbeIsAlone

(* No probe is lost and none is doubled, where the timeout is shorter than    *)
(* the cooldown (userProxy, productProxy): a half-open breaker has exactly    *)
(* one request that will report to it (Allow, RecordSuccess, RecordFailure).  *)
THEOREM SpecOneProbe ==
  ASSUME Timeout < OpenDuration
  PROVE  ProxySpec => []OneProbe
<1>1. ASSUME ProxyInv PROVE OneProbe
  <2> SUFFICES ASSUME NEW b \in Backend, cb[b].state = "half-open"
               PROVE  Cardinality(Holding(b)) = 1
    BY DEF OneProbe
  <2>1. PICK r : Holding(b) = {r}
    BY <1>1, ProbeIsAlone DEF ProxyInv
  <2> QED BY <2>1, FS_Singleton
<1> QED BY <1>1, SpecProxyInv, PTL

--------------------------------------------------------------------------------
(* Every breaker keeps its promise *)

(* The clock-free promise of a breaker, with the requests in forward as the   *)
(* calls.                                                                     *)
ContractOf(b) ==
  INSTANCE BreakerContract WITH
    Call <- Req, mode <- cb[b].state, running <- Holding(b)

LEMMA StepKeepsPromise ==
  ASSUME Timeout < OpenDuration, NEW b \in Backend,
         BackendInv(b), cb \in [Backend -> BreakerType], BreakerSteps(b)
  PROVE  ContractOf(b)!Next \/ UNCHANGED ContractOf(b)!vars
<1> DEFINE c == cb[b]
           k == Budgets(b)
<1>1. /\ DOMAIN k = Holding(b) /\ DOMAIN (k') = Holding(b)'
      /\ k = [r \in Holding(b) |-> req[r].left]
      /\ k' = [r \in Holding(b) |-> req[r].left]'
  BY DEF Budgets
<1>2. c \in BreakerType /\ ((c.state = "closed") <=> (c.failures < Threshold))
  BY DEF BackendInv, Sound
<1> HIDE DEF k
<1>3. ASSUME NEW r \in Req, NEW left \in 0 .. Timeout, BreakerOf(b)!Start(r, left)
      PROVE  ContractOf(b)!Next
  <2>1. /\ r \notin Holding(b) /\ Holding(b)' = Holding(b) \cup {r}
        /\ Allow(c) /\ cb'[b] = AfterAllow(c)
    BY <1>1, <1>3, OfBreaker DEF BreakerOf!Start, BreakerOf!Running
  <2>2. cb'[b].state = IF c.state = "open" THEN "half-open" ELSE c.state
    BY <1>2, <2>1, AfterAllowKeepsCounts
  <2>3. CASE c.state = "closed"
    <3>1. ContractOf(b)!Admit(r)
      BY <2>1, <2>2, <2>3 DEF ContractOf!Admit
    <3> QED BY <3>1 DEF ContractOf!Next
  <2>4. CASE c.state # "closed"
    <3>1. c.state = "open" /\ Holding(b) = {}
      BY <2>1, <2>4, ProbeIsAlone DEF Allow
    <3>2. ContractOf(b)!Trial(r)
      BY <2>1, <2>2, <3>1 DEF ContractOf!Trial
    <3> QED BY <3>2 DEF ContractOf!Next
  <2> QED BY <2>3, <2>4
<1>4. ASSUME NEW r \in Req, BreakerOf(b)!Return(r)
      PROVE  r \in Holding(b) /\ Holding(b)' = Holding(b) \ {r}
  BY <1>1, <1>4 DEF BreakerOf!Return, BreakerOf!Running
<1>5. ASSUME NEW r \in Req, BreakerOf(b)!Succeed(r)
      PROVE  ContractOf(b)!Next
  <2>1. BreakerOf(b)!Return(r) /\ cb'[b].state = "closed"
    BY <1>2, <1>5, OfBreaker, RecordSuccessCloses DEF BreakerOf!Succeed
  <2>2. ContractOf(b)!Succeed(r)
    BY <1>4, <2>1 DEF ContractOf!Succeed
  <2> QED BY <2>2 DEF ContractOf!Next
<1>6. ASSUME NEW r \in Req, BreakerOf(b)!Fail(r)
      PROVE  ContractOf(b)!Next
  <2>1. BreakerOf(b)!Return(r) /\ cb'[b] = RecordFailure(c)
    BY <1>6, OfBreaker DEF BreakerOf!Fail
  <2>2. /\ cb'[b] \in BreakerType
        /\ cb'[b].failures >= c.failures
        /\ cb'[b].failures >= Threshold => cb'[b].state = "open"
        /\ cb'[b].failures < Threshold => cb'[b].state = c.state
    BY <1>2, <2>1, RecordFailureCounts
  <2>3. c.failures \in Nat /\ cb'[b].failures \in Nat /\ Threshold \in Nat
    BY <1>2, <2>2, BreakerAssumption DEF BreakerType
  <2>4. /\ cb'[b].failures < Threshold \/ cb'[b].failures >= Threshold
        /\ c.state # "closed" => cb'[b].failures >= Threshold
    BY <1>2, <2>2, <2>3
  <2>5. ContractOf(b)!Fail(r)
    BY <1>4, <2>1, <2>2, <2>4 DEF ContractOf!Fail
  <2> QED BY <2>5 DEF ContractOf!Next
<1>7. ASSUME NEW r \in Req, BreakerOf(b)!Cancel(r)
      PROVE  UNCHANGED ContractOf(b)!vars
  BY <1>1, <1>7 DEF BreakerOf!Cancel, ContractOf!vars
<1>8. CASE BreakerOf(b)!Tick
  <2>1. cb'[b].state = c.state
    BY <1>2, <1>8, OfBreaker, ElapseKeepsState DEF BreakerOf!Tick
  <2>2. Holding(b)' = Holding(b)
    BY <1>1, <1>8 DEF BreakerOf!Tick, BreakerOf!Running
  <2> QED BY <2>1, <2>2 DEF ContractOf!vars
<1>9. CASE UNCHANGED BreakerOf(b)!vars
  BY <1>1, <1>9 DEF BreakerOf!vars, ContractOf!vars
<1> QED BY <1>3, <1>5, <1>6, <1>7, <1>8, <1>9 DEF BreakerSteps, BreakerOf!Next

(* In the gateway, under any load, every breaker keeps BreakerContract where  *)
(* the timeout is shorter than the cooldown: what one breaker is shown to do  *)
(* alone (CircuitBreakerProofs) it does among other requests, retries, health *)
(* probes, crashes, switches of the algorithm and clients that hang up.       *)
THEOREM SpecEveryBreakerKeepsContract ==
  ASSUME Timeout < OpenDuration
  PROVE  ProxySpec =>
           /\ \A b \in Backend : ContractOf(b)!Init
           /\ [][\A b \in Backend : \/ ContractOf(b)!Next
                                    \/ UNCHANGED ContractOf(b)!vars]_proxyVars
<1>1. ProxyInit => \A b \in Backend : ContractOf(b)!Init
  BY NobodyHolds, NewBreakerIsClosed DEF ContractOf!Init
<1>2. ProxyInv /\ [ProxyNext]_proxyVars =>
        [\A b \in Backend : \/ ContractOf(b)!Next
                            \/ UNCHANGED ContractOf(b)!vars]_proxyVars
  BY NextSteps, StepKeepsPromise DEF ProxyInv, TypeOK
<1> QED BY <1>1, <1>2, SpecProxyInv, PTL DEF ProxySpec

--------------------------------------------------------------------------------
(* Floods and warm-ups *)


SimPlaces == Places \cup {"barrier"}

WarmedBy(b) == {w \in Warmer : warm[w] = b}

(* The goroutines of the flood that have not called wg.Done.                  *)
Unfinished == {r \in Flooder : ~At(r, "idle")}

(* The WaitGroup counts them, and the handler knows where they are while it   *)
(* does not wait.                                                             *)
FloodWaits ==
  /\ IsFiniteSet(Unfinished) /\ wg = Cardinality(Unfinished)
  /\ flood = "idle" => \A r \in Flooder : At(r, "idle")
  /\ flood = "armed" => \A r \in Flooder : At(r, "idle") \/ At(r, "barrier")
  /\ flood = "fired" => \A r \in Flooder : ~At(r, "barrier")

SimInv ==
  /\ TypeOK
  /\ req \in [Req -> Requests(SimPlaces)] /\ Attempts
  /\ up \in [Backend -> BOOLEAN]
  /\ flood \in {"idle", "armed", "fired"}
  /\ warm \in [Warmer -> Backend \cup {NoBackend}]
  /\ FloodWaits
  /\ \A b \in Backend : BackendInv(b) /\ IsFiniteSet(WarmedBy(b))
  /\ ActiveCountsAllCalls

(* What a step does to the requests, the pool and the breakers.               *)
SimMoves ==
  /\ TypeOK' /\ up' \in [Backend -> BOOLEAN]
  /\ req' \in [Req -> Requests(SimPlaces)] /\ Attempts'
  /\ \A b \in Backend : BreakerSteps(b)

LEMMA InitSimInv == SimInit => SimInv
<1> SUFFICES ASSUME SimInit PROVE SimInv
  OBVIOUS
<1>1. ProxyInit /\ ProxyInv
  BY InitProxyInv DEF SimInit
<1>2. req \in [Req -> Requests(SimPlaces)] /\ flood \in {"idle", "armed", "fired"}
      /\ warm \in [Warmer -> Backend \cup {NoBackend}]
  BY <1>1 DEF ProxyInv, SimInit, Requests, SimPlaces
<1>3. \A r \in Req : req[r].at = "idle"
  BY <1>1 DEF ProxyInit
<1>4. FloodWaits
  <2>1. Unfinished = {}
    BY <1>3, FloodAssumption DEF Unfinished, At
  <2> QED BY <1>3, <2>1, FloodAssumption, FS_EmptySet DEF FloodWaits, At, SimInit
<1>5. ASSUME NEW b \in Backend
      PROVE  WarmedBy(b) = {} /\ BackendInv(b) /\ active[b] = Cardinality(CallsTo(b))
             /\ Cardinality(CallsTo(b)) = 0
  <2>1. b # NoBackend
    BY DEF Backend, NoBackend
  <2>2. WarmedBy(b) = {}
    BY <2>1 DEF WarmedBy, SimInit
  <2> QED BY <1>1, <2>2, NobodyHolds, FS_EmptySet
         DEF ProxyInv, ActiveCountsCalls, CallsTo
<1>6. ActiveCountsAllCalls
  <2>1. \A b \in Backend : active[b] = Cardinality(CallsTo(b)) + Cardinality(WarmedBy(b))
    BY <1>5, FS_EmptySet
  <2> QED BY <2>1 DEF ActiveCountsAllCalls, CallsTo, WarmedBy
<1> QED BY <1>1, <1>2, <1>4, <1>5, <1>6, FS_EmptySet DEF ProxyInv, SimInv

--------------------------------------------------------------------------------
(* The steps *)

(* A step of r is nobody else's.                                              *)
LEMMA OnlyMoves ==
  ASSUME NEW Place, req \in [Req -> Requests(Place)], NEW r \in Req,
         Arrive(r) \/ Step(r) \/ HangUp(r)
  PROVE  \A q \in Req \ {r} : req'[q] = req[q]
BY DEF Arrive, HangUp, Step, Loop, Backoff, Pick, PickRefused, PickReturns, PickReturnsNil,
       Send, Return, Succeed, Fail, Relay, Go

(* Who moves is under way, and goes neither back to the barrier nor away.     *)
LEMMA LiveMoves ==
  ASSUME req \in [Req -> Requests(SimPlaces)], NEW r \in Req, AsProxied(r)
  PROVE  req[r].at \in Live /\ req'[r].at \notin {"idle", "barrier"}
<1> USE DEF AsProxied, Requests, At, Go, Live, InForward
<1>1. CASE Pick(r) \/ PickRefused(r) \/ PickReturnsNil(r)
  BY <1>1 DEF Pick, PickRefused, PickReturnsNil
<1>2. CASE Send(r) \/ Succeed(r) \/ Relay(r)
  BY <1>2 DEF Send, Succeed, Relay
<1> QED BY <1>1, <1>2

(* Handler steps move requests that hold nothing to where they hold nothing.  *)
LEMMA HandlerMoves ==
  ASSUME SimInv, NEW some \in SUBSET Flooder, Launch(some) \/ Fire
  PROVE  SimMoves /\ (\A b \in Backend : Balanced(b)) /\ FloodWaits'
<1>1. Timeout \in Nat /\ Flooder \subseteq Req /\ MaxRetries \in Nat
  BY ProxyAssumption, FloodAssumption
<1>2. /\ UNCHANGED <<cb, active>> /\ TypeOK' /\ up' \in [Backend -> BOOLEAN]
  BY DEF SimInv, Launch, Fire, TypeOK, vars, lbVars, backendVars, pickVars
<1>3. ASSUME NEW r \in Req
      PROVE  /\ req'[r] \in Requests(SimPlaces)
             /\ req'[r].at \in Trying => req'[r].attempt <= MaxRetries
             /\ \/ req'[r] = req[r]
                \/ /\ req[r].at \notin InForward /\ req'[r].at \notin InForward
                   /\ r \in Flooder /\ Launch(some) => req'[r].at = "barrier"
  <2>1. CASE Launch(some)
    <3>1. CASE r \in some
      <4>1. req'[r] = [at |-> "barrier", attempt |-> 0, left |-> Timeout,
                       backend |-> NoBackend]
        BY <2>1, <3>1 DEF Launch
      <4>2. req[r].at = "idle"
        BY <2>1, <3>1 DEF Launch, SimInv, FloodWaits, At
      <4> QED BY <1>1, <4>1, <4>2 DEF Requests, SimPlaces, InForward
    <3>2. CASE r \notin some
      BY <2>1, <3>2 DEF Launch, SimInv, Attempts
    <3> QED BY <3>1, <3>2
  <2>2. CASE Fire
    <3>1. CASE At(r, "barrier")
      <4>1. req'[r] = [req[r] EXCEPT !.at = "pick"] /\ req[r] \in Requests(SimPlaces)
        BY <2>2, <3>1 DEF Fire, SimInv
      <4>2. req[r].attempt <= MaxRetries
        BY <3>1 DEF SimInv, Attempts, At, Trying
      <4>3. req'[r] \in Requests(SimPlaces) /\ req'[r].at = "pick"
            /\ req'[r].attempt = req[r].attempt
        BY <4>1 DEF Requests, SimPlaces, Places, Live
      <4> QED BY <2>2, <3>1, <4>2, <4>3 DEF At, InForward, Launch, Fire
    <3>2. CASE ~At(r, "barrier")
      BY <2>2, <3>2 DEF Fire, SimInv, Attempts
    <3> QED BY <3>1, <3>2
  <2> QED BY <2>1, <2>2
<1>4. req' \in [Req -> Requests(SimPlaces)] /\ Attempts'
  BY <1>3 DEF Launch, Fire, Attempts
<1>5. ASSUME NEW b \in Backend PROVE BreakerSteps(b) /\ Balanced(b)
  <2>1. Holding(b)' = Holding(b) /\ \A r \in Holding(b) : req'[r] = req[r]
    BY <1>3 DEF Holding
  <2>2. Budgets(b)' = Budgets(b)
    BY <2>1 DEF Budgets
  <2>3. UNCHANGED BreakerOf(b)!vars
    BY <1>2, <2>2 DEF BreakerOf!vars, Budgets
  <2>4. Balanced(b)
    BY <1>2, <1>3, OthersBalance DEF At, InForward, SimInv, BackendInv
  <2> QED BY <2>3, <2>4 DEF BreakerSteps
<1>6. FloodWaits'
  <2>1. CASE Launch(some)
    <3>1. flood = "idle" /\ flood' = "armed" /\ wg' = wg + Cardinality(some)
          /\ \A r \in Flooder : req[r].at = "idle"
      BY <2>1 DEF Launch, SimInv, FloodWaits, At
    <3>2. \A r \in Flooder : req'[r].at = IF r \in some THEN "barrier" ELSE "idle"
      BY <1>1, <2>1, <3>1 DEF Launch
    <3>3. Unfinished = {} /\ Unfinished' = some
      BY <3>1, <3>2 DEF Unfinished, At
    <3>4. wg = 0 /\ IsFiniteSet(some)
      BY <3>3, FS_EmptySet, FS_Subset, FloodAssumption DEF SimInv, FloodWaits
    <3>5. wg' = Cardinality(some)
      BY <3>1, <3>4, FS_CardinalityType
    <3> QED BY <3>1, <3>2, <3>3, <3>4, <3>5 DEF FloodWaits, At
  <2>2. CASE Fire
    <3>1. flood = "armed" /\ flood' = "fired" /\ wg' = wg
      BY <2>2 DEF Fire
    <3>2. \A r \in Flooder :
            req'[r].at = IF req[r].at = "barrier" THEN "pick" ELSE req[r].at
      BY <1>1, <2>2 DEF Fire, SimInv, At, Requests
    <3>3. Unfinished' = Unfinished
      BY <3>2 DEF Unfinished, At
    <3> QED BY <3>1, <3>2, <3>3 DEF FloodWaits, SimInv, At
  <2> QED BY <2>1, <2>2
<1> QED BY <1>2, <1>4, <1>5, <1>6 DEF SimMoves

(* Its last step takes a goroutine out of the count.                          *)
LEMMA DoneMoves ==
  ASSUME SimInv, NEW r \in Flooder, WaitGroupDone(r)
  PROVE  SimMoves /\ (\A b \in Backend : Balanced(b)) /\ FloodWaits'
<1>1. /\ r \in Req /\ Flooder \subseteq Req
      /\ req \in [Req -> Requests(SimPlaces)] /\ Attempts /\ TypeOK
      /\ up \in [Backend -> BOOLEAN] /\ req[r] \in Requests(SimPlaces)
      /\ \A b \in Backend : IsFiniteSet(CallsTo(b))
  BY FloodAssumption DEF SimInv, BackendInv
<1>2. /\ req[r].at \in Done /\ Go(r, "idle") /\ wg' = wg - 1
      /\ UNCHANGED <<vars, up, flood, cb, active>>
  BY DEF WaitGroupDone, vars, backendVars
<1>3. req' = [req EXCEPT ![r] = [req[r] EXCEPT !.at = "idle"]]
      /\ req'[r] = [req[r] EXCEPT !.at = "idle"]
  BY <1>1, <1>2 DEF Go
<1>4. /\ \A q \in Req \ {r} : req'[q] = req[q]
      /\ req'[r].at = "idle" /\ req'[r] \in Requests(SimPlaces)
  BY <1>1, <1>3 DEF Requests, SimPlaces, Places
<1>5. Moves(r, SimPlaces)
  BY <1>3, <1>4 DEF Moves, Trying, InForward
<1>6. req' \in [Req -> Requests(SimPlaces)] /\ Attempts'
  BY <1>1, <1>5, MovesKeep
<1>7. TypeOK' /\ up' \in [Backend -> BOOLEAN]
  BY <1>1, <1>2 DEF TypeOK, vars, lbVars, backendVars, pickVars
<1>8. req[r].at \notin InForward /\ req'[r].at \notin InForward
  BY <1>2, <1>4 DEF Done, InForward
<1>9. ASSUME NEW b \in Backend PROVE BreakerSteps(b) /\ Balanced(b)
  BY <1>1, <1>2, <1>4, <1>8, Unnoticed, OthersBalance DEF BreakerSteps, At, InForward
<1>10. FloodWaits'
  <2>1. r \in Unfinished /\ Unfinished' = Unfinished \ {r}
    BY <1>2, <1>4, FloodAssumption DEF Unfinished, At, Done
  <2>2. IsFiniteSet(Unfinished') /\ wg' = Cardinality(Unfinished')
    BY <1>2, <2>1, FS_RemoveElement DEF SimInv, FloodWaits
  <2> QED BY <1>1, <1>2, <1>4, <2>2 DEF SimInv, FloodWaits, At
<1> QED BY <1>6, <1>7, <1>9, <1>10 DEF SimMoves

LEMMA FlooderMoves ==
  ASSUME SimInv, NEW r \in Flooder,
         \/ AsProxied(r) \/ FloodFail(r) \/ WaitGroupDone(r)
         \/ \E b \in Backend : FloodPicked(r, b)
         \/ \E result \in {"answered", "failed"} : FloodReturn(r, result)
  PROVE  SimMoves /\ (\A b \in Backend : Balanced(b)) /\ FloodWaits'
<1>1. /\ r \in Req /\ Flooder \subseteq Req /\ Places \subseteq SimPlaces
      /\ MaxRetries \in Nat /\ Timeout \in Nat
      /\ req \in [Req -> Requests(SimPlaces)] /\ Attempts /\ TypeOK
      /\ cb \in [Backend -> BreakerType] /\ up \in [Backend -> BOOLEAN]
      /\ req[r] \in Requests(SimPlaces)
      /\ \A b \in Backend : IsFiniteSet(CallsTo(b))
  BY FloodAssumption, ProxyAssumption DEF SimInv, TypeOK, SimPlaces, BackendInv
<1>2. ASSUME \A q \in Req \ {r} : req'[q] = req[q], req[r].at \in Live,
             req'[r].at \notin {"idle", "barrier"}, UNCHANGED <<flood, wg>>
      PROVE  FloodWaits'
  <2>1. req[r].at \notin {"idle", "barrier"}
    BY <1>2 DEF Live, InForward
  <2>2. Unfinished' = Unfinished
    BY <1>1, <1>2, <2>1 DEF Unfinished, At
  <2> QED BY <1>1, <1>2, <2>1, <2>2 DEF SimInv, FloodWaits, At
<1>3. algorithm \in Algorithms /\ 0 \in Nat /\ TRUE \in BOOLEAN /\ FALSE \in BOOLEAN
  BY <1>1 DEF TypeOK
<1>4. CASE AsProxied(r)
  <2>1. Step(r) /\ UNCHANGED <<flood, wg>>
    BY <1>4 DEF AsProxied, Step
  <2>2. SimMoves
    BY <1>1, <2>1, RequestMoves, RequestTyped, RequestSteps DEF SimMoves
  <2>3. \A b \in Backend : Balanced(b)
    BY <1>1, <2>1, RequestBalances
  <2> QED BY <1>1, <1>2, <1>4, <2>1, <2>2, <2>3, OnlyMoves, LiveMoves
<1>5. CASE FloodFail(r)
  <2>1. /\ req' = [req EXCEPT ![r] = [req[r] EXCEPT !.at = "exhausted",
                                                    !.backend = NoBackend]]
        /\ req[r].at = "failed" /\ Report(req[r].backend, FALSE)
        /\ up' = up /\ UNCHANGED <<flood, wg>>
    BY <1>5 DEF FloodFail, At
  <2>2. req'[r] = [req[r] EXCEPT !.at = "exhausted", !.backend = NoBackend]
    BY <1>1, <2>1
  <2>3. req'[r] \in Requests(SimPlaces) /\ req'[r].at = "exhausted"
    BY <1>1, <2>2 DEF Requests, SimPlaces, Places, Done
  <2>4. \A q \in Req \ {r} : req'[q] = req[q]
    BY <1>1, <2>1
  <2>5. Moves(r, SimPlaces)
    BY <2>1, <2>3 DEF Moves, Trying, InForward
  <2>6. TypeOK' /\ up' \in [Backend -> BOOLEAN]
    BY <1>1, <1>3, <2>1, OthersTyped
  <2>7. ASSUME NEW b \in Backend PROVE BreakerSteps(b)
    BY <1>1, <2>1, <2>3, <2>4, ReportEnds DEF InForward
  <2>8. SimMoves
    BY <1>1, <2>5, <2>6, <2>7, MovesKeep DEF SimMoves
  <2>9. ASSUME NEW b \in Backend PROVE Balanced(b)
    BY <1>1, <2>1, <2>3, <2>4, OthersBalance DEF Report, At
  <2> QED BY <1>2, <2>1, <2>3, <2>4, <2>8, <2>9 DEF Live, InForward
<1>6. ASSUME NEW c \in Backend, FloodPicked(r, c)
      PROVE  SimMoves /\ (\A b \in Backend : Balanced(b)) /\ FloodWaits'
  <2>1. /\ req' = [req EXCEPT ![r].at = "picked", ![r].backend = c, ![r].left = Timeout]
        /\ req' = [req EXCEPT ![r] = [req[r] EXCEPT !.at = "picked", !.backend = c,
                                                    !.left = Timeout]]
        /\ req[r].at = "picking" /\ At(r, "picking") /\ Granted(c)
        /\ up' = up /\ UNCHANGED <<flood, wg>>
    BY <1>6 DEF FloodPicked, At
  <2>2. req'[r] = [req[r] EXCEPT !.at = "picked", !.backend = c, !.left = Timeout]
    BY <1>1, <2>1
  <2>3. /\ req'[r] \in Requests(SimPlaces) /\ req'[r].at = "picked"
        /\ req'[r].attempt = req[r].attempt
    <3>1. Timeout \in 0 .. Timeout /\ "picked" \in SimPlaces
      BY <1>1 DEF SimPlaces, Places, Live, InForward
    <3> QED BY <1>1, <2>2, <3>1 DEF Requests
  <2>4. \A q \in Req \ {r} : req'[q] = req[q]
    BY <1>1, <2>1
  <2>5. req[r].attempt <= MaxRetries
    BY <1>1, <2>1 DEF Attempts, Trying
  <2>6. Moves(r, SimPlaces)
    BY <2>1, <2>3, <2>5 DEF Moves
  <2>7. TypeOK' /\ up' \in [Backend -> BOOLEAN]
    BY <1>1, <2>1, PickTyped
  <2>8. ASSUME NEW b \in Backend PROVE BreakerSteps(b)
    <3>1. Timeout \in 0 .. Timeout
      BY <1>1
    <3> QED BY <1>1, <2>1, <3>1, PickedStarts
  <2>9. SimMoves
    BY <1>1, <2>6, <2>7, <2>8, MovesKeep DEF SimMoves
  <2>10. ASSUME NEW b \in Backend PROVE Balanced(b)
    BY <1>1, <2>1, <2>3, <2>4, OthersBalance DEF Granted, At
  <2> QED BY <1>2, <2>1, <2>3, <2>4, <2>9, <2>10 DEF Live
<1>7. ASSUME NEW result \in {"answered", "failed"}, FloodReturn(r, result)
      PROVE  SimMoves /\ (\A b \in Backend : Balanced(b)) /\ FloodWaits'
  <2>1. /\ req[r].at = "calling" /\ At(r, "calling") /\ Go(r, result)
        /\ DropActive(req[r].backend) /\ up' = up /\ UNCHANGED <<flood, wg>>
    BY <1>7 DEF FloodReturn, At
  <2>2. /\ \A q \in Req \ {r} : req'[q] = req[q]
        /\ req'[r].at = result /\ req'[r].backend = req[r].backend
        /\ req'[r].left = req[r].left
    BY <1>1, <2>1 DEF Go, Requests
  <2>3. result \in SimPlaces /\ req[r].attempt <= MaxRetries
    BY <1>1, <2>1 DEF SimPlaces, Places, Live, InForward, Attempts, Trying
  <2>4. req' \in [Req -> Requests(SimPlaces)] /\ Attempts'
    BY <1>1, <2>1, <2>3, GoMoves, MovesKeep
  <2>5. TypeOK' /\ up' \in [Backend -> BOOLEAN]
    BY <1>1, <1>3, <2>1, OthersTyped
  <2>6. ASSUME NEW b \in Backend PROVE BreakerSteps(b)
    BY <1>1, <2>1, <2>2, Unnoticed DEF DropActive, InForward, BreakerSteps
  <2>7. ASSUME NEW b \in Backend PROVE Balanced(b)
    BY <1>1, <2>1, ReturnBalances
  <2> QED BY <1>2, <2>1, <2>2, <2>4, <2>5, <2>6, <2>7 DEF SimMoves, Live, InForward
<1> QED BY <1>4, <1>5, <1>6, <1>7, DoneMoves

(* Proxied requests and what goes on around them leave the flood alone.       *)
LEMMA ProxiedMoves ==
  ASSUME SimInv,
         (\E r \in Visitor : Arrive(r) \/ Step(r) \/ HangUp(r)) \/ Environment \/ Elapses,
         UNCHANGED <<flood, wg>>
  PROVE  SimMoves /\ (\A b \in Backend : Balanced(b)) /\ FloodWaits'
<1>1. /\ Flooder \subseteq Req /\ Places \subseteq SimPlaces
      /\ req \in [Req -> Requests(SimPlaces)] /\ Attempts /\ TypeOK
      /\ cb \in [Backend -> BreakerType] /\ up \in [Backend -> BOOLEAN]
      /\ \A b \in Backend : IsFiniteSet(CallsTo(b))
  BY FloodAssumption DEF SimInv, TypeOK, SimPlaces, BackendInv
<1>2. ASSUME NEW r \in Visitor, Arrive(r) \/ Step(r) \/ HangUp(r)
      PROVE  SimMoves /\ (\A b \in Backend : Balanced(b)) /\ FloodWaits'
  <2>1. r \in Req /\ r \notin Flooder
    BY DEF Visitor
  <2>2. SimMoves
    BY <1>1, <1>2, <2>1, RequestMoves, RequestTyped, RequestSteps DEF SimMoves
  <2>3. \A b \in Backend : Balanced(b)
    BY <1>1, <1>2, <2>1, RequestBalances
  <2>4. \A q \in Flooder : req'[q] = req[q]
    BY <1>1, <1>2, <2>1, OnlyMoves
  <2>5. FloodWaits'
    BY <2>4 DEF FloodWaits, Unfinished, SimInv, At
  <2> QED BY <2>2, <2>3, <2>5
<1>3. CASE Environment
  <2>1. req' = req
    BY <1>3 DEF Environment, CrashOrRestart, Probe, Switch
  <2>2. SimMoves
    BY <1>1, <1>3, <2>1, EnvironmentTyped, EnvironmentStutters
       DEF SimMoves, Attempts, BreakerSteps
  <2> QED BY <1>1, <1>3, <2>1, <2>2, EnvironmentBalances DEF FloodWaits, Unfinished, SimInv, At
<1>4. CASE Elapses
  <2>1. SimMoves /\ \A b \in Backend : Balanced(b)
    BY <1>1, <1>4, EnvironmentTyped, ElapsesMoves, ElapsesTicks, EnvironmentBalances
       DEF SimMoves
  <2>2. \A q \in Flooder : req'[q].at = req[q].at
    BY <1>1, <1>4 DEF Elapses, Requests
  <2> QED BY <2>1, <2>2 DEF FloodWaits, Unfinished, SimInv, At
<1> QED BY <1>2, <1>3, <1>4

(* A warm-up counts as active without being a request.                        *)
LEMMA WarmMoves ==
  ASSUME SimInv, NEW w \in Warmer, Cool(w) \/ \E c \in Preloaded : WarmUp(w, c)
  PROVE  /\ TypeOK' /\ UNCHANGED <<req, up, flood, wg, cb>>
         /\ warm' \in [Warmer -> Backend \cup {NoBackend}]
         /\ \A b \in Backend :
              /\ IsFiniteSet(WarmedBy(b))'
              /\ active'[b] = Cardinality(CallsTo(b)) + Cardinality(WarmedBy(b))'
<1>1. /\ TypeOK /\ active \in [Backend -> Int] /\ Preloaded \subseteq Backend
      /\ warm \in [Warmer -> Backend \cup {NoBackend}] /\ NoBackend \notin Backend
      /\ \A b \in Backend :
           /\ IsFiniteSet(WarmedBy(b)) /\ IsFiniteSet(CallsTo(b))
           /\ Cardinality(CallsTo(b)) \in Nat /\ Cardinality(WarmedBy(b)) \in Nat
           /\ active[b] = Cardinality(CallsTo(b)) + Cardinality(WarmedBy(b))
  <2>1. active \in [Backend -> Int] /\ Preloaded \subseteq Backend
    BY PoolAssumption, FloodAssumption DEF SimInv, TypeOK
  <2>2. NoBackend \notin Backend
    BY DEF NoBackend, Backend
  <2>3. \A b \in Backend :
          active[b] = Cardinality(CallsTo(b)) + Cardinality(WarmedBy(b))
    BY DEF SimInv, ActiveCountsAllCalls, CallsTo, WarmedBy
  <2> QED BY <2>1, <2>2, <2>3, FS_CardinalityType DEF SimInv, BackendInv
<1>2. algorithm \in Algorithms /\ 0 \in Nat /\ TRUE \in BOOLEAN
  BY <1>1 DEF TypeOK
<1>3. ASSUME NEW c \in Backend, WarmUp(w, c)
      PROVE  /\ TypeOK' /\ UNCHANGED <<req, up, flood, wg, cb>>
             /\ warm' \in [Warmer -> Backend \cup {NoBackend}]
             /\ \A b \in Backend :
                  /\ IsFiniteSet(WarmedBy(b))'
                  /\ active'[b] = Cardinality(CallsTo(b)) + Cardinality(WarmedBy(b))'
  <2>1. TypeOK' /\ UNCHANGED <<req, up, flood, wg, cb>>
    BY <1>1, <1>2, <1>3, OthersTyped DEF WarmUp, AddActive
  <2>2. warm[w] = NoBackend /\ warm' = [warm EXCEPT ![w] = c]
        /\ active' = [active EXCEPT ![c] = active[c] + 1]
    BY <1>3 DEF WarmUp, AddActive
  <2>3. warm' \in [Warmer -> Backend \cup {NoBackend}]
    BY <1>1, <2>2
  <2>4. ASSUME NEW b \in Backend
        PROVE  /\ IsFiniteSet(WarmedBy(b))'
               /\ active'[b] = Cardinality(CallsTo(b)) + Cardinality(WarmedBy(b))'
    <3>1. CASE b = c
      <4>1. WarmedBy(b)' = WarmedBy(b) \cup {w} /\ w \notin WarmedBy(b)
        BY <1>1, <2>2, <3>1 DEF WarmedBy
      <4>2. /\ IsFiniteSet(WarmedBy(b) \cup {w})
            /\ Cardinality(WarmedBy(b) \cup {w}) = Cardinality(WarmedBy(b)) + 1
        BY <1>1, <4>1, FS_AddElement
      <4>3. active'[b] = active[b] + 1
        BY <1>1, <2>2, <3>1
      <4> QED BY <1>1, <4>1, <4>2, <4>3
    <3>2. CASE b # c
      <4>1. WarmedBy(b)' = WarmedBy(b)
        BY <1>1, <2>2, <3>2 DEF WarmedBy
      <4>2. active'[b] = active[b]
        BY <1>1, <2>2, <3>2
      <4> QED BY <1>1, <4>1, <4>2
    <3> QED BY <3>1, <3>2
  <2> QED BY <2>1, <2>3, <2>4
<1>4. CASE Cool(w)
  <2>1. TypeOK' /\ UNCHANGED <<req, up, flood, wg, cb>>
    BY <1>1, <1>2, <1>4, OthersTyped DEF Cool, DropActive
  <2>2. warm[w] \in Backend /\ warm' = [warm EXCEPT ![w] = NoBackend]
        /\ active' = [active EXCEPT ![warm[w]] = active[warm[w]] - 1]
    BY <1>1, <1>4 DEF Cool, DropActive
  <2>3. warm' \in [Warmer -> Backend \cup {NoBackend}]
    BY <1>1, <2>2
  <2>4. ASSUME NEW b \in Backend
        PROVE  /\ IsFiniteSet(WarmedBy(b))'
               /\ active'[b] = Cardinality(CallsTo(b)) + Cardinality(WarmedBy(b))'
    <3>1. CASE b = warm[w]
      <4>1. WarmedBy(b)' = WarmedBy(b) \ {w} /\ w \in WarmedBy(b)
        BY <1>1, <2>2, <3>1 DEF WarmedBy
      <4>2. /\ IsFiniteSet(WarmedBy(b) \ {w})
            /\ Cardinality(WarmedBy(b) \ {w}) = Cardinality(WarmedBy(b)) - 1
        BY <1>1, <4>1, FS_RemoveElement
      <4>3. active'[b] = active[b] - 1
        BY <1>1, <2>2, <3>1
      <4> QED BY <1>1, <4>1, <4>2, <4>3
    <3>2. CASE b # warm[w]
      <4>1. WarmedBy(b)' = WarmedBy(b)
        BY <1>1, <2>2, <3>2 DEF WarmedBy
      <4>2. active'[b] = active[b]
        BY <1>1, <2>2, <3>2
      <4> QED BY <1>1, <4>1, <4>2
    <3> QED BY <3>1, <3>2
  <2> QED BY <2>1, <2>3, <2>4
<1> QED BY <1>1, <1>3, <1>4

--------------------------------------------------------------------------------
(* The invariant *)

(* A step that moves requests and not warm-ups.                               *)
LEMMA MovesKeepInv ==
  ASSUME SimInv, SimMoves, \A b \in Backend : Balanced(b), FloodWaits', warm' = warm,
         flood' \in {"idle", "armed", "fired"}
  PROVE  SimInv'
<1>1. ASSUME NEW b \in Backend
      PROVE  /\ BackendInv(b)' /\ WarmedBy(b)' = WarmedBy(b)
             /\ active'[b] = Cardinality(CallsTo(b))' + Cardinality(WarmedBy(b))
  <2>1. Sound(cb'[b], Budgets(b)', Timeout)
    BY StepsKeepSound DEF SimInv, SimMoves, BackendInv
  <2>2. active[b] = Cardinality(CallsTo(b)) + Cardinality(WarmedBy(b))
    BY DEF SimInv, ActiveCountsAllCalls, CallsTo, WarmedBy
  <2>3. Cardinality(WarmedBy(b)) \in Nat /\ active'[b] \in Int
    BY FS_CardinalityType, PoolAssumption DEF SimInv, SimMoves, TypeOK
  <2>4. WarmedBy(b)' = WarmedBy(b)
    BY DEF WarmedBy
  <2> QED BY <2>1, <2>2, <2>3, <2>4 DEF BackendInv, Balanced
<1>2. ActiveCountsAllCalls'
  <2>1. \A b \in Backend :
          active'[b] = Cardinality(CallsTo(b))' + Cardinality(WarmedBy(b))'
    BY <1>1
  <2> QED BY <2>1 DEF ActiveCountsAllCalls, CallsTo, WarmedBy
<1> QED BY <1>1, <1>2 DEF SimInv, SimMoves

(* A step that leaves the requests and the breakers alone.                    *)
LEMMA StillKeepsSound ==
  ASSUME SimInv, UNCHANGED <<req, cb>>, NEW b \in Backend
  PROVE  BackendInv(b)' /\ CallsTo(b)' = CallsTo(b) /\ BreakerSteps(b)
BY DEF SimInv, BackendInv, Budgets, Holding, CallsTo, At, BreakerSteps, BreakerOf!vars

(* Every step of each breaker is one of its own.                              *)
LEMMA SimNextSteps ==
  ASSUME SimInv, SimNext, NEW b \in Backend
  PROVE  BreakerSteps(b)
<1>1. CASE SimMoves
  BY <1>1 DEF SimMoves
<1>2. CASE UNCHANGED <<req, cb>>
  BY <1>2, StillKeepsSound
<1>3. SimMoves \/ UNCHANGED <<req, cb>>
  BY ProxiedMoves, HandlerMoves, FlooderMoves, WarmMoves
     DEF SimNext, Finish, proxyVars, vars, backendVars
<1> QED BY <1>1, <1>2, <1>3

LEMMA NextSimInv == SimInv /\ [SimNext]_simVars => SimInv'
<1> SUFFICES ASSUME SimInv, [SimNext]_simVars PROVE SimInv'
  OBVIOUS
<1>1. ASSUME UNCHANGED proxyVars, UNCHANGED warm,
             flood' \in {"idle", "armed", "fired"}, FloodWaits'
      PROVE  SimInv'
  <2>1. UNCHANGED <<req, up, cb, active, vars>>
    BY <1>1 DEF proxyVars, vars, backendVars
  <2>2. TypeOK'
    BY <2>1 DEF SimInv, TypeOK, vars, lbVars, backendVars, pickVars
  <2>3. \A b \in Backend : BackendInv(b)' /\ WarmedBy(b)' = WarmedBy(b)
    BY <1>1, <2>1, StillKeepsSound DEF WarmedBy
  <2>4. ActiveCountsAllCalls' /\ Attempts'
    BY <1>1, <2>1 DEF SimInv, ActiveCountsAllCalls, Attempts, At
  <2> QED BY <1>1, <2>1, <2>2, <2>3, <2>4 DEF SimInv
<1>2. CASE UNCHANGED simVars
  <2>1. FloodWaits' /\ UNCHANGED <<proxyVars, warm>> /\ flood' = flood
    BY <1>2 DEF simVars, proxyVars, SimInv, FloodWaits, Unfinished, At
  <2> QED BY <1>1, <2>1 DEF SimInv
<1>3. CASE Finish
  <2>1. /\ wg = 0 /\ UNCHANGED <<req, wg>>
        /\ UNCHANGED <<proxyVars, warm>> /\ flood' = "idle"
    BY <1>3 DEF Finish, proxyVars
  <2>2. Unfinished = {}
    BY <2>1, FS_EmptySet DEF SimInv, FloodWaits
  <2>3. FloodWaits'
    BY <2>1, <2>2 DEF SimInv, FloodWaits, Unfinished, At
  <2> QED BY <1>1, <2>1, <2>3
<1>4. CASE /\ (\E r \in Visitor : Arrive(r) \/ Step(r) \/ HangUp(r))
              \/ Environment \/ Elapses
           /\ UNCHANGED <<flood, wg, warm>>
  <2>1. flood' \in {"idle", "armed", "fired"} /\ UNCHANGED <<flood, wg, warm>>
    BY <1>4 DEF SimInv
  <2> QED BY <1>4, <2>1, ProxiedMoves, MovesKeepInv
<1>5. ASSUME NEW some \in SUBSET Flooder, Launch(some) \/ Fire PROVE SimInv'
  <2>1. flood' \in {"idle", "armed", "fired"} /\ warm' = warm
    BY <1>5 DEF Launch, Fire
  <2> QED BY <1>5, <2>1, HandlerMoves, MovesKeepInv
<1>6. ASSUME NEW r \in Flooder,
             \/ AsProxied(r) \/ FloodFail(r) \/ WaitGroupDone(r)
             \/ \E b \in Backend : FloodPicked(r, b)
             \/ \E result \in {"answered", "failed"} : FloodReturn(r, result)
      PROVE  SimInv'
  <2>1. flood' \in {"idle", "armed", "fired"} /\ warm' = warm
    BY <1>6 DEF AsProxied, FloodFail, WaitGroupDone, FloodPicked, FloodReturn, SimInv
  <2> QED BY <1>6, <2>1, FlooderMoves, MovesKeepInv
<1>7. ASSUME NEW w \in Warmer, Cool(w) \/ \E b \in Preloaded : WarmUp(w, b)
      PROVE  SimInv'
  <2>1. UNCHANGED <<req, up, flood, wg, cb>> /\ TypeOK'
        /\ warm' \in [Warmer -> Backend \cup {NoBackend}]
    BY <1>7, WarmMoves
  <2>2. ASSUME NEW b \in Backend
        PROVE  /\ BackendInv(b)' /\ IsFiniteSet(WarmedBy(b))'
               /\ active'[b] = Cardinality(CallsTo(b))' + Cardinality(WarmedBy(b))'
    BY <1>7, <2>1, WarmMoves, StillKeepsSound
  <2>3. ActiveCountsAllCalls'
    BY <2>2 DEF ActiveCountsAllCalls, CallsTo, WarmedBy
  <2>4. FloodWaits' /\ Attempts'
    BY <2>1 DEF SimInv, FloodWaits, Unfinished, Attempts, At
  <2> QED BY <2>1, <2>2, <2>3, <2>4 DEF SimInv
<1> QED BY <1>2, <1>3, <1>4, <1>5, <1>6, <1>7 DEF SimNext

(* The strengthened invariant holds in every behaviour.                       *)
THEOREM SpecSimInv == SimSpec => []SimInv
  BY InitSimInv, NextSimInv, PTL DEF SimSpec

(* Requests, floods and warm-ups keep their types; in particular the count of *)
(* the WaitGroup does not fall below zero, where wg.Done would panic.         *)
THEOREM SpecSimTypeOK == SimSpec => []SimTypeOK
<1>1. SimInv => SimTypeOK
  BY FS_CardinalityType
     DEF SimInv, FloodWaits, SimTypeOK, TypeOK, Requests, SimPlaces, Places
<1> QED BY <1>1, SpecSimInv, PTL

(* active counts the calls of proxied requests, floods and warm-ups, for any  *)
(* number of each (forward, handleFlood and handleWarmup share the counter).  *)
THEOREM SpecActiveCountsAllCalls == SimSpec => []ActiveCountsAllCalls
<1>1. SimInv => ActiveCountsAllCalls
  BY DEF SimInv
<1> QED BY <1>1, SpecSimInv, PTL

(* The count of the WaitGroup is that of the goroutines, however their calls  *)
(* end: when wg.Wait lets handleFlood answer, none of them has lb.mu, is in   *)
(* flight, or owes a breaker a result.                                        *)
THEOREM SpecFloodLeavesNothing == SimSpec => []FloodLeavesNothing
<1>1. SimInv => FloodLeavesNothing
  BY DEF SimInv, FloodWaits, FloodLeavesNothing
<1> QED BY <1>1, SpecSimInv, PTL

(* With floods and warm-ups about, each backend's breaker still is a          *)
(* CircuitBreaker: warm-ups do not touch it and every flooder reports.        *)
THEOREM SimSpecEveryBreakerWorks == SimSpec => EveryBreakerWorks
<1>1. SimInit => \A b \in Backend : BreakerOf(b)!Init
  BY NobodyHolds, OfBreaker DEF BreakerOf!Init, SimInit
<1>2. SimInv /\ [SimNext]_simVars =>
        [\A b \in Backend : \/ UNCHANGED BreakerOf(b)!vars
                            \/ BreakerOf(b)!Next]_proxyVars
  BY SimNextSteps DEF BreakerSteps, simVars
<1> QED BY <1>1, <1>2, SpecSimInv, PTL DEF SimSpec, EveryBreakerWorks

(* A flood does not double or lose the probe of a breaker of the product      *)
(* pool, whose timeout is shorter than the cooldown.                          *)
THEOREM SimSpecOneProbe ==
  ASSUME Timeout < OpenDuration
  PROVE  SimSpec => []OneProbe
<1>1. ASSUME SimInv PROVE OneProbe
  <2> SUFFICES ASSUME NEW b \in Backend, cb[b].state = "half-open"
               PROVE  Cardinality(Holding(b)) = 1
    BY DEF OneProbe
  <2>1. PICK r : Holding(b) = {r}
    BY <1>1, ProbeIsAlone DEF SimInv
  <2> QED BY <2>1, FS_Singleton
<1> QED BY <1>1, SpecSimInv, PTL

================================================================================
