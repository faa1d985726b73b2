----------------------------- MODULE LoadBalancer ------------------------------
(******************************************************************************)
(* The backend pool of gateway/loadbalancer.go: the seven selection           *)
(* algorithms, the circuit breakers they consult and the health flags.        *)
(*                                                                            *)
(* Pick holds lb.mu from beginning to end, but lb.mu does not protect what    *)
(* Pick reads of a backend: its breaker has a mutex of its own, and healthy,  *)
(* active and ewmaUs are atomics.  So a Pick is several steps: Choose takes   *)
(* the lock and works out in which order the healthy backends will be asked,  *)
(* then every call of Allow is one step, Refused or Granted, and other        *)
(* goroutines get in between.  Every algorithm has that shape; they differ in *)
(* the order alone.                                                           *)
(******************************************************************************)
EXTENDS Breaker, Sequences, FiniteSets

CONSTANTS
  N,            \* how many backends: lb.backends is fixed at construction
  Weight,       \* Weight[b] is the static weight of backend b
  Algorithms,   \* the names POST /gateway/algorithm is called with
  Hashes,       \* values of fnv32 over the client addresses
  Sample,       \* latencies, in microseconds, that RecordLatency is told
  MaxActive,    \* bound on the requests in flight to one backend
  Flaky,        \* bound: the backends whose health probes may fail
  Called,       \* bound: the backends that are called
  IdxMod        \* the rotation indexes are kept modulo this

Backend == 1 .. N

algorithmNames ==
  {"round-robin", "least-connections", "random", "weighted-round-robin",
   "ip-hash", "least-response-time", "power-of-two-choices"}

(* Only idx % n with n <= N is ever read, so counting modulo a common         *)
(* multiple of 1 .. N loses nothing.  Latencies have a largest: no call takes *)
(* longer than its deadline.                                                  *)
ASSUME PoolAssumption ==
  /\ N \in Nat \ {0}
  /\ Weight \in [Backend -> Nat \ {0}]
  /\ Algorithms \subseteq algorithmNames /\ Algorithms # {}
  /\ Hashes \subseteq Nat /\ Hashes # {}
  /\ Sample \subseteq Nat \ {0}
  /\ Sample = {} \/ \E m \in Sample : \A s \in Sample : s <= m
  /\ MaxActive \in Nat
  /\ Flaky \subseteq Backend /\ Called \subseteq Backend
  /\ IdxMod \in Nat \ {0} /\ \A n \in Backend : IdxMod % n = 0

VARIABLES
  algorithm, rrIdx, tieIdx,     \* of the LoadBalancer, under mu
  currentWeight,                \* of each Backend, under mu
  healthy, active, ewmaUs,      \* of each Backend, atomics
  cb,                           \* of each Backend, its circuit breaker
  mu,                           \* "free", or "pick" while a Pick holds lb.mu
  order                         \* the backends that Pick has still to ask

lbVars == <<algorithm, rrIdx, tieIdx, currentWeight>>
backendVars == <<healthy, active, ewmaUs, cb>>
pickVars == <<mu, order>>
vars == <<lbVars, backendVars, pickVars>>

(* What is recorded of latencies stays within the samples: a mean of two.     *)
Latency == 0 .. (IF Sample = {} THEN 0
                 ELSE CHOOSE m \in Sample : \A s \in Sample : s <= m)

TypeOK ==
  /\ algorithm \in Algorithms
  /\ rrIdx \in 0 .. IdxMod - 1 /\ tieIdx \in 0 .. IdxMod - 1
  /\ currentWeight \in [Backend -> Int]
  /\ healthy \in [Backend -> BOOLEAN]
  /\ active \in [Backend -> 0 .. MaxActive]
  /\ ewmaUs \in [Backend -> Latency]
  /\ cb \in [Backend -> BreakerType]
  /\ mu \in {"free", "pick"}
  /\ order \in Seq(Backend)

NewLoadBalancer ==
  /\ algorithm \in Algorithms
  /\ rrIdx = 0 /\ tieIdx = 0
  /\ currentWeight = [b \in Backend |-> 0]
  /\ healthy = [b \in Backend |-> TRUE]
  /\ active = [b \in Backend |-> 0]
  /\ ewmaUs = [b \in Backend |-> 0]
  /\ cb = [b \in Backend |-> NewCircuitBreaker]
  /\ mu = "free" /\ order = <<>>

--------------------------------------------------------------------------------
(* The order in which a Pick asks the backends.                               *)

Healthy == {b \in Backend : healthy[b]}

(* The healthy backends in the order of lb.backends.                          *)
HealthyList ==
  [i \in 1 .. Cardinality(Healthy) |->
     CHOOSE b \in Healthy : Cardinality({a \in Healthy : a <= b}) = i]

Members(list) == {list[i] : i \in DOMAIN list}

SumOf(f) ==
  LET sum[b \in 0 .. N] == IF b = 0 THEN 0 ELSE sum[b - 1] + f[b]
  IN  sum[N]

Total(S) == SumOf([b \in Backend |-> IF b \in S THEN Weight[b] ELSE 0])

Rotate(list, k) == [i \in DOMAIN list |-> list[((k + i - 1) % Len(list)) + 1]]

(* What ranks one backend before another.                                     *)
FewerActive(b, best) == active[b] < active[best]

(* Seeded fault: the comparison is the wrong way round.                       *)
FaultyHeavier(b, best) ==
  currentWeight[b] + Weight[b] < currentWeight[best] + Weight[best]

(* The weights as pickWeightedRoundRobin compares them: already raised.       *)
Heavier(b, best) ==
  currentWeight[b] + Weight[b] > currentWeight[best] + Weight[best]

(* An unmeasured backend wins over any other, the last one of them over all.  *)
Faster(b, best) ==
  ewmaUs[b] = 0 \/ (ewmaUs[best] # 0 /\ ewmaUs[b] < ewmaUs[best])

Beats(b, best) ==
  CASE algorithm = "least-connections"    -> FewerActive(b, best)
    [] algorithm = "least-response-time"  -> Faster(b, best)
    [] algorithm = "weighted-round-robin" -> Heavier(b, best)

(* The backend a left-to-right scan is left with if a later one replaces the  *)
(* best so far when it Beats it; a set with that one member.                  *)
Best(scan) ==
  {scan[i] : i \in {i \in DOMAIN scan : \A j \in DOMAIN scan :
                      /\ j < i => Beats(scan[i], scan[j])
                      /\ j > i => ~Beats(scan[j], scan[i])}}

(* Seeded fault: the second loop does not leave the best one out.             *)
FaultyBestFirst(b, list) == <<b>> \o list

BestFirst(b, list) ==
  LET p == CHOOSE i \in DOMAIN list : list[i] = b
  IN  [i \in DOMAIN list |-> IF i = 1 THEN b ELSE list[IF i <= p THEN i - 1 ELSE i]]

(* Two random picks, the one with fewer in flight first (a draw keeps them),  *)
(* then the rest of the pool.                                                 *)
TwoFirst(a, b, list) ==
  IF active[b] < active[a] THEN BestFirst(b, BestFirst(a, list))
                           ELSE BestFirst(a, BestFirst(b, list))

(* The orders the current algorithm may come up with for this client.         *)
Orders(hash) ==
  LET list == HealthyList
      turned == Rotate(list, tieIdx)
  IN  CASE algorithm = "round-robin"          -> {Rotate(list, rrIdx)}
        [] algorithm = "ip-hash"              -> {Rotate(list, hash)}
        [] algorithm = "random"               -> {Rotate(list, k) : k \in DOMAIN list}
        [] algorithm = "least-connections"    ->
             {BestFirst(b, turned) : b \in Best(turned)}
        [] algorithm = "least-response-time"  ->
             {BestFirst(b, turned) : b \in Best(turned)}
        [] algorithm = "weighted-round-robin" ->
             {BestFirst(b, list) : b \in Best(turned)}
        [] algorithm = "power-of-two-choices" ->
             IF Len(list) = 1 THEN {list}
             ELSE {TwoFirst(p[1], p[2], list) :
                     p \in {p \in Healthy \X Healthy : p[1] # p[2]}}

(* The algorithms that call rotateStart; seeded fault: none of them does.     *)
FaultyRotating == {}

Rotating == {"least-connections", "least-response-time", "weighted-round-robin"}

--------------------------------------------------------------------------------
(* Pick *)

(* Seeded fault: the chosen one pays for the unhealthy backends as well.      *)
FaultyReweigh(best) ==
  [b \in Backend |->
     currentWeight[b] + (IF b \in Healthy THEN Weight[b] ELSE 0)
                      - (IF b = best THEN Total(Backend) ELSE 0)]

(* Smooth weighted round-robin: every healthy backend gains its weight and    *)
(* the chosen one pays for all, whatever its breaker says afterwards.         *)
Reweigh(best) ==
  [b \in Backend |->
     currentWeight[b] + (IF b \in Healthy THEN Weight[b] ELSE 0)
                      - (IF b = best THEN Total(Healthy) ELSE 0)]

(* Pick takes lb.mu, collects the healthy backends and ranks them.  With none *)
(* it is about to return nil and no algorithm runs.                           *)
Choose(hash) ==
  /\ mu = "free"
  /\ mu' = "pick"
  /\ IF HealthyList = <<>>
     THEN order' = <<>> /\ UNCHANGED <<tieIdx, currentWeight>>
     ELSE /\ order' \in Orders(hash)
          /\ tieIdx' = IF algorithm \in Rotating THEN (tieIdx + 1) % IdxMod
                                                 ELSE tieIdx
          /\ currentWeight' = IF algorithm = "weighted-round-robin"
                              THEN Reweigh(Head(order'))
                              ELSE currentWeight
  /\ UNCHANGED <<algorithm, rrIdx, backendVars>>

(* Round-robin moves its index on with every backend it asks.                 *)
Advance == IF algorithm = "round-robin" THEN (rrIdx + 1) % IdxMod ELSE rrIdx

Refused ==
  /\ mu = "pick" /\ order # <<>>
  /\ ~Allow(cb[Head(order)])
  /\ order' = Tail(order)
  /\ rrIdx' = Advance
  /\ UNCHANGED <<algorithm, tieIdx, currentWeight, backendVars, mu>>

(* Pick returns b.                                                            *)
Granted(b) ==
  /\ mu = "pick" /\ order # <<>>
  /\ b = Head(order)
  /\ Allow(cb[b])
  /\ cb' = [cb EXCEPT ![b] = AfterAllow(@)]
  /\ mu' = "free" /\ order' = <<>>
  /\ rrIdx' = Advance
  /\ UNCHANGED <<algorithm, tieIdx, currentWeight, healthy, active, ewmaUs>>

(* Seeded fault: lb.mu is not released on the way out.                        *)
FaultyGiveUp ==
  /\ mu = "pick" /\ order = <<>>
  /\ UNCHANGED vars

(* Pick returns nil: everyone it asked refused.                               *)
GiveUp ==
  /\ mu = "pick" /\ order = <<>>
  /\ mu' = "free"
  /\ UNCHANGED <<lbVars, backendVars, order>>

--------------------------------------------------------------------------------
(* The other operations *)

SetAlgorithm(a) ==
  /\ mu = "free"
  /\ algorithm' = a
  /\ currentWeight' = [b \in Backend |-> 0]
  /\ UNCHANGED <<rrIdx, tieIdx, backendVars, pickVars>>

(* A health probe of b has come back.  It leaves the breaker alone.           *)
checkBackend(b, ok) ==
  /\ healthy' = [healthy EXCEPT ![b] = ok]
  /\ UNCHANGED <<lbVars, active, ewmaUs, cb, pickVars>>

(* Seeded fault: the sum of sample and average is not halved.                 *)
FaultyRecordLatency(b, us) ==
  /\ ewmaUs' = [ewmaUs EXCEPT ![b] = us + @]
  /\ UNCHANGED <<lbVars, healthy, active, cb, pickVars>>

RecordLatency(b, us) ==
  /\ ewmaUs' = [ewmaUs EXCEPT ![b] = IF @ = 0 THEN us ELSE (us + @) \div 2]
  /\ UNCHANGED <<lbVars, healthy, active, cb, pickVars>>

(* backend.active.Add(1) and Add(-1) around a call.                           *)
AddActive(b) ==
  /\ active[b] < MaxActive
  /\ active' = [active EXCEPT ![b] = @ + 1]
  /\ UNCHANGED <<lbVars, healthy, ewmaUs, cb, pickVars>>

DropActive(b) ==
  /\ active[b] > 0
  /\ active' = [active EXCEPT ![b] = @ - 1]
  /\ UNCHANGED <<lbVars, healthy, ewmaUs, cb, pickVars>>

(* backend.cb.RecordSuccess() and RecordFailure().                            *)
Report(b, ok) ==
  /\ cb' = [cb EXCEPT ![b] = IF ok THEN RecordSuccess(@) ELSE RecordFailure(@)]
  /\ UNCHANGED <<lbVars, healthy, active, ewmaUs, pickVars>>

Tick ==
  /\ cb' = [b \in Backend |-> Elapse(cb[b])]
  /\ UNCHANGED <<lbVars, healthy, active, ewmaUs, pickVars>>

(* The pool under callers of which nothing is assumed: a backend may be       *)
(* called, and report, at any time.  Proxy says who the callers are.          *)
Init == NewLoadBalancer

Next ==
  \/ \E hash \in Hashes : Choose(hash)
  \/ Refused
  \/ \E b \in Backend : Granted(b)
  \/ GiveUp
  \/ \E a \in Algorithms : SetAlgorithm(a)
  \/ \E b \in Flaky, ok \in BOOLEAN : checkBackend(b, ok)
  \/ \E b \in Called :
       \/ AddActive(b) \/ DropActive(b)
       \/ \E ok \in BOOLEAN : Report(b, ok)
       \/ \E us \in Sample : RecordLatency(b, us)
  \/ Tick

Spec == Init /\ [][Next]_vars

--------------------------------------------------------------------------------
(* A Pick sets out to ask every healthy backend, each of them once, whatever  *)
(* the algorithm: when it returns nil ("no backends available") there was     *)
(* none to be had, and it never asks the backend twice whose breaker has just *)
(* spent its only probe on it.                                                *)
AsksEveryHealthyBackendOnce ==
  [][mu = "free" /\ mu' = "pick" =>
       /\ Members(order') = Healthy
       /\ Len(order') = Cardinality(Members(order'))]_vars

(* The current weights of smooth weighted round-robin cancel out: what the    *)
(* chosen backend pays is what the healthy ones gained, also for backends     *)
(* that come and go and for picks a breaker turns down.                       *)
WeightsCancel == SumOf(currentWeight) = 0

(* No backend gets ahead or behind by more than half a round for every other  *)
(* one, however many come and go and whatever the breakers turn down: one     *)
(* that was away is not flooded when it is back.                              *)
WeightsBounded ==
  LET limit == (N - 1) * Total(Backend)
  IN  \A b \in Backend : 2 * currentWeight[b] \in -limit .. limit

================================================================================
