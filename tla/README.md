# Formal model of the API gateway and its order service

The repository is a small distributed system in Go: an API gateway that
balances requests over pools of backends with retries, circuit breakers and
health checks, and three services behind it, of which the order service makes
`POST /orders` idempotent.  This directory holds TLA+ models of the parts that
are hard to test, the TLC configurations that check them and machine-checked
proofs.  Paths below are relative to the repository.

    tlc -workers 2 -config MCProxyLive.cfg MCProxy    # one run
    tlapm CircuitBreakerProofs.tla                    # the proofs of one module

## 1. Inventory

| component | state | operations | talks to |
|---|---|---|---|
| circuit breaker, `gateway/circuitbreaker.go` | state, failures, lastFailure; one mutex per breaker | `Allow`, `RecordSuccess`, `RecordFailure`, `State` | called by `Pick`, `forward`, the flood; publishes events while holding its mutex |
| load balancer, `gateway/loadbalancer.go` | algorithm, rrIdx, tieIdx, currentWeight under `lb.mu`; healthy, active, ewmaUs atomics | `Pick` (seven algorithms), `SetAlgorithm`, `RecordLatency`, `checkBackend`, `Status` | breakers; `/health` of the backends; the event bus |
| reverse proxy, `gateway/proxy.go`, `retry.go` | per request: attempt, deadline, backend | `ServeHTTP`, `forward`, `backoff`, `isRetriable` | one load balancer, the backends |
| event bus and SSE, `gateway/events.go`, `main.go` | subscribers' channels of 64 events | `Publish` (never blocks, drops), `Subscribe`, `Unsubscribe` | everybody publishes; browsers subscribe |
| control, `gateway/main.go` | – | `POST /gateway/algorithm`, `GET /gateway/status`, `POST /admin/latency` | three balancers |
| simulation, `gateway/simulate.go` | results, WaitGroup, barrier | flood, warm-up | product balancer and breakers directly; `active` |
| order service, `order-service/*.go` | tables `orders`, `order_items`; idempotency cache in memory | `POST /orders`, `GET /orders/{id}` | SQLite; product service for prices |
| product and user service | a table each; injected latency | create, get | SQLite |
| dashboard, `gateway/static/index.html` | the status on the page, the log | event handler, 5 s poll, rendering | `GET /events`, `GET /gateway/status` |
| scripts | – | – | start-up |

How they interact.  A request enters `Proxy.ServeHTTP`, which loops over
attempts under one deadline: `Pick` (all of it under `lb.mu`, asking breakers
that have mutexes of their own), the HTTP call (counted in `active`), the
result to the breaker, a random backoff.  Concurrently a ticker starts health
probes that set `healthy`, an operator switches algorithms, the flood and the
warm-up use the same balancer, clients hang up, backends crash.  The order
service sees the repeated `POST`s that the gateway's retries produce.

What is hard here, and what would make each part correct:

* **Breaker.**  It does not know whose result it is told.  Correct: a
  half-open phase is decided by its probe alone; a failed probe re-opens; it
  is never stuck.
* **Balancer.**  Seven loops over data that change under them, each with its
  own fallback.  Correct: nobody available is left out, nobody asked twice;
  rotation and weights give exact shares over any history.
* **Proxy.**  One deadline over retries, breaker feedback on every path.
  Correct: counters match calls, no probe is lost or doubled, every request
  is answered.
* **Order service.**  Check, work, commit, remember – in separate critical
  sections, of which only the commit survives a crash.  Correct: no half
  orders, no answer without its order, one order per key as far as promised.
* **Order path.**  The gateway repeats a `POST` whose outcome it does not know,
  and gives up on handlers that go on.  Correct: its retries alone never
  duplicate an order, and its errors mean what the client takes them for.
* **Simulation.**  A second and a third kind of caller of the same pool: the
  flood has its own rule of success and no retry loop, the warm-up knows no
  breaker.  Correct: they keep the counters and the probes in order.
* **Events and dashboard.**  Events are dropped or never sent to a tab that is
  not subscribed yet, the status is read field by field, answers overtake each
  other.  Correct: the page comes to show what is the case, and the log does
  not end on a state that is over, unless its end was dropped.

`PROJECT.json` lists the hazards line by line with the properties that cover
them.

## 2. Modules

| module | models | built on |
|---|---|---|
| `Breaker` | the methods of one breaker as functions of its fields | – |
| `BreakerContract` | what a breaker promises, without clock or counter (abstract) | – |
| `BreakerProofs` | lemmas about its functions, and when a breaker is `Sound` | `Breaker`, TLAPS |
| `CircuitBreaker` | a breaker under concurrent calls with deadlines | `Breaker`; implements `BreakerContract` |
| `CircuitBreakerProofs` | its theorems | `CircuitBreaker`, `BreakerProofs` |
| `LoadBalancer` | the pool: `Pick`, `SetAlgorithm`, health, counters | `Breaker`, one per backend |
| `LoadBalancerProofs` | its theorems; sums and orders over a pool | `LoadBalancer`, `BreakerProofs` |
| `Selection` | the pool with a history of wins | `LoadBalancer` |
| `SelectionProofs` | its theorem | `Selection`, `LoadBalancerProofs` |
| `Proxy` | requests through the gateway | `LoadBalancer`; each backend implements `CircuitBreaker` |
| `Simulation` | the flood and the warm-up next to proxied requests | `Proxy` |
| `GatewayProofs` | the theorems of both | `Simulation`, `LoadBalancerProofs` |
| `OrderService` | `POST /orders` | – |
| `OrderServiceProofs` | its theorems | `OrderService`, TLAPS |
| `OrderPath` | `POST /orders` through the gateway's retries | `OrderService` |
| `OrderPathProofs` | its theorems | `OrderPath`, `OrderServiceProofs` |
| `Dashboard` | event bus, event stream, status and page for one backend | `CircuitBreaker` |
| `DashboardProofs` | its theorems | `Dashboard`, `CircuitBreakerProofs` |
| `MC...` | values of the constants for TLC | |

Operators named `Faulty...` (and `Leaky`, `Extra`, `Unbounded`, `Unreported...`)
directly before a definition are seeded faults: the same definition with a
plausible bug.  No specification uses them; `PROJECT.json` names for every
property of a passing run the fault that makes that run fail, which shows that
the property is about the code.

### Breaker, CircuitBreaker

`cb` is the struct, with `since` – ticks since `lastFailure` – in place of the
instant.  The clock is read only in `time.Since(lastFailure) >= openDuration`
and the counter only in `failures >= threshold`, so `since` stops growing at
`OpenDuration` and `failures` at `Threshold`; no behaviour is lost.  Each
method runs under `cb.mu` and is one function: `Allow`/`AfterAllow`,
`RecordSuccess`, `RecordFailure`.

`calls` maps each call under way to the ticks left of its request's budget.
`Start` is `Allow` returning true, with any budget left (earlier attempts may
have used some); `Succeed` and `Fail` are the one report every call makes;
`Cancel` is a client that hangs up; `Tick` cannot pass a call's deadline.

How `Timeout` and `OpenDuration` compare is no assumption of the module.  The
code relies on the budget being shorter without saying so: 5 s against 10 s for
the user and product pools and the flood.  The **order pool has 10 s against
10 s**.  `HalfOpenExclusive` and `ContractSpec` are for the first case;
`LateCallsAreOut` says what is left in general: a call that is still under way
in the half-open phase has at most `Timeout - OpenDuration` left.  For the order
pool that is nothing: only the instant at which such a call records its timeout
can fall into the half-open phase, where it is taken for the probe's result.

### LoadBalancer, Selection

`lb.mu` makes a `Pick` exclusive among picks, but what it reads of a backend is
not protected by it.  So a pick is: `Choose` (take the lock, collect the
healthy backends, work out the order in which they will be asked, update
`tieIdx` and weights), then per backend `Refused` or `Granted` – one call of
`Allow` each – or `GiveUp` (nil).  Anything may happen in between.  All seven
algorithms have this shape and differ in `Orders`: a rotation (round-robin,
random, ip-hash), the best one and then the rest (least-connections,
least-response-time, weighted round-robin), or two samples and the rest.

Abstracted: `Choose` reads the atomics of all backends in one step (the code
reads them one after the other, under `lb.mu`); latencies are from a small
set; a client is the hash of its address; the result of a health probe is one
step; `rrIdx` and `tieIdx` count modulo `IdxMod`, a common multiple of the
list lengths they are reduced by.  `LoadBalancer!Next` leaves callers free to
do anything; `Proxy` says who they really are.

`Selection` adds `wins`, and lets health (`ProbeBack`) and load (`WarmUp`,
`CoolDown`) change only before the first counted pick, to say what exact shares
mean.  Latencies are recorded at any time (`Learn`), as `forward` does after
every answer.  Nothing is said of what follows for least-response-time:
`SharedOut` covers it in the cold start only, while every backend is unmeasured;
after that it is meant to be uneven ("it learns and avoids the slow
instance", `gateway/static/index.html:224`).

### Proxy

`req[r]` is where a request is in `ServeHTTP`/`forward`, with its locals.

| action | code |
|---|---|
| `Arrive` | `ServeHTTP` up to `context.WithTimeout` |
| `Loop` | loop head, `ctx.Err()` |
| `Backoff` | `select` on `time.After` and `ctx.Done` |
| `Pick`, `PickRefused`, `PickReturns`, `PickReturnsNil` | `p.lb.Pick`, 503 on nil |
| `Send`, `Return` | `active.Add(1)`, `Do`, `active.Add(-1)` |
| `Succeed`, `Fail` | `RecordSuccess`; `RecordFailure` and next attempt |
| `Relay` | copying the answer, `RecordLatency` |
| `HangUp` | the client's context is cancelled |
| `Environment`: `Probe`, `Switch` | `checkBackend`, `POST /gateway/algorithm` for one pool |
| `CrashOrRestart`, `Elapses` | the backends and the clock |

Backends are up or down (external).  A backend that is up answers with a
status that is not retriable, except to requests in `Rejected` (a user with an
e-mail address that is taken gets 500); down stands for a refused connection
or any retriable status.  Budgets are in ticks: backoff and calls take any time up to
the deadline, prompt backends (not in `Slow`) none.  The error of
`http.NewRequestWithContext` cannot occur (method and URL come from a parsed
request) and is left out, as is the 400 for an unreadable body.

### Simulation

A goroutine of the flood is a member of `Req` that enters at `pick`, after the
barrier (`Launch`, `Fire`), and shares `Pick`, `Send`, `Succeed` and `Relay`
with proxied requests.  Its own are `FloodPicked` (the five seconds start after
`Pick`), `FloodReturn` (any answer is a success, a 500 included) and `FloodFail`
(no other attempt).  `wg` is the count of the WaitGroup: `Launch` raises it by the
number of goroutines, the deferred `WaitGroupDone` of each lowers it, and
`Finish`, the end of `wg.Wait`, looks at the count and at nothing else.  A warm-up
is `WarmUp` and `Cool` around `active`, and no more.  A clock tick waits for a goroutine that
has been in `Pick` for `Timeout` ticks.  One flood is under way at a time: a
second one only adds goroutines of the same kind.

### OrderService

`orders` and `rows` are the tables, `entries` the cache, `call[h]` a handler of
`handleCreate`: `Receive`, `Replay` or `Miss`, `FetchPrice` per item, then the
transaction `Insert`, `InsertItem`, `Commit`, then `Store`.  SQLite is external:
one writer at a time, commit all or nothing; a second writer may wait or fail
(`busy_timeout` is set on one connection of the pool only).  Any statement may
fail.  `CrashAndRestart` empties the cache and forgets the handlers; the tables
stay.  `life` in an order is history only.  `Receive` admits only repetitions
after an answer for keys in `Patient`; other keys may be repeated at any time.
`Patient` is about clients that ask the service directly.

### OrderPath

`gw[c]` is where the request `c` is in `ServeHTTP`.  `Attempt` is `Pick`, `Do`
and the handler's `Receive` in one step; from then on the handler takes the
steps of `OrderService` by itself.  Nobody is `Patient` here (`PathAssumption`): the
gateway does not look at keys, so nothing may keep it from starting a handler.
What is true of clients behind the gateway is derived from its own steps.  A
connection that waits for its answer breaks only when the service dies (both
are on one host).

| action | code |
|---|---|
| `Ask` | `ServeHTTP` up to the loop; a repetition is another member of `Client` |
| `Attempt`, `Unavailable` | `Pick`, and `forward` up to `Do`; 503 on nil |
| `Relay` | 201 and 400 are passed on |
| `Retry`, `Disconnect` | a 500 or 502, a broken or refused connection: next attempt or 503 |
| `Cut` | the deadline, or the client is gone: 504, or 503 in the last attempt, while the handler goes on |
| `Serve`, `CommitOrder`, `ServiceDies` | the order service |

One deadline for all attempts is why an attempt never follows one whose handler
is still at work: that is what `FaultyCut` breaks.  The 503 of a `Cut` in the
last attempt (`overdue`) is told from the others by its text, which names the
deadline.  Breaker and health of the one backend decide between `Attempt` and
`Unavailable`; they are left open here.  `serving` and `owner` are history:
which request a handler works for, and which one made an order.

### Dashboard

One backend, one browser tab.  `CircuitBreaker` runs inside (`Traffic`), and
every change of its state is published in the same step, since `cb.mu` is held
(`Announce`).  `stream` and `buffer` are the tab's subscription: `Connect` greets
it, `Subscribe` comes after, `Lose` ends it.  `CheckOne` and `PublishCheck` are
the two halves of `checkBackend`.  A fetch of the status reads the breaker and
then the flag at different instants (`ReadBreaker`, `ReadHealth`) and is
rendered when its answer comes (`RenderStatus`); `OnMessage` and `Poll` start
fetches.  `heard` is history: the state the tab's log ends with, or `missed`
after a transition that the tab was not sent.  Left out: admin events (they
change nothing and start no fetch), a fetch that fails (the page says so and
the next one renders again), and what a status says beyond breaker and health.

## 3. Runs and what they show

Passing:

| run | bounds | shows |
|---|---|---|
| `MCCircuitBreaker` | 4 calls, threshold 3 (the code's), cooldown 3, budget 2 | `ClosedBelowThreshold`, `OpenOutlastsCalls`, `HalfOpenExclusive`; `ContractSpec`: implements `BreakerContract`; `OpenEnds`, `HalfOpenEnds` |
| `MCLoadBalancer` | 3 backends, weights 3:1:2, 7 algorithms | `AsksEveryHealthyBackendOnce`, `WeightsCancel`, `WeightsBounded` |
| `MCSelection` | 4 backends 3:1:2:3, any healthy subset, 18 picks = two rounds, two backends that may be measured | `SharedOut` |
| `MCProxyLive` | 2 requests, 1 backend, 1 retry, threshold 2 | `ActiveCountsCalls`, `OneProbe`, `EveryBreakerWorks`; `EveryRequestAnswered`, `LoneBackendIsProbedAgain` |
| `MCSimulation` | a flood of 1 or 2, a warm-up, a proxied request, 2 backends, threshold 1 | `ActiveCountsAllCalls`, `OneProbe`, `FloodLeavesNothing`, `EveryBreakerWorks` |
| `MCOrderService` | 2 handlers, 2 keys, 2 items, 3 orders, 1 crash | `WholeOrders`, `AnswersAreStored`, `OneOrderWhileUp` |
| `MCOrderPath` | 2 requests, 1 retry, 2 handlers, 1 key, 1 item, 3 orders, 1 crash | `OneOrderPerRequest`, `ErrorsMeanNoOrder`, `OneOrderPerSettledKey` |
| `MCDashboard` | 2 calls, budget = cooldown = 1, buffer of 1, 2 fetches | `LogEndsTrue`, `LateCallsAreOut`, `PageCatchesUp` |

Why the bounds are enough.  Four calls: three failures open the breaker and
one more is late.  Three backends: a best one, a second, and a rest; in that
run the first backend's health changes and the other two are called, so a pick
meets every number of available backends from none to all three.  Eighteen
picks: twice the sum of the weights, so a drift of one round would show in the
second.  Two requests: one is the probe and one is late, which is all
`OneProbe` compares.  In `MCSimulation` the two requests are of different kinds,
over two backends of which least-connections prefers either.  Two clients in
`MCOrderPath`: a request and its repetition, each with a second attempt, so up
to four handlers one after the other and two at once.  One slot in `MCDashboard`
overflows with the second event, which 64 slots do with the 65th; two fetches
can overtake each other.  Two items and three orders: a failure between items, and
a repetition after two orders.  Larger pools and more requests repeat these
situations.

Violations, each a sentence of the repository that the code does not keep:

| run | property | what happens |
|---|---|---|
| `MCProxyStarved` | `RecoveredIsProbed` | under least-response-time the faster backend wins every pick; the open breaker is never asked, so never half-open |
| `MCProxyBlamed` | `OnlyFailingBackendsTrip` | one `POST /users` with an e-mail address that is taken: three attempts, three 500s, the breaker of the only backend opens |
| `MCOrderPathScript` | `AnswersAgree` | the first of three requests with a key is answered 504 while its handler goes on; the second misses the cache too; both commit, and who stores last wins: two 201 answers differ |
| `MCOrderPathRetry` | `OneOrderPerKey` | the service dies between commit and answer; the gateway's retry finds an empty cache |

`OneOrderWhileUp`, `OneOrderPerSettledKey` and `LoneBackendIsProbedAgain` are the
counterparts that do hold: under which conditions the cache works, and where an
open breaker is asked again.  The latter is about a pool of one backend, as the
user and the order pool are, under any algorithm: every pick has nobody else to
ask.  In a larger pool it depends on the algorithm.  It does not hold for
least-response-time (`MCProxyStarved`), nor for ip-hash (the clients of the open
backend may be gone), nor for the two that draw lots under any fairness of the
code; for round-robin, weighted round-robin and least-connections, which take
turns, no run says so.  Weighted round-robin would need in addition that nobody
goes on posting to `/gateway/algorithm`, not even the algorithm in use:
`SetAlgorithm` resets the weights every time, and a rotation that is started anew
before each pick never comes to the lighter backend.

## 4. Fairness

`CircuitBreaker!Fairness`: time goes on; every call ends, because its context
does; clients keep asking (`OpenEnds` is about a breaker somebody asks).

`Proxy!Fairness`: every step a goroutine can take alone is weakly fair.
`Pick(r)` is strongly fair: `lb.mu` is a `sync.Mutex`, whose starvation mode
hands it to a goroutine that has waited for a millisecond.  A call to a slow
backend is only forced to return when its context is done.  `Probe(b)` is
weakly fair: the ticker of `StartHealthChecks` never stops.  `Elapses` is
strongly fair because in the model a prompt call keeps the clock from passing;
real time does not wait.  Clients (`Arrive`, `HangUp`), crashes and switches
have no fairness; properties that need requests say so (`[]<>(mu = "pick")`).

`DashSpec`: the page's interval timer fires again and again, and a fetch is
answered and rendered.  Nothing is assumed of the stream, the probes or the
traffic; `PageCatchesUp` is about a backend that comes to rest (`<>[][UNCHANGED
Present]_dash`).

## 5. What is proved

`CircuitBreakerProofs`, for every `Threshold > 0`, `OpenDuration > 0`,
`Timeout` and every set of calls (finite or not):

* `SpecIInv` – the inductive invariant `IInv`;
* `SpecTypeOK`, `SpecClosedBelowThreshold`, `SpecOpenOutlastsCalls`,
  `SpecLateCallsAreOut`;

and with `Timeout < OpenDuration` as a hypothesis of the theorem:

* `SpecHalfOpenExclusive`;
* `SpecContract` – `CircuitBreaker` implements `BreakerContract`.

The argument.  `LateCallsAreOut` alone is not inductive: when the cooldown of
an open breaker is over, a call of the closed phase might still be under way.
`OpenOutlastsCalls` bounds it: what is left of any such call's budget and
the time since the last failure add up to at most one budget, so when `since`
has reached `OpenDuration` at most `Timeout - OpenDuration` is left; if the
budget is the shorter one, nobody is left (`ProbeFindsNobody`).  That
a failed probe opens the breaker again, although `RecordFailure` has no case
for half-open, needs `ClosedBelowThreshold`.  With the types the four are
inductive: one lemma per action (`StartKeeps` ... `TickKeeps`).  The refinement
maps `mode` to `cb.state` and `running` to the domain of `calls`; a `Tick` or
`Cancel` is a stutter, `Start` is `Admit` or, by `ProbeFindsNobody`, `Trial`.

`OrderServiceProofs`, for any sets of handlers and keys, any `Patient` and
`Expiring` keys, and any number of items, orders and crashes:

* `SpecIInv` – the inductive invariant `IInv`;
* `SpecTypeOK`, `SpecWholeOrders`, `SpecAnswersAreStored`, `SpecOneOrderWhileUp`.

The argument.  `WholeOrders` needs that a handler about to commit has inserted
all its items, `AnswersAreStored` that a handler between commit and cache names
a stored order (both in `Sound`).  `OneOrderWhileUp` needs the link between
cache and table: every order of this life with a steady key (patient, not
expiring) is in the cache or belongs to a handler that is about to store it
(`Remembered`); so a key that is missed is unspent unless such a handler is
under way (`MissIsUnspent`), and a patient client has one handler at most
(`PatientAlone`); an unspent key stays unspent until its handler commits.  A
crash starts a new life, in which every key is unspent.  Actions that move one
handler and leave the tables alone share the lemmas `MoveKeeps` and
`WorkKeeps`; `Commit`, `Store`, `CrashAndRestart` and `Expire` have their own.

`OrderPathProofs`, for any sets of clients and handlers and any number of
retries, items, orders and crashes:

* `PathSpecInv` – the inductive invariant `PathInv`;
* `SpecPathTypeOK`, `SpecOneOrderPerRequest`, `SpecErrorsMeanNoOrder`.

That each step of `PathNext` is a step of `OrderService` or leaves it alone
(`PathStepRefines`) is how the module is built; it serves to reuse the invariant of
`OrderService` (`WholeOrders`, `AnswersAreStored` and what they need), and is no
result.  `OneOrderWhileUp` says nothing here, with nobody `Patient`; what the
gateway's clients can count on is `OneOrderPerSettledKey`.

The argument.  A second attempt must find that the first has created nothing
and has no handler left that could: `Clean`, which holds of a request between
attempts and of one that was answered with an error.  While a request waits,
`Waits` says it of all handlers but its own, and of its own before it commits.
A handler that may still create an order (`Fresh`) is the only one of its
request (`FreshAlone`), which has no order in this life of the service
(`FreshHasNone`).  A request that was cut off keeps only the latter two, which is
all `OneOrderPerRequest` needs.  Steps of the gateway alone share `GatewayMoves`.

`DashboardProofs`, for any buffer, any set of fetches and all parameters of the
breaker: `SpecDashTypeOK` and `SpecLogEndsTrue`, with `IInv` of the breaker in the
invariant.  The argument: a transition is published in the step that makes it,
so either it is appended, and buffer and log now end with the new state, or
`heard` is `missed`; health events change neither (`HealthTellsNothing`), and
reading moves the end from the buffer to the log (`ReadingMoves`).

`LoadBalancerProofs`, for any number of backends, any weights, latencies,
hashes and set of algorithms:

* `SpecTypeOK`;
* `SpecAsksEveryHealthyBackendOnce` – for each of the seven algorithms;
* `SpecWeightsCancel`, `SpecWeightsBounded`.

The argument.  A list that has each member of a set once is a bijection
(`Enumerates`).  `HealthyList` is one; a rotation, and taking one or two
members to the front, permute its indexes (`Reordered`), so every order a Pick
may come up with is one, whatever the atomics say (`OrdersEnumerate`).  The
sums are recursive functions over `1 .. N`; the two facts about them that the
rest needs, that they add up (`SumAdds`) and what a single term is worth
(`SumOfOne`), rest on the well-foundedness of the naturals (`SetOfAllNaturals`).
`WeightsBounded` is not inductive: a pick raises every healthy backend but
one, and how far depends on what the others have.  What is inductive is a bound
on every set of backends together: `k` of them are at most `k(N - k)/2` rounds
ahead (`Even`).  If the chosen backend is among them, they do not gain.  If it
is not, the healthy ones among them have at most their share of what they and
the chosen one have, which the bounds for `k + 1` and for the unhealthy rest
limit (`Averages`, `ReweighStaysEven`).  For one backend that is
`(N - 1)/2` rounds, and since all of them cancel out it is so in both directions.

`SelectionProofs`: `SpecSharedOut`, for any number of backends, any weights and
any number of rounds, for least-connections over an idle pool, for
least-response-time while no latency has been recorded, and for the other two
without condition, if the algorithms are among the four that draw no lots and
do not depend on the client (the module is about these; for the others
`SharedOut` is false).  The argument.  Under weighted round-robin the current
weight of a backend is `Picks * Weight - Round * wins` between two picks (`Lead`,
in `Weighed`), and nobody is a round behind, since the chosen one had more than nothing.  At the end
of a round each of these is a multiple of the round, more than minus one
round, and they add up to zero: so they are zero (`WeighedShares`).  The others
take turns: there is a rotation of the pool along which the wins fall off by at
most one (`Turned`), and the next index fits it (`TakesTurns`).

`GatewayProofs`, for any pool, any set of requests, of flooders and of
warm-ups, any budget, any number of retries and all seven algorithms, through
hang-ups, crashes, probes and switches:

* `SpecProxyInv`, `SpecSimInv` – the inductive invariants;
* `SpecProxyTypeOK`, `SpecActiveCountsCalls`, `SpecSimTypeOK`,
  `SpecActiveCountsAllCalls`, `SpecFloodLeavesNothing`;
* `SpecEveryBreakerWorks`, `SimSpecEveryBreakerWorks` – each backend's breaker,
  with the callers of the gateway as its calls, implements `CircuitBreaker`;
* `SpecBreakersAreSound` – `ClosedBelowThreshold` and `LateCallsAreOut` for every
  budget, the order pool's 10 s included;

and with `Timeout < OpenDuration` as a hypothesis, which is the case for the
user and product pools and the flood:

* `SpecOneProbe`, `SimSpecOneProbe`;
* `SpecEveryBreakerKeepsContract` – each breaker implements `BreakerContract`.

The argument.  What makes a breaker and the calls it has let in fit each other
is a property of two values, `Sound(c, k, budget)`, so `BreakerProofs` states it
once and the invariants of `CircuitBreaker`, `Proxy`, `Simulation` and
`Dashboard` all contain it.  In the gateway `k` is `Budgets(b)`: what the requests
that hold the breaker of `b` have left; a request holds it from `Granted` until it
reports.  Each step of a request is then a step of one breaker, or of none, and
leaves the others alone (`BreakerSteps`).  `Attempts`, that a request in the loop
has an attempt left, is what keeps its counter in bounds: `Fail` counts before
the loop tests.  `active` is the cardinality of a set of
calls, so the proof keeps that set finite; it follows that the guard of
`DropActive` never blocks.  The flood's invariant adds `FloodWaits`: the count of
the WaitGroup is the number of goroutines that are not through (`Unfinished`),
there are none while the handler is idle, and they pass the barrier only once
they are let go.  `Launch` raises both by as much, every step of a goroutine but
its last leaves both alone, and `WaitGroupDone` lowers both by one (`DoneMoves`);
so a count of zero means that nobody is left, and the count is never negative.  tlapm cannot cite a theorem of a parametrised INSTANCE,
so the contract is proved of the gateway's breakers directly and not by
composing the two refinements.

`OrderPathProofs` also proves `SpecOneOrderPerSettledKey`.  The link between cache
and table is here the gateway's work: the cache is asked before the order is
made and filled after it is committed, and in between only the gateway, which
answers a request when its handler is through, keeps a client that asks one
after the other from asking again.  `SettledInv` says so in five parts: whom a
handler works for (`Served`), that a client of a sequential key has one request
under way (`OneAsks`), that a stored order is in the cache or about to be
(`KeptRemembered`), that a handler past the cache has found none
(`KeptUnspent`), and `OneKeptOrder`.

The assumptions on the constants are those of the modules (`BreakerAssumption`,
`PoolAssumption`, `ProxyAssumption` and so on): sizes are naturals, thresholds
positive, `IdxMod` a multiple of every list length.  The goroutines of a flood are finitely many (the
handler caps them at 300), and `Patient` is empty in `OrderPath`.  TLC evaluates
them in each run.  The invariants were model-checked on the bounds of section 3 before they
were proved.

## 6. Only model-checked

All liveness: `OpenEnds`, `HalfOpenEnds`, `EveryRequestAnswered`,
`LoneBackendIsProbedAgain`, `PageCatchesUp` (the prover does neither fairness nor
ENABLED).  Every invariant and every action property that a passing run checks,
and both refinements, are proved.

## 7. Not modelled

The three pools together: `POST /gateway/algorithm` sets them one after the
other and `GET /gateway/status` reads them one after the other, but no pool reads
another's state and nothing promises that they agree; one pool is modelled.
`POST /admin/latency`, which forwards a number to a backend; admin events;
headers and bodies, the size of delays, hashing of addresses, the sums and
averages of the flood, `GET` handlers, the product service beyond "up or down,
prompt or slow" and the user service beyond that and its 500, start-up, the
forms and the layout of the dashboard.  Integer overflow: `rrIdx`, `tieIdx` and
`failures` are 64-bit counters of requests.

## 8. Plan

What the models cover is what the code has, and the safety properties of the
runs are proved.  What is left:

1. `Simulation`: `SpecBreakersAreSound` and the contract for its callers too.
2. `OrderPath`: which orders the gateway's 503 can hide, as a theorem about
   `overdue`.
3. Two backends with retries: that the algorithms which take turns never forget an
   open breaker.
4. `Selection`: how far the shares may be off within a round.
