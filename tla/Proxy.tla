--------------------------------- MODULE Proxy ---------------------------------
(******************************************************************************)
(* Requests going through the gateway: Proxy.ServeHTTP and Proxy.forward of   *)
(* gateway/proxy.go over a LoadBalancer, several at a time.  A request picks  *)
(* a backend, calls it, tells its breaker, and retries with a backoff, all    *)
(* under one deadline that starts when the request comes in.                  *)
(*                                                                            *)
(* Between two steps of a request anything else may happen: other requests,   *)
(* health probes, a switch of the algorithm, crashes of backends, clients     *)
(* that hang up, time.                                                        *)
(******************************************************************************)
EXTENDS LoadBalancer

CONSTANTS
  Req,          \* requests in the gateway at once
  Timeout,      \* p.timeout, in ticks
  MaxRetries,   \* p.maxRetries
  HashOf,       \* HashOf[r] is the hash of the address r's client has
  Faulty,       \* backends that may go down
  Slow,         \* backends that may take longer than a tick to answer
  Impatient,    \* requests whose client may hang up
  Rejected      \* requests that are always answered with a retriable status

ASSUME ProxyAssumption ==
  /\ Timeout \in Nat \ {0}
  /\ MaxRetries \in Nat
  /\ HashOf \in [Req -> Hashes]
  /\ Faulty \subseteq Backend /\ Slow \subseteq Backend
  /\ Impatient \subseteq Req /\ Rejected \subseteq Req

VARIABLES
  req,      \* where each request is in ServeHTTP and forward, with its locals
  up        \* whether each backend is serving (external)

proxyVars == <<vars, req, up>>

NoBackend == 0

(* The steps of a request: in forward its backend is known and its breaker    *)
(* has not been told yet.                                                     *)
InForward == {"picked", "calling", "answered", "failed"}
Live == {"loop", "backoff", "pick", "picking", "relay"} \cup InForward
Done == {"relayed", "unavailable", "exhausted", "timeout"}

ProxyTypeOK ==
  /\ TypeOK
  /\ req \in [Req -> [at : {"idle"} \cup Live \cup Done,
                      attempt : 0 .. MaxRetries + 1,
                      left : 0 .. Timeout,
                      backend : Backend \cup {NoBackend}]]
  /\ up \in [Backend -> BOOLEAN]

At(r, where) == req[r].at = where

(* Only the position changes, or also what else is given.                     *)
Go(r, where) == req' = [req EXCEPT ![r].at = where]

ProxyInit ==
  /\ NewLoadBalancer
  /\ req = [r \in Req |-> [at |-> "idle", attempt |-> 0, left |-> 0,
                           backend |-> NoBackend]]
  /\ up = [b \in Backend |-> TRUE]

--------------------------------------------------------------------------------
(* ServeHTTP *)

(* A client sends a request: the deadline is set.                             *)
Arrive(r) ==
  /\ ~(req[r].at \in Live)
  /\ req' = [req EXCEPT ![r] = [at |-> "loop", attempt |-> 0, left |-> Timeout,
                                backend |-> NoBackend]]
  /\ UNCHANGED <<vars, up>>

(* Seeded fault: one retry too many.                                          *)
FaultyLoop(r) ==
  /\ At(r, "loop")
  /\ Go(r, IF req[r].attempt > MaxRetries + 1 THEN "exhausted"
           ELSE IF req[r].left = 0 THEN "timeout"
           ELSE IF req[r].attempt > 0 THEN "backoff"
           ELSE "pick")
  /\ UNCHANGED <<vars, up>>

(* The head of the retry loop, with its test of ctx.Err().                    *)
Loop(r) ==
  /\ At(r, "loop")
  /\ Go(r, IF req[r].attempt > MaxRetries THEN "exhausted"
           ELSE IF req[r].left = 0 THEN "timeout"
           ELSE IF req[r].attempt > 0 THEN "backoff"
           ELSE "pick")
  /\ UNCHANGED <<vars, up>>

(* The select over time.After and ctx.Done.  The random delay may end any     *)
(* time; when both are ready select takes either.                             *)
Backoff(r) ==
  /\ At(r, "backoff")
  /\ \/ Go(r, "pick")
     \/ req[r].left = 0 /\ Go(r, "timeout")
  /\ UNCHANGED <<vars, up>>

Pick(r) ==
  /\ At(r, "pick")
  /\ Choose(HashOf[r])
  /\ Go(r, "picking")
  /\ UNCHANGED up

PickRefused(r) ==
  /\ At(r, "picking")
  /\ Refused
  /\ UNCHANGED <<req, up>>

PickReturns(r, b) ==
  /\ At(r, "picking")
  /\ Granted(b)
  /\ req' = [req EXCEPT ![r].at = "picked", ![r].backend = b]
  /\ UNCHANGED up

(* 503 "no backends available" *)
PickReturnsNil(r) ==
  /\ At(r, "picking")
  /\ GiveUp
  /\ Go(r, "unavailable")
  /\ UNCHANGED up

--------------------------------------------------------------------------------
(* forward *)

Send(r) ==
  /\ At(r, "picked")
  /\ AddActive(req[r].backend)
  /\ Go(r, "calling")
  /\ UNCHANGED up

(* The answer of b to r has a status that is not retriable.                   *)
Serves(b, r) == up[b] /\ r \notin Rejected

(* Seeded fault: an error returns before active is taken back.                *)
FaultyReturn(r, result) ==
  LET b == req[r].backend
  IN  /\ At(r, "calling")
      /\ \/ result = "answered" /\ Serves(b, r) /\ DropActive(b)
         \/ /\ result = "failed" /\ (~Serves(b, r) \/ req[r].left = 0)
            /\ UNCHANGED vars
      /\ Go(r, result)
      /\ UNCHANGED up

(* http.Client.Do returns: a good status if the backend serves the request; a *)
(* status that is retriable, or no connection, if it does not; an error if    *)
(* the context is done.  A retriable answer is drained before the breaker     *)
(* hears of it.  The user service answers a duplicate e-mail with 500, so     *)
(* some requests are refused by a backend that has nothing wrong with it.     *)
Return(r, result) ==
  LET b == req[r].backend
  IN  /\ At(r, "calling")
      /\ DropActive(b)
      /\ \/ result = "answered" /\ Serves(b, r)
         \/ result = "failed" /\ (~Serves(b, r) \/ req[r].left = 0)
      /\ Go(r, result)
      /\ UNCHANGED up

(* RecordSuccess, and the answer starts on its way back.                      *)
Succeed(r) ==
  /\ At(r, "answered")
  /\ Report(req[r].backend, TRUE)
  /\ Go(r, "relay")
  /\ UNCHANGED up

(* Seeded fault: an attempt that was cut short is not held against the        *)
(* backend.                                                                   *)
FaultyFail(r) ==
  /\ At(r, "failed")
  /\ IF req[r].left = 0 THEN UNCHANGED vars ELSE Report(req[r].backend, FALSE)
  /\ req' = [req EXCEPT ![r].at = "loop", ![r].attempt = @ + 1,
                        ![r].backend = NoBackend]
  /\ UNCHANGED up

(* RecordFailure, and back to ServeHTTP for another attempt.                  *)
Fail(r) ==
  /\ At(r, "failed")
  /\ Report(req[r].backend, FALSE)
  /\ req' = [req EXCEPT ![r].at = "loop", ![r].attempt = @ + 1,
                        ![r].backend = NoBackend]
  /\ UNCHANGED up

(* The answer is copied and its latency recorded.                             *)
Relay(r) ==
  /\ At(r, "relay")
  /\ IF Sample = {} THEN UNCHANGED vars
     ELSE \E us \in Sample : RecordLatency(req[r].backend, us)
  /\ req' = [req EXCEPT ![r].at = "relayed", ![r].backend = NoBackend]
  /\ UNCHANGED up

--------------------------------------------------------------------------------
(* Everything else *)

(* The client hangs up: r.Context() is cancelled.                             *)
HangUp(r) ==
  /\ r \in Impatient /\ req[r].at \in Live /\ req[r].left > 0
  /\ req' = [req EXCEPT ![r].left = 0]
  /\ UNCHANGED <<vars, up>>

CrashOrRestart(b) ==
  /\ b \in Faulty
  /\ up' = [up EXCEPT ![b] = ~@]
  /\ UNCHANGED <<vars, req>>

(* A health probe: right about a backend, or too slow for its 2 s.            *)
Probe(b) ==
  /\ \E ok \in BOOLEAN : (ok => up[b]) /\ (up[b] /\ b \notin Flaky => ok)
                         /\ checkBackend(b, ok)
  /\ UNCHANGED <<req, up>>

Switch(a) == SetAlgorithm(a) /\ UNCHANGED <<req, up>>

(* A tick of the clock.  The code does not wait past a deadline: a request    *)
(* whose context is done moves on before the clock does.                      *)
Elapses ==
  /\ \A r \in Req : At(r, "calling") => req[r].backend \in Slow
  /\ \A r \in Req : req[r].at \in Live => req[r].left > 0
  /\ Tick
  /\ req' = [r \in Req |-> IF req[r].at \in Live
                           THEN [req[r] EXCEPT !.left = @ - 1] ELSE req[r]]
  /\ UNCHANGED up

Step(r) ==
  \/ Loop(r) \/ Backoff(r)
  \/ Pick(r) \/ PickRefused(r) \/ (\E b \in Backend : PickReturns(r, b))
  \/ PickReturnsNil(r)
  \/ Send(r) \/ (\E result \in {"answered", "failed"} : Return(r, result))
  \/ Succeed(r) \/ Fail(r) \/ Relay(r)

(* What goes on around the requests.                                          *)
Environment ==
  \/ \E b \in Backend : CrashOrRestart(b) \/ Probe(b)
  \/ \E a \in Algorithms : Switch(a)

ProxyNext ==
  \/ \E r \in Req : Arrive(r) \/ Step(r) \/ HangUp(r)
  \/ Environment
  \/ Elapses

ProxySpec == ProxyInit /\ [][ProxyNext]_proxyVars

(* Goroutines are scheduled, timers fire, the clock and the health-check      *)
(* ticker go on; sync.Mutex hands lb.mu to a goroutine that has waited for    *)
(* long (its starvation mode).  A slow backend need not answer before the     *)
(* deadline and no client has to send anything.  Elapses is strongly fair     *)
(* because a prompt call holds the clock of the model up, not the real one.   *)
Fairness ==
  /\ \A r \in Req :
       /\ WF_proxyVars(Loop(r) \/ Send(r) \/ Succeed(r) \/ Fail(r) \/ Relay(r))
       /\ WF_proxyVars(Backoff(r))
       /\ SF_proxyVars(Pick(r))
       /\ WF_proxyVars(PickRefused(r) \/ PickReturnsNil(r)
                        \/ \E b \in Backend : PickReturns(r, b))
       /\ WF_proxyVars(/\ req[r].left = 0 \/ req[r].backend \notin Slow
                       /\ \E result \in {"answered", "failed"} : Return(r, result))
  /\ \A b \in Backend : WF_proxyVars(Probe(b))
  /\ SF_proxyVars(Elapses)

FairProxySpec == ProxySpec /\ Fairness

--------------------------------------------------------------------------------
(* The requests whose result the breaker of b is still to be told.            *)
Holding(b) == {r \in Req : req[r].at \in InForward /\ req[r].backend = b}

(* active is what least-connections ranks by: the calls under way, no more    *)
(* and no fewer, however they end.                                            *)
ActiveCountsCalls ==
  \A b \in Backend :
    active[b] = Cardinality({r \in Req : At(r, "calling") /\ req[r].backend = b})

(* No probe is lost and none is doubled: a half-open breaker has exactly one  *)
(* request that will report to it, whatever algorithm asked it, in whatever   *)
(* order the results of earlier requests came in (budgets shorter than the    *)
(* cooldown).                                                                 *)
OneProbe ==
  \A b \in Backend : cb[b].state = "half-open" => Cardinality(Holding(b)) = 1

(* Seen from one backend, the gateway is a CircuitBreaker under the calls     *)
(* that hold it; with the theorem of CircuitBreakerProofs, each backend's     *)
(* breaker keeps BreakerContract.                                             *)
BreakerOf(b) ==
  INSTANCE CircuitBreaker WITH
    Call <- Req, cb <- cb[b], calls <- [r \in Holding(b) |-> req[r].left]

EveryBreakerWorks ==
  /\ \A b \in Backend : BreakerOf(b)!Init
  /\ [][\A b \in Backend : \/ UNCHANGED BreakerOf(b)!vars
                           \/ BreakerOf(b)!Next]_proxyVars

(* Every request that came in is answered: relayed or with an error, through  *)
(* retries, open breakers, crashes and a contended lb.mu.                     *)
EveryRequestAnswered ==
  \A r \in Req : (req[r].at \in Live) ~> (req[r].at \in Done)

(* In a pool of one backend, as the user and the order pool are, no open      *)
(* breaker is forgotten (the Open branch of Allow, gateway/                   *)
(* circuitbreaker.go:55-66, needs somebody to ask): while requests keep being *)
(* picked for, the breaker of the backend, if it stays healthy, is asked      *)
(* after its cooldown, although late failures start the cooldown again,       *)
(* whatever the algorithm is and is switched to.  With a second backend that  *)
(* can take the requests nothing of the kind is said: ip-hash need not ask a  *)
(* backend whose clients are gone, and for least-response-time see            *)
(* RecoveredIsProbed.                                                         *)
LoneBackendIsProbedAgain ==
  N = 1 => \A b \in Backend :
             []<>(mu = "pick") /\ <>[]healthy[b] => []<>(cb[b].state # "open")

--------------------------------------------------------------------------------
(* "After 10 seconds, the breaker tries one half-open probe" (Go              *)
(* Instructions.txt:26): a backend that is back for good does not find its    *)
(* breaker open for ever, as long as requests keep coming.                    *)
RecoveredIsProbed ==
  \A b \in Backend :
    []<>(mu = "pick") /\ <>[](up[b] /\ healthy[b]) => []<>(cb[b].state # "open")

(* "CircuitBreaker is a per-backend failure detector" (gateway/               *)
(* circuitbreaker.go:17) and "client errors reflect a bad request" (gateway/  *)
(* retry.go:41): no breaker opens on a backend that is never down and answers *)
(* at once, whatever the clients send it.                                     *)
OnlyFailingBackendsTrip ==
  \A b \in Backend \ (Faulty \cup Slow) : cb[b].state = "closed"

================================================================================
