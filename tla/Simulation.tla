------------------------------- MODULE Simulation ------------------------------
(******************************************************************************)
(* The simulation endpoints of gateway/simulate.go over the product pool,     *)
(* next to requests that go through the proxy.                                *)
(*                                                                            *)
(* handleFlood starts goroutines behind a barrier, lets them go at once and   *)
(* waits for all of them with a WaitGroup: it raises the count by their       *)
(* number and each of them lowers it as the last thing it does.  Each is a    *)
(* request that comes in at Pick, is not retried, and has its own idea of     *)
(* success: any answer is one, a 500 included.  Its five seconds start after  *)
(* Pick and nobody can cancel them.                                           *)
(* handleWarmup sends requests to one backend that bypass Pick and breaker    *)
(* but count as active.                                                       *)
(******************************************************************************)
EXTENDS Proxy

CONSTANTS
  Flooder,      \* the goroutines of a flood, at most 300; among the requests
  Warmer,       \* the goroutines of the warm-ups
  Preloaded     \* bound: the backends that are warmed up

ASSUME FloodAssumption ==
  /\ Flooder \subseteq Req /\ Impatient \cap Flooder = {}
  /\ IsFiniteSet(Flooder)
  /\ Preloaded \subseteq Backend

VARIABLES
  flood,        \* the handler: "idle", "armed", or "fired" when it waits
  wg,           \* the count of its sync.WaitGroup
  warm          \* the backend each warm-up goroutine is calling

simVars == <<proxyVars, flood, wg, warm>>

Visitor == Req \ Flooder

SimTypeOK ==
  /\ active \in [Backend -> 0 .. MaxActive]
  /\ cb \in [Backend -> BreakerType]
  /\ req \in [Req -> [at : {"idle", "barrier"} \cup Live \cup Done,
                      attempt : 0 .. MaxRetries + 1,
                      left : 0 .. Timeout,
                      backend : Backend \cup {NoBackend}]]
  /\ flood \in {"idle", "armed", "fired"}
  /\ wg \in Nat
  /\ warm \in [Warmer -> Backend \cup {NoBackend}]

SimInit ==
  /\ ProxyInit
  /\ flood = "idle" /\ wg = 0
  /\ warm = [w \in Warmer |-> NoBackend]

--------------------------------------------------------------------------------
(* handleFlood *)

(* Seeded fault: the count is one short.                                      *)
FaultyLaunch(some) ==
  /\ flood = "idle" /\ some # {}
  /\ flood' = "armed" /\ wg' = wg + Cardinality(some) - 1
  /\ req' = [r \in Req |->
               IF r \in some THEN [at |-> "barrier", attempt |-> 0,
                                   left |-> Timeout, backend |-> NoBackend]
               ELSE req[r]]
  /\ UNCHANGED <<vars, up, warm>>

(* wg.Add, and one goroutine per request, at least one, all waiting for the   *)
(* barrier.                                                                   *)
Launch(some) ==
  /\ flood = "idle" /\ some # {}
  /\ flood' = "armed" /\ wg' = wg + Cardinality(some)
  /\ req' = [r \in Req |->
               IF r \in some THEN [at |-> "barrier", attempt |-> 0,
                                   left |-> Timeout, backend |-> NoBackend]
               ELSE req[r]]
  /\ UNCHANGED <<vars, up, warm>>

(* close(barrier)                                                             *)
Fire ==
  /\ flood = "armed"
  /\ flood' = "fired"
  /\ req' = [r \in Req |-> IF At(r, "barrier") THEN [req[r] EXCEPT !.at = "pick"]
                           ELSE req[r]]
  /\ UNCHANGED <<vars, up, wg, warm>>

(* Pick returns b and the budget starts.                                      *)
FloodPicked(r, b) ==
  /\ At(r, "picking")
  /\ Granted(b)
  /\ req' = [req EXCEPT ![r].at = "picked", ![r].backend = b, ![r].left = Timeout]
  /\ UNCHANGED <<up, flood, wg, warm>>

(* Do returns.  Whatever the status says, an answer is an answer; a backend   *)
(* that does not serve the request may answer or not.                         *)
FloodReturn(r, result) ==
  LET b == req[r].backend
  IN  /\ At(r, "calling")
      /\ DropActive(b)
      /\ result = "failed" => ~Serves(b, r) \/ req[r].left = 0
      /\ Go(r, result)
      /\ UNCHANGED <<up, flood, wg, warm>>

(* Seeded fault: the breaker is not told of an error.                         *)
FaultyFloodFail(r) ==
  /\ At(r, "failed")
  /\ req' = [req EXCEPT ![r].at = "exhausted", ![r].backend = NoBackend]
  /\ UNCHANGED <<vars, up, flood, wg, warm>>

(* RecordFailure; no other attempt.                                           *)
FloodFail(r) ==
  /\ At(r, "failed")
  /\ Report(req[r].backend, FALSE)
  /\ req' = [req EXCEPT ![r].at = "exhausted", ![r].backend = NoBackend]
  /\ UNCHANGED <<up, flood, wg, warm>>

(* What a goroutine does as a request of the proxy does it: the rest of Pick, *)
(* active, RecordSuccess, RecordLatency; it ends with its result stored.      *)
AsProxied(r) ==
  /\ Pick(r) \/ PickRefused(r) \/ PickReturnsNil(r) \/ Send(r) \/ Succeed(r) \/ Relay(r)
  /\ UNCHANGED <<flood, wg, warm>>

(* The deferred wg.Done, when the goroutine's result is stored.               *)
WaitGroupDone(r) ==
  /\ req[r].at \in Done
  /\ Go(r, "idle")
  /\ wg' = wg - 1
  /\ UNCHANGED <<vars, up, flood, warm>>

(* wg.Wait returns, the results are added up and sent.                        *)
Finish ==
  /\ flood = "fired" /\ wg = 0
  /\ flood' = "idle"
  /\ UNCHANGED <<proxyVars, wg, warm>>

--------------------------------------------------------------------------------
(* handleWarmup *)

(* A goroutine for the backend the caller named (any other port is refused).  *)
WarmUp(w, b) ==
  /\ warm[w] = NoBackend
  /\ AddActive(b)
  /\ warm' = [warm EXCEPT ![w] = b]
  /\ UNCHANGED <<req, up, flood, wg>>

(* Seeded fault: active is not taken back.                                    *)
FaultyCool(w) ==
  /\ warm[w] # NoBackend
  /\ warm' = [warm EXCEPT ![w] = NoBackend]
  /\ UNCHANGED <<proxyVars, flood, wg>>

(* Its call ends, in whatever way and at the latest after 30 s.               *)
Cool(w) ==
  /\ warm[w] # NoBackend
  /\ DropActive(warm[w])
  /\ warm' = [warm EXCEPT ![w] = NoBackend]
  /\ UNCHANGED <<req, up, flood, wg>>

--------------------------------------------------------------------------------
SimNext ==
  \/ /\ \/ \E r \in Visitor : Arrive(r) \/ Step(r) \/ HangUp(r)
        \/ Environment
        \/ Elapses
     /\ UNCHANGED <<flood, wg, warm>>
  \/ \E some \in SUBSET Flooder : Launch(some)
  \/ Fire
  \/ \E r \in Flooder :
       \/ AsProxied(r) \/ FloodFail(r) \/ WaitGroupDone(r)
       \/ \E b \in Backend : FloodPicked(r, b)
       \/ \E result \in {"answered", "failed"} : FloodReturn(r, result)
  \/ Finish
  \/ \E w \in Warmer : Cool(w) \/ \E b \in Preloaded : WarmUp(w, b)

SimSpec == SimInit /\ [][SimNext]_simVars

--------------------------------------------------------------------------------
(* active counts the calls under way to a backend, whoever makes them and     *)
(* however they end: proxied, of a flood, or warming up.                      *)
ActiveCountsAllCalls ==
  \A b \in Backend :
    active[b] = Cardinality({r \in Req : At(r, "calling") /\ req[r].backend = b})
                + Cardinality({w \in Warmer : warm[w] = b})

(* A flood that has answered has left nothing behind: every goroutine of it   *)
(* was counted by the WaitGroup, so none of them has lb.mu, is in flight,     *)
(* owes a breaker the result of its probe, or has a result still to store.    *)
FloodLeavesNothing ==
  flood = "idle" => \A r \in Flooder : At(r, "idle")

================================================================================
