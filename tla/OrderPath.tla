-------------------------------- MODULE OrderPath ------------------------------
(******************************************************************************)
(* POST /orders from the client's side: the retry loop of the gateway         *)
(* (gateway/proxy.go) in front of the handlers of the order service.          *)
(*                                                                            *)
(* All attempts at a request share one deadline.  When it passes, or the      *)
(* client hangs up, the gateway gives up and its handler goes on; so an       *)
(* attempt follows an earlier one only after an answer with a retriable       *)
(* status (the handler is done) or a broken connection (the service died).    *)
(* The order pool has one backend; whether its breaker and its health flag    *)
(* let an attempt through is left open here (Proxy has them).                 *)
(******************************************************************************)
EXTENDS OrderService

CONSTANTS
  Client,       \* requests for POST /orders, a repetition being one of its own
  NoHandler,    \* no handler of the order service
  MaxRetries,   \* orderProxy.maxRetries
  Hurried,      \* requests whose deadline may pass, or whose client may hang up
  Sequential    \* keys that are sent again only after the gateway has answered

(* Nobody is Patient: the gateway starts a handler when a request wants one,  *)
(* whoever else is at work on the key.  Who waits for whom is said here of    *)
(* the gateway's clients (Sequential).                                        *)
ASSUME PathAssumption ==
  /\ Patient = {}
  /\ NoHandler \notin Handler
  /\ MaxRetries \in Nat
  /\ Hurried \subseteq Client /\ Sequential \subseteq Key

VARIABLES
  gw,         \* where each request is in ServeHTTP
  serving,    \* the request that a handler's call belongs to (history)
  owner       \* owner[i] is the request order i was created for (history)

pathVars == <<vars, gw, serving, owner>>
history == <<serving, owner>>

UnderWay == {"pick", "waiting"}
Errors == {"refused", "unavailable", "exhausted"}
TooLate == {"timeout", "overdue"}
Done == {"created"} \cup TooLate \cup Errors

PathTypeOK ==
  /\ TypeOK
  /\ gw \in [Client -> [at : {"idle"} \cup UnderWay \cup Done,
                        key : Key \cup {NoKey}, n : 0 .. MaxItems,
                        attempt : 0 .. MaxRetries,
                        handler : Handler \cup {NoHandler},
                        life : 0 .. MaxCrashes, order : 0 .. MaxOrders]]
  /\ serving \in [Handler -> Client \cup {NoHandler}]
  /\ owner \in Seq(Client) /\ Len(owner) = Len(orders)

PathInit ==
  /\ Init
  /\ gw = [c \in Client |-> [at |-> "idle", key |-> NoKey, n |-> 0, attempt |-> 0,
                             handler |-> NoHandler, life |-> 0, order |-> NoOrder]]
  /\ serving = [h \in Handler |-> NoHandler]
  /\ owner = <<>>

Is(c, where) == gw[c].at = where

(* The request leaves ServeHTTP with this answer.                             *)
Answer(c, what) ==
  gw' = [gw EXCEPT ![c].at = what, ![c].handler = NoHandler]

--------------------------------------------------------------------------------
(* ServeHTTP *)

(* A client sends the request; a script that repeats a key waits for the      *)
(* answer to the last one.                                                    *)
Ask(c, k, n) ==
  /\ Is(c, "idle")
  /\ k \in Sequential => \A d \in Client : gw[d].at \in UnderWay => gw[d].key # k
  /\ gw' = [gw EXCEPT ![c].at = "pick", ![c].key = k, ![c].n = n]
  /\ UNCHANGED <<vars, history>>

(* Pick lets the attempt through and the service starts a handler for it.     *)
Attempt(c, h) ==
  /\ Is(c, "pick")
  /\ \A d \in Client : gw[d].handler # h
  /\ Receive(h, gw[c].key, gw[c].n)
  /\ gw' = [gw EXCEPT ![c].at = "waiting", ![c].handler = h, ![c].life = crashes]
  /\ serving' = [serving EXCEPT ![h] = c]
  /\ UNCHANGED owner

(* Pick returns nil: 503 "no backends available".                             *)
Unavailable(c) ==
  /\ Is(c, "pick")
  /\ Answer(c, "unavailable")
  /\ UNCHANGED <<vars, history>>

(* 201, new or replayed, and 400 are not retriable: the answer is passed on.  *)
Relay(c) ==
  /\ Is(c, "waiting")
  /\ LET h == gw[c].handler
     IN  \/ /\ call[h].at \in {"created", "replayed"}
            /\ gw' = [gw EXCEPT ![c].at = "created", ![c].handler = NoHandler,
                                ![c].order = call[h].order]
         \/ At(h, "refused") /\ Answer(c, "refused")
  /\ UNCHANGED <<vars, history>>

(* Seeded fault: the attempts are counted but not limited.                    *)
FaultyNextAttempt(c) ==
  gw' = [gw EXCEPT ![c].at = "pick", ![c].attempt = @ + 1, ![c].handler = NoHandler]

(* The next attempt, or 503 "service unavailable after retries".              *)
NextAttempt(c) ==
  gw' = [gw EXCEPT ![c].at = IF gw[c].attempt < MaxRetries THEN "pick" ELSE "exhausted",
                   ![c].attempt = IF @ < MaxRetries THEN @ + 1 ELSE @,
                   ![c].handler = NoHandler]

(* A 500 or 502 of the handler.                                               *)
Retry(c) ==
  /\ Is(c, "waiting")
  /\ At(gw[c].handler, "failed")
  /\ NextAttempt(c)
  /\ UNCHANGED <<vars, history>>

(* No connection, or it broke because the service died meanwhile.             *)
Disconnect(c) ==
  /\ Is(c, "pick") \/ (Is(c, "waiting") /\ gw[c].life < crashes)
  /\ NextAttempt(c)
  /\ UNCHANGED <<vars, history>>

(* Seeded fault: every attempt has a deadline of its own, and one that is cut *)
(* off is followed by another.                                                *)
FaultyCut(c) ==
  /\ c \in Hurried /\ gw[c].at \in UnderWay
  /\ NextAttempt(c)
  /\ UNCHANGED <<vars, history>>

(* The context is done, whatever the handler does: 504 "gateway timeout", but *)
(* in the last call to the service the loop is left instead and it is 503     *)
(* "service unavailable after retries: ... context deadline exceeded".        *)
Cut(c) ==
  /\ c \in Hurried /\ gw[c].at \in UnderWay
  /\ Answer(c, IF Is(c, "waiting") /\ gw[c].attempt = MaxRetries
               THEN "overdue" ELSE "timeout")
  /\ UNCHANGED <<vars, history>>

--------------------------------------------------------------------------------
(* The order service *)

Serve(h) ==
  /\ \/ Replay(h) \/ Miss(h) \/ FetchPrice(h)
     \/ Insert(h) \/ InsertItem(h) \/ CommitFails(h) \/ Store(h)
  /\ UNCHANGED <<gw, history>>

CommitOrder(h) ==
  /\ Commit(h)
  /\ owner' = Append(owner, serving[h])
  /\ UNCHANGED <<gw, serving>>

ServiceDies == CrashAndRestart /\ UNCHANGED <<gw, history>>

(* All of this within the 24 hours that a cached result is good for.          *)
PathNext ==
  \/ \E c \in Client :
       \/ \E k \in Key \cup {NoKey}, n \in 0 .. MaxItems : Ask(c, k, n)
       \/ \E h \in Handler : Attempt(c, h)
       \/ Unavailable(c) \/ Relay(c) \/ Retry(c) \/ Disconnect(c) \/ Cut(c)
  \/ \E h \in Handler : Serve(h) \/ CommitOrder(h)
  \/ ServiceDies

PathSpec == PathInit /\ [][PathNext]_pathVars

--------------------------------------------------------------------------------
(* However often the gateway tries, a request makes one order at most while   *)
(* the service stays up, with a key or without: an attempt that is followed   *)
(* by another has not created anything and will not.                          *)
OneOrderPerRequest ==
  \A i, j \in DOMAIN orders :
    owner[i] = owner[j] /\ orders[i].life = orders[j].life => i = j

(* A client that is told 400 or 503 has no order, now or later, unless the    *)
(* service died after creating it or the 503 names the deadline; 201 names an *)
(* order that was made for the client's key.  (TooLate says nothing: see      *)
(* AnswersAgree.)                                                             *)
ErrorsMeanNoOrder ==
  \A c \in Client :
    /\ gw[c].at \in Errors =>
         \A i \in DOMAIN orders : owner[i] = c => orders[i].life < crashes
    /\ Is(c, "created") => Stored(gw[c].order, gw[c].key)

(* For a script that waits for its answers a key is worth one order, as long  *)
(* as the service stays up and no answer to the key came TooLate.             *)
OneOrderPerSettledKey ==
  \A i, j \in DOMAIN orders :
    /\ orders[i].key = orders[j].key /\ orders[i].key \in Sequential
    /\ orders[i].life = orders[j].life
    /\ \A c \in Client : gw[c].at \in TooLate => gw[c].key # orders[i].key
    => i = j

--------------------------------------------------------------------------------
(* "Run this 3 times - you get the SAME order ID every time" (Go              *)
(* Instructions.txt:16): all 201 answers to a key name the same order.        *)
AnswersAgree ==
  \A c, d \in Client :
    Is(c, "created") /\ Is(d, "created") /\ gw[c].key = gw[d].key /\ gw[c].key # NoKey
      => gw[c].order = gw[d].order

================================================================================
