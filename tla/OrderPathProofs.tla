---------------------------- MODULE OrderPathProofs ----------------------------
(******************************************************************************)
(* What a request for POST /orders can come to, for any number of clients,    *)
(* handlers and retries, whichever of them are cut off and whenever the order *)
(* service dies.                                                              *)
(*                                                                            *)
(* OneOrderPerRequest is not inductive: a second attempt must find that the   *)
(* first one has created nothing and has no handler left that could.  That    *)
(* holds of a request between two attempts (Clean), and while it waits of all *)
(* handlers but its own (Waits).                                              *)
(******************************************************************************)
EXTENDS OrderPath, OrderServiceProofs

(* A handler that may still create an order.                                  *)
Fresh(h) == call[h].at \in {"lookup"} \cup Working

(* The request has no order of the present life of the service ...            *)
NoneYet(c) ==
  \A i \in DOMAIN orders : owner[i] = c => orders[i].life < crashes

(* ... and none to come.                                                      *)
Clean(c) ==
  /\ NoneYet(c)
  /\ \A g \in Handler : Fresh(g) => serving[g] # c

Settled == {"idle", "pick"} \cup Errors

Waits(c) ==
  LET h == gw[c].handler
  IN  /\ h \in Handler /\ serving[h] = c
      /\ call[h].at # "idle" => call[h].key = gw[c].key
      /\ \A g \in Handler : Fresh(g) /\ serving[g] = c => g = h
      /\ gw[c].life < crashes => call[h].at \notin Running /\ NoneYet(c)
      /\ call[h].at \notin {"store", "created"} => NoneYet(c)

FreshHasNone ==
  \A h \in Handler : Fresh(h) => serving[h] \in Client /\ NoneYet(serving[h])

FreshAlone ==
  \A g, h \in Handler : Fresh(g) /\ Fresh(h) /\ serving[g] = serving[h] => g = h

PathInv ==
  /\ PathTypeOK
  /\ IInv
  /\ \A c \in Client : gw[c].at \in Settled => Clean(c)
  /\ \A c \in Client : Is(c, "waiting") => Waits(c)
  /\ \A c \in Client : Is(c, "created") => Stored(gw[c].order, gw[c].key)
  /\ FreshHasNone
  /\ FreshAlone
  /\ OneOrderPerRequest

GwType ==
  [at : {"idle"} \cup UnderWay \cup Done, key : Key \cup {NoKey},
   n : 0 .. MaxItems, attempt : 0 .. MaxRetries, handler : Handler \cup {NoHandler},
   life : 0 .. MaxCrashes, order : 0 .. MaxOrders]

LEMMA PathTypes ==
  ASSUME PathInv
  PROVE  /\ TypeOK /\ call \in [Handler -> CallType]
         /\ gw \in [Client -> GwType]
         /\ serving \in [Handler -> Client \cup {NoHandler}]
         /\ owner \in Seq(Client) /\ Len(owner) = Len(orders)
         /\ orders \in Seq([key : Key \cup {NoKey}, n : 1 .. MaxItems,
                            life : 0 .. MaxCrashes])
         /\ DOMAIN owner = DOMAIN orders
         /\ \A i \in DOMAIN orders : orders[i].life \in Nat
         /\ crashes \in Nat
<1>1. /\ TypeOK /\ call \in [Handler -> CallType]
      /\ gw \in [Client -> GwType]
      /\ serving \in [Handler -> Client \cup {NoHandler}]
      /\ owner \in Seq(Client) /\ Len(owner) = Len(orders)
      /\ orders \in Seq([key : Key \cup {NoKey}, n : 1 .. MaxItems,
                         life : 0 .. MaxCrashes])
      /\ crashes \in Nat
  BY OrderAssumption DEF PathInv, PathTypeOK, TypeOK, CallType, GwType
<1>2. DOMAIN orders = 1 .. Len(orders) /\ DOMAIN owner = 1 .. Len(owner)
  BY <1>1
<1>3. ASSUME NEW i \in DOMAIN orders PROVE orders[i].life \in Nat
  <2> DEFINE Order == [key : Key \cup {NoKey}, n : 1 .. MaxItems, life : 0 .. MaxCrashes]
  <2>0. orders \in Seq(Order) /\ i \in 1 .. Len(orders)
    BY <1>1, <1>2
  <2>1. orders[i] \in Order
    <3> HIDE DEF Order
    <3> QED BY <2>0
  <2> QED BY <2>1, OrderAssumption
<1> QED BY <1>1, <1>2, <1>3

--------------------------------------------------------------------------------
(* PathNext is made of the steps of OrderService, so the inductive invariant  *)
(* proved there holds here (with nobody Patient: see PathAssumption).         *)
LEMMA PathStepRefines ==
  ASSUME PathInv, [PathNext]_pathVars
  PROVE  [Next]_vars
<1>1. ASSUME NEW c \in Client, NEW h \in Handler, Attempt(c, h) PROVE Next
  <2>1. gw[c].key \in Key \cup {NoKey} /\ gw[c].n \in 0 .. MaxItems
    BY PathTypes DEF GwType
  <2> QED BY <1>1, <2>1 DEF Attempt, Next
<1>2. ASSUME NEW c \in Client, UNCHANGED <<vars, history>> PROVE UNCHANGED vars
  BY <1>2
<1>3. ASSUME NEW h \in Handler, Serve(h) \/ CommitOrder(h) PROVE Next
  BY <1>3 DEF Serve, CommitOrder, Next
<1>4. CASE ServiceDies
  BY <1>4 DEF ServiceDies, Next
<1>5. CASE UNCHANGED pathVars
  BY <1>5 DEF pathVars
<1> QED
  BY <1>1, <1>2, <1>3, <1>4, <1>5
  DEF PathNext, Ask, Unavailable, Relay, Retry, Disconnect, Cut

LEMMA PathStepKeepsIInv ==
  ASSUME PathInv, [PathNext]_pathVars
  PROVE  IInv' /\ TypeOK'
<1>1. IInv'
  BY PathStepRefines, NextKeeps DEF PathInv
<1> QED BY <1>1 DEF IInv

LEMMA PathInitInv == PathInit => PathInv
<1> SUFFICES ASSUME PathInit PROVE PathInv
  OBVIOUS
<1>1. IInv /\ TypeOK
  BY InitIInv DEF PathInit, IInv
<1>2. orders = <<>> /\ owner = <<>> /\ DOMAIN orders = {} /\ Len(owner) = Len(orders)
      /\ owner \in Seq(Client)
  BY DEF PathInit, Init
<1>3. \A h \in Handler : call[h].at = "idle"
  BY DEF PathInit, Init, Idle
<1>4. \A h \in Handler : ~Fresh(h)
  BY <1>3 DEF Fresh, Working, Transaction
<1>5. /\ gw \in [Client -> GwType]
      /\ \A c \in Client : gw[c].at = "idle"
      /\ serving \in [Handler -> Client \cup {NoHandler}]
  BY OrderAssumption, PathAssumption DEF PathInit, GwType, NoOrder
<1>6. PathTypeOK
  BY <1>1, <1>2, <1>5 DEF PathTypeOK, GwType
<1>7. \A c \in Client : Clean(c) /\ gw[c].at \notin {"waiting", "created"}
  BY <1>2, <1>4, <1>5 DEF Clean, NoneYet
<1> QED
  BY <1>1, <1>2, <1>4, <1>6, <1>7
  DEF PathInv, Is, FreshHasNone, FreshAlone, OneOrderPerRequest

--------------------------------------------------------------------------------
(* The gateway *)

(* A request moves in the gateway, and does not start to wait.                *)
LEMMA GatewayMoves ==
  ASSUME PathInv, NEW c \in Client, UNCHANGED <<vars, history>>,
         NEW r \in GwType, gw' = [gw EXCEPT ![c] = r],
         r.at # "waiting",
         r.at \in Settled => Clean(c),
         r.at = "created" => Stored(r.order, r.key)
  PROVE  PathInv'
<1>1. /\ gw' \in [Client -> GwType] /\ gw'[c] = r
      /\ \A d \in Client : d # c => gw'[d] = gw[d]
  BY PathTypes
<1>2. /\ orders' = orders /\ owner' = owner /\ serving' = serving
      /\ call' = call /\ crashes' = crashes
  BY DEF vars, history
<1>3. IInv' /\ TypeOK'
  <2>1. UNCHANGED vars
    OBVIOUS
  <2> QED BY <2>1, NextKeeps DEF PathInv, IInv
<1>4. PathTypeOK'
  BY <1>1, <1>2, <1>3, PathTypes DEF PathTypeOK, GwType
<1>5. \A d : Clean(d)' = Clean(d)
  BY <1>2 DEF Clean, NoneYet, Fresh
<1>6. ASSUME NEW d \in Client, gw'[d].at \in Settled PROVE Clean(d)'
  BY <1>1, <1>5, <1>6 DEF PathInv
<1>7. ASSUME NEW d \in Client, gw'[d].at = "waiting" PROVE Waits(d)'
  <2>1. d # c /\ gw'[d] = gw[d] /\ Waits(d)
    BY <1>1, <1>7 DEF PathInv, Is
  <2> QED BY <1>2, <2>1 DEF Waits, NoneYet, Fresh
<1>8. ASSUME NEW d \in Client, gw'[d].at = "created"
      PROVE  Stored(gw[d].order, gw[d].key)'
  BY <1>1, <1>2, <1>8 DEF PathInv, Is, Stored
<1>9. FreshHasNone' /\ FreshAlone' /\ OneOrderPerRequest'
  BY <1>2 DEF PathInv, FreshHasNone, FreshAlone, OneOrderPerRequest, Fresh, NoneYet
<1> QED BY <1>3, <1>4, <1>6, <1>7, <1>8, <1>9 DEF PathInv, Is, Stored

LEMMA AskKeeps ==
  ASSUME PathInv, NEW c \in Client, NEW k \in Key \cup {NoKey},
         NEW n \in 0 .. MaxItems, Ask(c, k, n)
  PROVE  PathInv'
<1> DEFINE r == [gw[c] EXCEPT !.at = "pick", !.key = k, !.n = n]
<1>1. gw' = [gw EXCEPT ![c] = r] /\ r \in GwType /\ r.at = "pick"
  BY PathTypes DEF Ask, GwType, UnderWay
<1>2. Clean(c)
  BY DEF Ask, Is, PathInv, Settled
<1> QED BY <1>1, <1>2, GatewayMoves DEF Ask

(* An answer of the gateway's own, or one that is passed on.                  *)
LEMMA AnswerKeeps ==
  ASSUME PathInv, NEW c \in Client, NEW what \in Done \ {"created"}, Answer(c, what),
         UNCHANGED <<vars, history>>, what \in Errors => Clean(c)
  PROVE  PathInv'
<1> DEFINE r == [gw[c] EXCEPT !.at = what, !.handler = NoHandler]
<1>1. gw' = [gw EXCEPT ![c] = r] /\ r \in GwType /\ r.at = what
  BY PathTypes DEF Answer, GwType
<1>2. what # "waiting" /\ what \notin {"idle", "pick"} /\ what # "created"
  BY DEF Done, TooLate, Errors
<1>3. r.at \in Settled => Clean(c)
  BY <1>1, <1>2 DEF Settled
<1> QED BY <1>1, <1>2, <1>3, GatewayMoves

(* The handler of a waiting request is done without an order.                 *)
LEMMA DoneMeansClean ==
  ASSUME PathInv, NEW c \in Client, Is(c, "waiting"),
         call[gw[c].handler].at \in {"failed", "refused"}
  PROVE  Clean(c)
<1>1. Waits(c)
  BY DEF PathInv
<1>2. NoneYet(c) /\ ~Fresh(gw[c].handler)
  BY <1>1 DEF Waits, Fresh, Working, Transaction
<1> QED BY <1>1, <1>2 DEF Waits, Clean

LEMMA RelayKeeps ==
  ASSUME PathInv, NEW c \in Client, Relay(c)
  PROVE  PathInv'
<1> DEFINE h == gw[c].handler
<1>1. Waits(c) /\ h \in Handler /\ call[h] \in CallType
  BY PathTypes DEF PathInv, Relay, Waits
<1>2. ASSUME call[h].at \in {"created", "replayed"},
             gw' = [gw EXCEPT ![c].at = "created", ![c].handler = NoHandler,
                              ![c].order = call[h].order]
      PROVE  PathInv'
  <2> DEFINE r == [gw[c] EXCEPT !.at = "created", !.handler = NoHandler,
                                !.order = call[h].order]
  <2>0. gw[c] \in GwType /\ call[h].order \in 0 .. MaxOrders
    BY <1>1, PathTypes DEF CallType
  <2>1. gw' = [gw EXCEPT ![c] = r] /\ r \in GwType /\ r.at = "created"
    BY <1>2, <2>0, PathTypes DEF GwType, Done, TooLate
  <2>2. call[h].key = gw[c].key
    BY <1>1, <1>2 DEF Waits
  <2>3. Stored(call[h].order, call[h].key)
    BY <1>1, <1>2 DEF PathInv, IInv, Sound
  <2>4. Stored(r.order, r.key) /\ r.at \notin Settled
    BY <2>1, <2>2, <2>3, PathTypes DEF GwType, Settled, Errors
  <2> QED BY <2>1, <2>4, GatewayMoves DEF Relay
<1>3. ASSUME At(h, "refused"), Answer(c, "refused") PROVE PathInv'
  <2>1. Clean(c)
    BY <1>3, DoneMeansClean DEF Relay, At
  <2> QED BY <1>3, <2>1, AnswerKeeps DEF Relay, Done, TooLate, Errors
<1> QED BY <1>2, <1>3 DEF Relay

LEMMA NextAttemptKeeps ==
  ASSUME PathInv, NEW c \in Client, NextAttempt(c), Clean(c), UNCHANGED <<vars, history>>
  PROVE  PathInv'
<1> DEFINE again == gw[c].attempt < MaxRetries
           r == [gw[c] EXCEPT !.at = IF again THEN "pick" ELSE "exhausted",
                              !.attempt = IF again THEN @ + 1 ELSE @,
                              !.handler = NoHandler]
<1>1. gw[c] \in GwType /\ gw[c].attempt \in 0 .. MaxRetries
  BY PathTypes DEF GwType
<1>2. (IF again THEN gw[c].attempt + 1 ELSE gw[c].attempt) \in 0 .. MaxRetries
  BY <1>1, PathAssumption
<1>3. r \in GwType /\ r.at \in {"pick", "exhausted"}
  BY <1>1, <1>2 DEF GwType, UnderWay, Done, TooLate, Errors
<1>4. gw' = [gw EXCEPT ![c] = r]
  BY PathTypes DEF NextAttempt, GwType
<1>5. r.at # "waiting" /\ r.at # "created"
  BY <1>3
<1> HIDE DEF r
<1> QED BY <1>3, <1>4, <1>5, GatewayMoves

LEMMA RetryKeeps ==
  ASSUME PathInv, NEW c \in Client, Retry(c)
  PROVE  PathInv'
<1>1. Clean(c)
  BY DoneMeansClean DEF Retry, At
<1> QED BY <1>1, NextAttemptKeeps DEF Retry

LEMMA DisconnectKeeps ==
  ASSUME PathInv, NEW c \in Client, Disconnect(c)
  PROVE  PathInv'
<1>1. CASE Is(c, "pick")
  <2>1. Clean(c)
    BY <1>1 DEF PathInv, Is, Settled
  <2> QED BY <2>1, NextAttemptKeeps DEF Disconnect
<1>2. CASE Is(c, "waiting") /\ gw[c].life < crashes
  <2>1. Waits(c)
    BY <1>2 DEF PathInv
  <2>2. NoneYet(c) /\ ~Fresh(gw[c].handler)
    BY <1>2, <2>1 DEF Waits, Fresh, Working, Running
  <2>3. Clean(c)
    BY <2>1, <2>2 DEF Waits, Clean
  <2> QED BY <2>3, NextAttemptKeeps DEF Disconnect
<1> QED BY <1>1, <1>2 DEF Disconnect

--------------------------------------------------------------------------------
(* The order service *)

(* A handler moves on without committing: it keeps its key, cannot become     *)
(* fresh, and is past its commit only if it was.                              *)
LEMMA ServeMoves ==
  ASSUME PathInv, NEW h \in Handler, Serve(h)
  PROVE  /\ call[h].at \in Running
         /\ \A g \in Handler : g # h => call'[g] = call[g]
         /\ call'[h].key = call[h].key
         /\ Fresh(h)' => Fresh(h)
         /\ call'[h].at \notin {"store", "created"} =>
              call[h].at \notin {"store", "created"}
         /\ orders' = orders /\ crashes' = crashes
  BY PathTypes
  DEF Serve, Replay, Miss, FetchPrice, Insert, InsertItem, CommitFails, Store,
      At, Go, Tables, CallType, Fresh, Working, Running, Transaction

LEMMA ServeKeeps ==
  ASSUME PathInv, NEW h \in Handler, Serve(h), IInv', TypeOK'
  PROVE  PathInv'
<1>1. gw' = gw /\ serving' = serving /\ owner' = owner
  BY DEF Serve, history
<1>2. orders' = orders /\ crashes' = crashes
  BY ServeMoves
<1>3. \A g \in Handler : Fresh(g)' => Fresh(g)
  BY ServeMoves DEF Fresh
<1>4. PathTypeOK'
  BY <1>1, <1>2 DEF PathInv, PathTypeOK
<1>5. \A c : NoneYet(c)' = NoneYet(c)
  BY <1>1, <1>2 DEF NoneYet
<1>6. \A c : Clean(c) => Clean(c)'
  BY <1>1, <1>3, <1>5 DEF Clean
<1>7. ASSUME NEW c \in Client, gw'[c].at = "waiting" PROVE Waits(c)'
  <2>1. Waits(c) /\ gw'[c] = gw[c]
    BY <1>1, <1>7 DEF PathInv, Is
  <2> DEFINE g == gw[c].handler
  <2>2. CASE g = h
    <3>1. g \in Handler /\ serving[g] = c /\ call[h].at # "idle"
      BY <2>1, <2>2, ServeMoves DEF Waits, Running, Transaction
    <3>2. ~(gw[c].life < crashes)
      BY <2>1, <2>2, ServeMoves DEF Waits
    <3> QED BY <1>1, <1>2, <1>3, <1>5, <2>1, <2>2, <3>1, <3>2, ServeMoves DEF Waits
  <2>3. CASE g # h
    <3>1. call'[g] = call[g]
      BY <2>1, <2>3, ServeMoves DEF Waits
    <3> QED BY <1>1, <1>2, <1>3, <1>5, <2>1, <3>1 DEF Waits
  <2> QED BY <2>2, <2>3
<1>8. FreshHasNone'
  BY <1>1, <1>3, <1>5 DEF PathInv, FreshHasNone
<1>9. FreshAlone'
  BY <1>1, <1>3 DEF PathInv, FreshAlone
<1>10. OneOrderPerRequest'
  BY <1>1, <1>2 DEF PathInv, OneOrderPerRequest
<1>11. \A c \in Client : Is(c, "created")' => Stored(gw[c].order, gw[c].key)'
  BY <1>1, <1>2 DEF PathInv, Is, Stored
<1> QED BY <1>1, <1>4, <1>6, <1>7, <1>8, <1>9, <1>10, <1>11 DEF PathInv, Is

(* The commit creates the first order of its request in this life.            *)
LEMMA CommitOrderKeeps ==
  ASSUME PathInv, NEW h \in Handler, CommitOrder(h), IInv', TypeOK'
  PROVE  PathInv'
<1> DEFINE new == Len(orders')
           s == serving[h]
<1>1. gw' = gw /\ serving' = serving /\ owner' = Append(owner, s) /\ Commit(h)
  BY DEF CommitOrder
<1>2. /\ new = Len(orders) + 1
      /\ DOMAIN orders' = DOMAIN orders \cup {new}
      /\ \A i \in DOMAIN orders : orders'[i] = orders[i]
  BY <1>1, CommitAppends DEF PathInv
<1>3. orders'[new].life = crashes /\ crashes' = crashes
  BY <1>1, PathTypes DEF Commit
<1>4. /\ call[h].at = "commit" /\ Fresh(h) /\ call[h].at \in Running
      /\ call'[h].at \in {"store", "created"} /\ call'[h].key = call[h].key
      /\ \A g \in Handler : g # h => call'[g] = call[g]
  BY <1>1, PathTypes
  DEF Commit, At, CallType, Fresh, Working, Transaction, Running
<1>5. ~Fresh(h)' /\ \A g \in Handler : Fresh(g)' => Fresh(g) /\ g # h
  BY <1>4 DEF Fresh, Working, Transaction
<1>6. s \in Client /\ NoneYet(s)
  BY <1>4 DEF PathInv, FreshHasNone
<1>7. /\ owner' \in Seq(Client) /\ Len(owner') = Len(orders')
      /\ owner'[new] = s
      /\ \A i \in DOMAIN orders : owner'[i] = owner[i]
      /\ new \notin DOMAIN orders
  BY <1>1, <1>2, <1>6, PathTypes
<1>8. PathTypeOK'
  BY <1>1, <1>3, <1>7 DEF PathInv, PathTypeOK
<1>9. \A d : d # s /\ NoneYet(d) => NoneYet(d)'
  BY <1>2, <1>3, <1>7 DEF NoneYet
<1>10. ASSUME NEW d \in Client, gw'[d].at \in Settled PROVE Clean(d)'
  <2>1. Clean(d) /\ d # s
    BY <1>1, <1>4, <1>10 DEF PathInv, Clean
  <2> QED BY <1>1, <1>5, <1>9, <2>1 DEF Clean
<1>11. ASSUME NEW d \in Client, gw'[d].at = "waiting" PROVE Waits(d)'
  <2>1. Waits(d)
    BY <1>1, <1>11 DEF PathInv, Is
  <2>2. CASE d = s
    <3>1. gw[d].handler = h
      BY <1>4, <2>1, <2>2 DEF Waits
    <3>2. ~(gw[d].life < crashes) /\ call[h].key = gw[d].key
      BY <1>4, <2>1, <3>1 DEF Waits
    <3> QED BY <1>1, <1>3, <1>4, <1>5, <2>1, <3>1, <3>2 DEF Waits
  <2>3. CASE d # s
    <3>1. gw[d].handler # h /\ call'[gw[d].handler] = call[gw[d].handler]
      BY <1>4, <2>1, <2>3 DEF Waits
    <3> QED BY <1>1, <1>3, <1>5, <1>9, <2>1, <2>3, <3>1 DEF Waits
  <2> QED BY <2>2, <2>3
<1>12. FreshHasNone'
  <2> SUFFICES ASSUME NEW g \in Handler, Fresh(g)'
               PROVE  serving[g] \in Client /\ NoneYet(serving[g])'
    BY <1>1 DEF FreshHasNone
  <2>1. Fresh(g) /\ g # h
    BY <1>5
  <2>2. serving[g] # s /\ serving[g] \in Client /\ NoneYet(serving[g])
    BY <1>4, <2>1 DEF PathInv, FreshAlone, FreshHasNone
  <2>3. ASSUME NEW i \in DOMAIN orders', owner'[i] = serving[g]
        PROVE  orders'[i].life < crashes'
    <3>1. i # new /\ i \in DOMAIN orders
      BY <1>2, <1>7, <2>2, <2>3
    <3> QED BY <1>2, <1>3, <1>7, <2>2, <2>3, <3>1 DEF NoneYet
  <2> QED BY <1>1, <2>2, <2>3 DEF NoneYet
<1>13. FreshAlone'
  BY <1>1, <1>5 DEF PathInv, FreshAlone
<1>14. OneOrderPerRequest'
  <2>1. \A i \in DOMAIN orders : owner[i] = s => orders[i].life < crashes
    BY <1>6 DEF NoneYet
  <2>2. \A i \in DOMAIN orders : orders[i].life \in Nat
    BY PathTypes
  <2>3. ASSUME NEW i \in DOMAIN orders', NEW j \in DOMAIN orders',
               owner'[i] = owner'[j], orders'[i].life = orders'[j].life
        PROVE  i = j
    <3>1. CASE i \in DOMAIN orders /\ j \in DOMAIN orders
      BY <1>2, <1>7, <2>3, <3>1 DEF PathInv, OneOrderPerRequest
    <3>2. CASE i = new /\ j \in DOMAIN orders
      BY <1>2, <1>3, <1>7, <2>1, <2>2, <2>3, <3>2, PathTypes
    <3>3. CASE j = new /\ i \in DOMAIN orders
      BY <1>2, <1>3, <1>7, <2>1, <2>2, <2>3, <3>3, PathTypes
    <3>4. CASE i = new /\ j = new
      BY <3>4
    <3> QED BY <1>2, <2>3, <3>1, <3>2, <3>3, <3>4
  <2> QED BY <2>3 DEF OneOrderPerRequest
<1>15. \A c \in Client : Is(c, "created")' => Stored(gw[c].order, gw[c].key)'
  BY <1>1, <1>2 DEF PathInv, Is, Stored
<1> QED BY <1>1, <1>8, <1>10, <1>11, <1>12, <1>13, <1>14, <1>15 DEF PathInv, Is

(* A free handler starts on the next attempt of a request that is clean.      *)
LEMMA AttemptKeeps ==
  ASSUME PathInv, NEW c \in Client, NEW h \in Handler, Attempt(c, h), IInv', TypeOK'
  PROVE  PathInv'
<1> DEFINE r == [gw[c] EXCEPT !.at = "waiting", !.handler = h, !.life = crashes]
<1>1. /\ gw' = [gw EXCEPT ![c] = r] /\ gw[c].at = "pick"
      /\ \A d \in Client : gw[d].handler # h
      /\ serving' = [serving EXCEPT ![h] = c] /\ owner' = owner
  BY PathTypes DEF Attempt, Is, GwType
<1>2. /\ orders' = orders /\ crashes' = crashes
      /\ call'[h].at = "lookup" /\ call'[h].key = gw[c].key
      /\ \A g \in Handler : g # h => call'[g] = call[g]
  BY PathTypes DEF Attempt, Receive, Tables
<1>3. gw' \in [Client -> GwType] /\ gw'[c].at = "waiting" /\ gw'[c].handler = h
      /\ gw'[c].key = gw[c].key /\ gw'[c].life = crashes
      /\ \A d \in Client : d # c => gw'[d] = gw[d]
  <2>1. gw[c] \in GwType /\ crashes \in 0 .. MaxCrashes
    BY PathTypes DEF TypeOK
  <2>2. r \in GwType
    BY <2>1 DEF GwType, UnderWay
  <2> QED BY <1>1, <2>1, <2>2, PathTypes DEF GwType
<1>4. /\ serving' \in [Handler -> Client \cup {NoHandler}] /\ serving'[h] = c
      /\ \A g \in Handler : g # h => serving'[g] = serving[g]
  BY <1>1, PathTypes
<1>5. PathTypeOK'
  BY <1>1, <1>2, <1>3, <1>4 DEF PathInv, PathTypeOK, GwType
<1>6. Clean(c)
  BY <1>1 DEF PathInv, Settled
<1>7. \A d : NoneYet(d)' = NoneYet(d)
  BY <1>1, <1>2 DEF NoneYet
<1>8. \A g \in Handler : g # h => (Fresh(g)' = Fresh(g))
  BY <1>2 DEF Fresh
<1>9. ASSUME NEW d \in Client, gw'[d].at \in Settled PROVE Clean(d)'
  <2>1. d # c /\ gw'[d] = gw[d] /\ Clean(d)
    BY <1>3, <1>9 DEF PathInv, Settled, Errors
  <2> QED BY <1>4, <1>7, <1>8, <2>1 DEF Clean
<1>10. \A g \in Handler : Fresh(g)' /\ serving'[g] = c => g = h
  BY <1>4, <1>6, <1>8 DEF Clean
<1>11. ASSUME NEW d \in Client, gw'[d].at = "waiting" PROVE Waits(d)'
  <2>1. CASE d = c
    <3>1. ~(crashes < crashes)
      BY PathTypes
    <3> QED BY <1>2, <1>3, <1>4, <1>6, <1>7, <1>10, <2>1, <3>1 DEF Waits, Clean
  <2>2. CASE d # c
    <3>1. gw'[d] = gw[d] /\ Waits(d) /\ gw[d].handler # h
      BY <1>1, <1>3, <1>11, <2>2 DEF PathInv, Is
    <3>2. \A g \in Handler : Fresh(g)' /\ serving'[g] = d => g = gw[d].handler
      BY <1>4, <1>8, <2>2, <3>1 DEF Waits
    <3> QED BY <1>2, <1>4, <1>7, <3>1, <3>2 DEF Waits
  <2> QED BY <2>1, <2>2
<1>12. FreshHasNone'
  <2>1. ASSUME NEW g \in Handler, Fresh(g)', g # h
        PROVE  serving'[g] \in Client /\ NoneYet(serving[g])'
    <3>1. serving[g] \in Client /\ NoneYet(serving[g]) /\ serving'[g] = serving[g]
      BY <1>4, <1>8, <2>1 DEF PathInv, FreshHasNone
    <3> QED BY <1>1, <1>2, <3>1 DEF NoneYet
  <2>2. serving'[h] \in Client /\ NoneYet(serving[h])'
    BY <1>1, <1>2, <1>4, <1>6 DEF Clean, NoneYet
  <2> QED BY <2>1, <2>2 DEF FreshHasNone
<1>13. FreshAlone'
  BY <1>4, <1>8, <1>10 DEF PathInv, FreshAlone
<1>14. OneOrderPerRequest'
  BY <1>1, <1>2 DEF PathInv, OneOrderPerRequest
<1>15. \A d \in Client : Is(d, "created")' => Stored(gw[d].order, gw[d].key)'
  BY <1>2, <1>3 DEF PathInv, Is, Stored
<1> QED BY <1>5, <1>9, <1>11, <1>12, <1>13, <1>14, <1>15 DEF PathInv, Is

(* A new life of the service has no orders yet and no handlers at work.       *)
LEMMA ServiceDiesKeeps ==
  ASSUME PathInv, ServiceDies, IInv', TypeOK'
  PROVE  PathInv'
<1>1. /\ gw' = gw /\ serving' = serving /\ owner' = owner
      /\ orders' = orders /\ crashes' = crashes + 1
      /\ call' = [h \in Handler |-> IF call[h].at \in Running THEN Idle ELSE call[h]]
  BY DEF ServiceDies, CrashAndRestart, history, Tables
<1>2. \A c : NoneYet(c)'
  <2>1. \A i \in DOMAIN orders : orders[i].life \in Nat
    BY PathTypes
  <2>2. \A i \in DOMAIN orders : orders[i].life <= crashes
    BY DEF PathInv, IInv, LivesSoFar
  <2>3. \A i \in DOMAIN orders : orders[i].life < crashes + 1
    BY <2>1, <2>2, PathTypes
  <2> QED BY <1>1, <2>3 DEF NoneYet
<1>3. \A h \in Handler : /\ call'[h].at \notin Running
                         /\ call'[h].at # "idle" => call'[h] = call[h]
  BY <1>1, PathTypes DEF Idle, Running, Transaction
<1>4. \A h \in Handler : ~Fresh(h)'
  BY <1>3 DEF Fresh, Working, Running
<1>5. PathTypeOK'
  BY <1>1 DEF PathInv, PathTypeOK
<1>6. ASSUME NEW c \in Client, gw'[c].at = "waiting" PROVE Waits(c)'
  <2>1. Waits(c)
    BY <1>1, <1>6 DEF PathInv, Is
  <2> QED BY <1>1, <1>2, <1>3, <1>4, <2>1 DEF Waits
<1>7. \A c \in Client : Clean(c)'
  BY <1>2, <1>4 DEF Clean
<1>8. FreshHasNone' /\ FreshAlone'
  BY <1>4 DEF FreshHasNone, FreshAlone
<1>9. OneOrderPerRequest'
  BY <1>1 DEF PathInv, OneOrderPerRequest
<1>10. \A c \in Client : Is(c, "created")' => Stored(gw[c].order, gw[c].key)'
  BY <1>1 DEF PathInv, Is, Stored
<1> QED BY <1>5, <1>6, <1>7, <1>8, <1>9, <1>10 DEF PathInv, Is

LEMMA PathNextKeeps == PathInv /\ [PathNext]_pathVars => PathInv'
<1> SUFFICES ASSUME PathInv, [PathNext]_pathVars PROVE PathInv'
  OBVIOUS
<1>0. IInv' /\ TypeOK'
  BY PathStepKeepsIInv
<1>1. ASSUME NEW c \in Client, NEW k \in Key \cup {NoKey}, NEW n \in 0 .. MaxItems,
             Ask(c, k, n)
      PROVE  PathInv'
  BY <1>1, AskKeeps
<1>2. ASSUME NEW c \in Client, NEW h \in Handler, Attempt(c, h) PROVE PathInv'
  BY <1>0, <1>2, AttemptKeeps
<1>3. ASSUME NEW c \in Client, Unavailable(c) PROVE PathInv'
  <2>1. Clean(c)
    BY <1>3 DEF Unavailable, Is, PathInv, Settled
  <2> QED BY <1>3, <2>1, AnswerKeeps DEF Unavailable, Done, TooLate, Errors
<1>4. ASSUME NEW c \in Client, Relay(c) PROVE PathInv'
  BY <1>4, RelayKeeps
<1>5. ASSUME NEW c \in Client, Retry(c) PROVE PathInv'
  BY <1>5, RetryKeeps
<1>6. ASSUME NEW c \in Client, Disconnect(c) PROVE PathInv'
  BY <1>6, DisconnectKeeps
<1>7. ASSUME NEW c \in Client, Cut(c) PROVE PathInv'
  <2>1. PICK what \in TooLate : Answer(c, what)
    BY <1>7 DEF Cut, TooLate
  <2>2. what \in Done \ {"created"} /\ what \notin Errors
    BY DEF Done, TooLate, Errors
  <2> QED BY <1>7, <2>1, <2>2, AnswerKeeps DEF Cut
<1>8. ASSUME NEW h \in Handler, Serve(h) PROVE PathInv'
  BY <1>0, <1>8, ServeKeeps
<1>9. ASSUME NEW h \in Handler, CommitOrder(h) PROVE PathInv'
  BY <1>0, <1>9, CommitOrderKeeps
<1>10. CASE ServiceDies
  BY <1>0, <1>10, ServiceDiesKeeps
<1>11. CASE UNCHANGED pathVars
  BY <1>0, <1>11
  DEF pathVars, vars, PathInv, PathTypeOK, Is, Clean, NoneYet, Fresh, Waits, Stored,
      FreshHasNone, FreshAlone, OneOrderPerRequest
<1> QED BY <1>1, <1>2, <1>3, <1>4, <1>5, <1>6, <1>7, <1>8, <1>9, <1>10, <1>11
        DEF PathNext

--------------------------------------------------------------------------------
(* The strengthened invariant holds in every behaviour.                       *)
THEOREM PathSpecInv == PathSpec => []PathInv
  BY PathInitInv, PathNextKeeps, PTL DEF PathSpec

(* Requests, handlers and tables keep their types and bounds.                 *)
THEOREM SpecPathTypeOK == PathSpec => []PathTypeOK
<1>1. PathInv => PathTypeOK
  BY DEF PathInv
<1> QED BY <1>1, PathSpecInv, PTL

(* However often ServeHTTP tries a request, it makes one order at most in a   *)
(* life of the service.                                                       *)
THEOREM SpecOneOrderPerRequest == PathSpec => []OneOrderPerRequest
<1>1. PathInv => OneOrderPerRequest
  BY DEF PathInv
<1> QED BY <1>1, PathSpecInv, PTL

(* 400 and 503 mean that there is no order and will be none (a 503 that names *)
(* the deadline says nothing), 201 names an order for the client's key (what  *)
(* ServeHTTP answers, and when).                                              *)
THEOREM SpecErrorsMeanNoOrder == PathSpec => []ErrorsMeanNoOrder
<1>1. PathInv => ErrorsMeanNoOrder
  BY DEF PathInv, ErrorsMeanNoOrder, Settled, Clean, NoneYet
<1> QED BY <1>1, PathSpecInv, PTL

--------------------------------------------------------------------------------
(* A key that is sent again only after an answer is worth one order           *)

(* No answer to the key came too late.                                        *)
Prompt(k) == \A c \in Client : gw[c].at \in TooLate => gw[c].key # k

Kept(k) == k \in Sequential /\ Prompt(k)

(* A handler works for a request that waits for it, or has been cut off.      *)
Served ==
  \A h \in Handler : call[h].at \in Running =>
    LET c == serving[h]
    IN  /\ c \in Client /\ call[h].key = gw[c].key
        /\ gw[c].at \in TooLate \/ (Is(c, "waiting") /\ gw[c].handler = h)

OneAsks ==
  \A c, d \in Client :
    /\ gw[c].at \in UnderWay /\ gw[d].at \in UnderWay
    /\ gw[c].key = gw[d].key /\ gw[c].key \in Sequential
    => c = d

(* An order of this life for such a key is in the cache, or about to be, and  *)
(* a handler that is past the cache has found none.                           *)
KeptRemembered ==
  \A i \in DOMAIN orders :
    Kept(orders[i].key) /\ orders[i].life = crashes =>
      \/ orders[i].key \in DOMAIN entries
      \/ \E h \in Handler : call[h].at = "store" /\ call[h].key = orders[i].key

KeptUnspent ==
  \A h \in Handler :
    call[h].at \in Working /\ Kept(call[h].key) => Unspent(call[h].key)

OneKeptOrder ==
  \A i, j \in DOMAIN orders :
    /\ orders[i].key = orders[j].key /\ Kept(orders[i].key)
    /\ orders[i].life = orders[j].life
    => i = j

LEMMA OneKeptOrderIs == OneKeptOrder <=> OneOrderPerSettledKey
  BY DEF OneKeptOrder, OneOrderPerSettledKey, Kept, Prompt

(* OneKeptOrder needs all of it: the cache is asked before the work and       *)
(* filled after the commit, so between the two only the gateway's answer      *)
(* keeps a repetition away.                                                   *)
SettledInv ==
  /\ PathInv
  /\ Served
  /\ OneAsks
  /\ KeptRemembered
  /\ KeptUnspent
  /\ OneKeptOrder

(* An answer that came too late stays so; what is kept has been kept.         *)
LEMMA TooLateStays ==
  ASSUME PathInv, [PathNext]_pathVars
  PROVE  \A k : Kept(k)' => Kept(k)
<1>1. ASSUME NEW c \in Client, gw[c].at \in TooLate PROVE gw'[c] = gw[c]
  <2> USE DEF Is
  <2>1. gw[c].at \notin UnderWay \cup {"idle"} /\ gw \in [Client -> GwType]
    BY <1>1, PathTypes DEF TooLate, UnderWay
  <2>2. ASSUME NEW d \in Client, NEW k, NEW n, Ask(d, k, n) PROVE gw'[c] = gw[c]
    BY <2>1, <2>2 DEF Ask
  <2>3. ASSUME NEW d \in Client, NEW h, Attempt(d, h) PROVE gw'[c] = gw[c]
    BY <2>1, <2>3 DEF Attempt, UnderWay
  <2>4. ASSUME NEW d \in Client, Unavailable(d) \/ Relay(d) \/ Cut(d)
        PROVE  gw'[c] = gw[c]
    BY <2>1, <2>4 DEF Unavailable, Relay, Cut, Answer, UnderWay
  <2>5. ASSUME NEW d \in Client, Retry(d) \/ Disconnect(d) PROVE gw'[c] = gw[c]
    BY <2>1, <2>5 DEF Retry, Disconnect, NextAttempt, UnderWay
  <2>6. CASE UNCHANGED gw
    BY <2>6
  <2>7. CASE ServiceDies \/ UNCHANGED pathVars \/ \E h \in Handler : Serve(h) \/ CommitOrder(h)
    BY <2>6, <2>7 DEF ServiceDies, pathVars, Serve, CommitOrder
  <2> QED BY <2>2, <2>3, <2>4, <2>5, <2>7 DEF PathNext
<1> QED BY <1>1 DEF Kept, Prompt

(* Two handlers do not work for one such key.                                 *)
LEMMA OneWorks ==
  ASSUME SettledInv, NEW g \in Handler, NEW h \in Handler,
         call[g].at \in Running, call[h].at \in Running,
         call[g].key = call[h].key, Kept(call[h].key)
  PROVE  g = h
<1> DEFINE c == serving[g]
           d == serving[h]
<1>1. /\ c \in Client /\ gw[c].key = call[h].key
      /\ gw[c].at \in TooLate \/ (Is(c, "waiting") /\ gw[c].handler = g)
  BY DEF SettledInv, Served
<1>2. /\ d \in Client /\ gw[d].key = call[h].key
      /\ gw[d].at \in TooLate \/ (Is(d, "waiting") /\ gw[d].handler = h)
  BY DEF SettledInv, Served
<1>3. gw[c].at = "waiting" /\ gw[c].handler = g /\ gw[d].at = "waiting" /\ gw[d].handler = h
  BY <1>1, <1>2 DEF Kept, Prompt, Is
<1>4. c = d
  BY <1>1, <1>2, <1>3 DEF SettledInv, OneAsks, UnderWay, Kept
<1> QED BY <1>3, <1>4

LEMMA InitSettled == PathInit => SettledInv
<1> SUFFICES ASSUME PathInit PROVE SettledInv
  OBVIOUS
<1>1. PathInv
  BY PathInitInv
<1>2. DOMAIN orders = {} /\ \A h \in Handler : call[h].at = "idle"
  BY DEF PathInit, Init, Idle
<1>3. \A c \in Client : gw[c].at = "idle"
  BY DEF PathInit
<1>4. Served /\ KeptUnspent
  BY <1>2 DEF Served, KeptUnspent, Running, Working, Transaction
<1>5. OneAsks
  BY <1>3 DEF OneAsks, UnderWay
<1> QED BY <1>1, <1>2, <1>4, <1>5 DEF SettledInv, KeptRemembered, OneKeptOrder

(* A request moves in the gateway: if a handler still works for it, it has    *)
(* been cut off.                                                              *)
LEMMA GatewaySettles ==
  ASSUME SettledInv, PathInv', NEW c \in Client, UNCHANGED <<vars, history>>,
         \A k : Kept(k)' => Kept(k),
         \A d \in Client \ {c} : gw'[d] = gw[d],
         \A h \in Handler : call[h].at \in Running /\ serving[h] = c =>
                              gw'[c].at \in TooLate /\ gw'[c].key = gw[c].key,
         \A d \in Client \ {c} :
           ~(/\ gw'[c].at \in UnderWay /\ gw[d].at \in UnderWay
             /\ gw[d].key = gw'[c].key /\ gw[d].key \in Sequential)
  PROVE  SettledInv'
<1>1. /\ orders' = orders /\ serving' = serving /\ entries' = entries
      /\ call' = call /\ crashes' = crashes
  BY DEF vars, history
<1>2. Served'
  <2> SUFFICES ASSUME NEW h \in Handler, call[h].at \in Running
               PROVE  /\ serving[h] \in Client /\ call[h].key = gw'[serving[h]].key
                      /\ \/ gw'[serving[h]].at \in TooLate
                         \/ /\ gw'[serving[h]].at = "waiting"
                            /\ gw'[serving[h]].handler = h
    BY <1>1 DEF Served, Is
  <2>1. /\ serving[h] \in Client /\ call[h].key = gw[serving[h]].key
        /\ \/ gw[serving[h]].at \in TooLate
           \/ gw[serving[h]].at = "waiting" /\ gw[serving[h]].handler = h
    BY DEF SettledInv, Served, Is
  <2>2. CASE serving[h] = c
    BY <2>1, <2>2
  <2>3. CASE serving[h] # c
    BY <2>1, <2>3
  <2> QED BY <2>2, <2>3
<1>3. OneAsks'
  <2> SUFFICES ASSUME NEW a \in Client, NEW d \in Client,
                      gw'[a].at \in UnderWay, gw'[d].at \in UnderWay,
                      gw'[a].key = gw'[d].key, gw'[a].key \in Sequential
               PROVE  a = d
    BY DEF OneAsks
  <2>1. CASE a = c /\ d # c
    BY <2>1
  <2>2. CASE a # c /\ d = c
    BY <2>2
  <2>3. CASE a # c /\ d # c
    BY <2>3 DEF SettledInv, OneAsks
  <2> QED BY <2>1, <2>2, <2>3
<1>4. KeptRemembered' /\ KeptUnspent'
  BY <1>1 DEF SettledInv, KeptRemembered, KeptUnspent, Unspent
<1>5. OneKeptOrder'
  BY <1>1 DEF SettledInv, OneKeptOrder
<1> QED BY <1>2, <1>3, <1>4, <1>5 DEF SettledInv

(* Between two attempts no handler works for a request.                       *)
LEMMA NobodyWorks ==
  ASSUME SettledInv, NEW c \in Client, NEW h \in Handler,
         call[h].at \in Running, serving[h] = c
  PROVE  gw[c].at \in TooLate \/ (gw[c].at = "waiting" /\ gw[c].handler = h)
BY DEF SettledInv, Served, Is

LEMMA AskSettles ==
  ASSUME SettledInv, PathInv', \A k : Kept(k)' => Kept(k),
         NEW c \in Client, NEW k \in Key \cup {NoKey}, NEW n \in 0 .. MaxItems, Ask(c, k, n)
  PROVE  SettledInv'
<1>1. /\ gw[c].at = "idle" /\ gw'[c].key = k
      /\ \A d \in Client \ {c} : gw'[d] = gw[d]
      /\ k \in Sequential => \A d \in Client : gw[d].at \in UnderWay => gw[d].key # k
      /\ UNCHANGED <<vars, history>>
  BY PathTypes DEF SettledInv, Ask, Is, GwType
<1>2. \A h \in Handler : ~(call[h].at \in Running /\ serving[h] = c)
  BY <1>1, NobodyWorks DEF TooLate
<1>3. \A d \in Client \ {c} :
        ~(/\ gw'[c].at \in UnderWay /\ gw[d].at \in UnderWay
          /\ gw[d].key = gw'[c].key /\ gw[d].key \in Sequential)
  BY <1>1
<1> QED BY <1>1, <1>2, <1>3, GatewaySettles

(* A request under way is answered or goes on to its next attempt.            *)
LEMMA GoingOnSettles ==
  ASSUME SettledInv, PathInv', \A k : Kept(k)' => Kept(k), NEW c \in Client,
         Unavailable(c) \/ Relay(c) \/ Retry(c) \/ Disconnect(c) \/ Cut(c)
  PROVE  SettledInv'
<1>1. /\ gw[c].at \in UnderWay /\ gw'[c].key = gw[c].key
      /\ \A d \in Client \ {c} : gw'[d] = gw[d]
      /\ UNCHANGED <<vars, history>>
  BY PathTypes DEF SettledInv, Unavailable, Relay, Retry, Disconnect, Cut, Is, UnderWay,
                   Answer, NextAttempt, GwType
<1>2. ASSUME NEW h \in Handler, call[h].at \in Running, serving[h] = c
      PROVE  gw'[c].at \in TooLate
  <2>1. gw[c].at = "waiting" /\ gw[c].handler = h
    BY <1>1, <1>2, NobodyWorks DEF UnderWay, TooLate
  <2>2. call[h].at \notin {"created", "replayed", "refused", "failed"}
    BY <1>2 DEF Running, Transaction
  <2>3. ~(gw[c].life < crashes)
    BY <1>2, <2>1 DEF SettledInv, PathInv, Is, Waits
  <2>4. Cut(c)
    BY <2>1, <2>2, <2>3 DEF Unavailable, Relay, Retry, Disconnect, Is, At
  <2> QED BY <2>4, PathTypes DEF Cut, Answer, TooLate, SettledInv, GwType
<1>3. ASSUME NEW d \in Client \ {c}, gw[d].at \in UnderWay, gw[d].key = gw'[c].key
      PROVE  gw[d].key \notin Sequential
  BY <1>1, <1>3 DEF SettledInv, OneAsks
<1> QED BY <1>1, <1>2, <1>3, GatewaySettles

LEMMA AttemptSettles ==
  ASSUME SettledInv, PathInv', \A k : Kept(k)' => Kept(k),
         NEW c \in Client, NEW h \in Handler, Attempt(c, h)
  PROVE  SettledInv'
<1>1. /\ gw[c].at = "pick" /\ gw'[c].at = "waiting" /\ gw'[c].handler = h
      /\ gw'[c].key = gw[c].key
      /\ \A d \in Client \ {c} : gw'[d] = gw[d]
      /\ serving'[h] = c /\ \A g \in Handler \ {h} : serving'[g] = serving[g]
  BY PathTypes DEF SettledInv, Attempt, Is, GwType
<1>2. /\ orders' = orders /\ crashes' = crashes /\ entries' = entries
      /\ call[h].at \notin Running
      /\ call'[h].at = "lookup" /\ call'[h].key = gw[c].key
      /\ \A g \in Handler : g # h => call'[g] = call[g]
  BY PathTypes DEF SettledInv, Attempt, Receive, Tables
<1>3. ASSUME NEW g \in Handler, call'[g].at \in Running
      PROVE  /\ serving'[g] \in Client /\ call'[g].key = gw'[serving'[g]].key
             /\ \/ gw'[serving'[g]].at \in TooLate
                \/ gw'[serving'[g]].at = "waiting" /\ gw'[serving'[g]].handler = g
  <2>1. CASE g = h
    BY <1>1, <1>2, <2>1
  <2>2. CASE g # h
    <3>1. /\ serving[g] \in Client /\ call[g].key = gw[serving[g]].key
          /\ \/ gw[serving[g]].at \in TooLate
             \/ gw[serving[g]].at = "waiting" /\ gw[serving[g]].handler = g
      BY <1>2, <1>3, <2>2 DEF SettledInv, Served, Is
    <3>2. serving[g] # c
      BY <1>1, <3>1 DEF TooLate
    <3> QED BY <1>1, <1>2, <2>2, <3>1, <3>2
  <2> QED BY <2>1, <2>2
<1>4. Served'
  BY <1>3 DEF Served, Is
<1>5. OneAsks'
  <2>1. \A d \in Client : /\ gw'[d].at \in UnderWay => gw[d].at \in UnderWay
                          /\ gw'[d].key = gw[d].key
    BY <1>1 DEF UnderWay
  <2> QED BY <2>1 DEF SettledInv, OneAsks
<1>6. KeptRemembered'
  <2>1. \A g \in Handler : call[g].at = "store" => g # h
    BY <1>2 DEF Running
  <2> QED BY <1>2, <2>1 DEF SettledInv, KeptRemembered
<1>7. KeptUnspent'
  <2>1. \A g \in Handler : call'[g].at \in Working => g # h
    BY <1>2 DEF Working, Transaction
  <2> QED BY <1>2, <2>1 DEF SettledInv, KeptUnspent, Unspent
<1>8. OneKeptOrder'
  BY <1>2 DEF SettledInv, OneKeptOrder
<1> QED BY <1>4, <1>5, <1>6, <1>7, <1>8 DEF SettledInv

(* What a running handler does to the rest of the invariant.                  *)
LEMMA RunningSettles ==
  ASSUME SettledInv, NEW h \in Handler, UNCHANGED <<gw, serving>>,
         call[h].at \in Running, call'[h].key = call[h].key,
         \A g \in Handler : g # h => call'[g] = call[g]
  PROVE  Served' /\ OneAsks'
<1>1. \A g \in Handler : call'[g].at \in Running =>
        call[g].at \in Running /\ call'[g].key = call[g].key
  OBVIOUS
<1> QED BY <1>1 DEF SettledInv, Served, OneAsks, Is

LEMMA ServeSettles ==
  ASSUME SettledInv, PathInv', \A k : Kept(k)' => Kept(k),
         NEW h \in Handler, Serve(h)
  PROVE  SettledInv'
<1>1. /\ call[h].at \in Running /\ call'[h].key = call[h].key
      /\ \A g \in Handler : g # h => call'[g] = call[g]
      /\ orders' = orders /\ crashes' = crashes
  BY ServeMoves DEF SettledInv
<1>2. Served' /\ OneAsks'
  BY <1>1, RunningSettles DEF Serve, history
<1>3. /\ DOMAIN entries \subseteq DOMAIN entries'
      /\ call[h].at = "store" => call[h].key \in DOMAIN entries'
  BY DEF Serve, Replay, Miss, FetchPrice, Insert, InsertItem, CommitFails, Store, At
<1>4. KeptRemembered'
  <2> SUFFICES ASSUME NEW i \in DOMAIN orders, Kept(orders[i].key), orders[i].life = crashes,
                      orders[i].key \notin DOMAIN entries'
               PROVE  \E g \in Handler :
                        call'[g].at = "store" /\ call'[g].key = orders[i].key
    BY <1>1 DEF KeptRemembered
  <2>1. PICK g \in Handler : call[g].at = "store" /\ call[g].key = orders[i].key
    BY <1>3 DEF SettledInv, KeptRemembered
  <2>2. g # h
    BY <1>3, <2>1
  <2> QED BY <1>1, <2>1, <2>2
<1>5. ASSUME Miss(h), Kept(call[h].key)
      PROVE  Unspent(call[h].key)
  <2> SUFFICES ASSUME NEW i \in DOMAIN orders, orders[i].key = call[h].key,
                      orders[i].life = crashes
               PROVE  FALSE
    BY DEF Unspent
  <2>1. PICK g \in Handler : call[g].at = "store" /\ call[g].key = call[h].key
    BY <1>5 DEF SettledInv, KeptRemembered, Miss
  <2>2. call[h].at = "lookup"
    BY <1>5 DEF Miss, At
  <2>3. g = h
    BY <1>5, <2>1, <2>2, OneWorks DEF Running
  <2> QED BY <2>1, <2>2, <2>3
<1>6. call'[h].at \in Working => call[h].at \in Working \/ Miss(h)
  BY PathTypes
  DEF SettledInv, Serve, Replay, FetchPrice, Insert, InsertItem, CommitFails, Store, At, Go,
      Working, Transaction, CallType
<1>7. KeptUnspent'
  BY <1>1, <1>5, <1>6 DEF SettledInv, KeptUnspent, Unspent
<1>8. OneKeptOrder'
  BY <1>1 DEF SettledInv, OneKeptOrder
<1> QED BY <1>2, <1>4, <1>7, <1>8 DEF SettledInv

LEMMA CommitSettles ==
  ASSUME SettledInv, PathInv', \A k : Kept(k)' => Kept(k),
         NEW h \in Handler, CommitOrder(h)
  PROVE  SettledInv'
<1> DEFINE new == Len(orders')
<1>1. /\ DOMAIN orders' = DOMAIN orders \cup {new}
      /\ \A i \in DOMAIN orders : orders'[i] = orders[i]
      /\ orders'[new].key = call[h].key /\ orders'[new].life = crashes
      /\ crashes' = crashes /\ entries' = entries
  BY CommitAppends DEF SettledInv, PathInv, CommitOrder, Commit
<1>2. /\ call[h].at = "commit" /\ call[h].at \in Running /\ call[h].at \in Working
      /\ call'[h].key = call[h].key
      /\ call[h].key # NoKey => call'[h].at = "store"
      /\ call'[h].at \notin Working
      /\ \A g \in Handler : g # h => call'[g] = call[g]
  BY PathTypes DEF SettledInv, CommitOrder, Commit, At, CallType, Running, Working, Transaction
<1>3. Served' /\ OneAsks'
  BY <1>2, RunningSettles DEF CommitOrder
<1>4. \A k : Kept(k) => k # NoKey
  BY PathAssumption, OrderAssumption DEF Kept
<1>5. KeptRemembered'
  <2> SUFFICES ASSUME NEW i \in DOMAIN orders', Kept(orders'[i].key),
                      orders'[i].life = crashes, orders'[i].key \notin DOMAIN entries
               PROVE  \E g \in Handler :
                        call'[g].at = "store" /\ call'[g].key = orders'[i].key
    BY <1>1 DEF KeptRemembered
  <2>1. CASE i = new
    BY <1>1, <1>2, <1>4, <2>1
  <2>2. CASE i \in DOMAIN orders
    <3>1. PICK g \in Handler : call[g].at = "store" /\ call[g].key = orders[i].key
      BY <1>1, <2>2 DEF SettledInv, KeptRemembered
    <3> QED BY <1>1, <1>2, <2>2, <3>1
  <2> QED BY <1>1, <2>1, <2>2
<1>6. KeptUnspent'
  <2> SUFFICES ASSUME NEW g \in Handler, call'[g].at \in Working, Kept(call'[g].key),
                      NEW i \in DOMAIN orders', orders'[i].key = call'[g].key
               PROVE  orders'[i].life # crashes
    BY <1>1 DEF KeptUnspent, Unspent
  <2>1. g # h /\ call'[g] = call[g] /\ call[g].at \in Running
    BY <1>2 DEF Working, Running
  <2>2. call[g].key # call[h].key
    BY <1>2, <2>1, OneWorks
  <2>3. i \in DOMAIN orders
    BY <1>1, <2>1, <2>2
  <2> QED BY <1>1, <2>1, <2>3 DEF SettledInv, KeptUnspent, Unspent
<1>7. OneKeptOrder'
  <2> SUFFICES ASSUME NEW i \in DOMAIN orders', NEW j \in DOMAIN orders',
                      orders'[i].key = orders'[j].key, Kept(orders'[i].key),
                      orders'[i].life = orders'[j].life
               PROVE  i = j
    BY DEF OneKeptOrder
  <2>1. Kept(call[h].key) =>
          \A x \in DOMAIN orders : orders[x].key = call[h].key => orders[x].life # crashes
    BY <1>2 DEF SettledInv, KeptUnspent, Unspent
  <2>2. CASE i \in DOMAIN orders /\ j \in DOMAIN orders
    BY <1>1, <2>2 DEF SettledInv, OneKeptOrder
  <2>3. CASE i = new /\ j \in DOMAIN orders
    BY <1>1, <2>1, <2>3
  <2>4. CASE i \in DOMAIN orders /\ j = new
    BY <1>1, <2>1, <2>4
  <2> QED BY <1>1, <2>2, <2>3, <2>4
<1> QED BY <1>3, <1>5, <1>6, <1>7 DEF SettledInv

LEMMA DyingSettles ==
  ASSUME SettledInv, PathInv', \A k : Kept(k)' => Kept(k), ServiceDies
  PROVE  SettledInv'
<1>1. /\ gw' = gw /\ orders' = orders /\ crashes' = crashes + 1
      /\ call' = [h \in Handler |-> IF call[h].at \in Running THEN Idle ELSE call[h]]
  BY DEF ServiceDies, CrashAndRestart, history, Tables
<1>2. \A h \in Handler : call'[h].at \notin Running
  BY <1>1 DEF Idle, Running, Transaction
<1>3. Served' /\ KeptUnspent'
  BY <1>2 DEF Served, KeptUnspent, Running, Working
<1>4. OneAsks'
  BY <1>1 DEF SettledInv, OneAsks
<1>5. KeptRemembered'
  <2>1. \A i \in DOMAIN orders : orders[i].life \in Nat /\ orders[i].life <= crashes
    BY PathTypes DEF SettledInv, PathInv, IInv, LivesSoFar
  <2>2. crashes \in Nat
    BY PathTypes DEF SettledInv
  <2>3. \A i \in DOMAIN orders : orders[i].life # crashes + 1
    BY <2>1, <2>2
  <2> QED BY <1>1, <2>3 DEF KeptRemembered
<1>6. OneKeptOrder'
  BY <1>1 DEF SettledInv, OneKeptOrder
<1> QED BY <1>3, <1>4, <1>5, <1>6 DEF SettledInv

LEMMA NextSettles == SettledInv /\ [PathNext]_pathVars => SettledInv'
<1> SUFFICES ASSUME SettledInv, [PathNext]_pathVars PROVE SettledInv'
  OBVIOUS
<1>1. PathInv' /\ \A k : Kept(k)' => Kept(k)
  BY PathNextKeeps, TooLateStays DEF SettledInv
<1>2. ASSUME NEW c \in Client, NEW k \in Key \cup {NoKey}, NEW n \in 0 .. MaxItems,
             Ask(c, k, n)
      PROVE  SettledInv'
  BY <1>1, <1>2, AskSettles
<1>3. ASSUME NEW c \in Client, NEW h \in Handler, Attempt(c, h) PROVE SettledInv'
  BY <1>1, <1>3, AttemptSettles
<1>4. ASSUME NEW c \in Client,
             Unavailable(c) \/ Relay(c) \/ Retry(c) \/ Disconnect(c) \/ Cut(c)
      PROVE  SettledInv'
  BY <1>1, <1>4, GoingOnSettles
<1>5. ASSUME NEW h \in Handler, Serve(h) PROVE SettledInv'
  BY <1>1, <1>5, ServeSettles
<1>6. ASSUME NEW h \in Handler, CommitOrder(h) PROVE SettledInv'
  BY <1>1, <1>6, CommitSettles
<1>7. CASE ServiceDies
  BY <1>1, <1>7, DyingSettles
<1>8. CASE UNCHANGED pathVars
  <2>1. OneKeptOrder'
    BY <1>1, <1>8 DEF pathVars, vars, SettledInv, OneKeptOrder
  <2>2. Served' /\ OneAsks' /\ KeptRemembered' /\ KeptUnspent'
    BY <1>1, <1>8 DEF pathVars, vars, SettledInv, Served, OneAsks, KeptRemembered,
                      KeptUnspent, Unspent, Is
  <2> QED BY <1>1, <2>1, <2>2 DEF SettledInv
<1> QED BY <1>2, <1>3, <1>4, <1>5, <1>6, <1>7, <1>8 DEF PathNext

(* For a script that waits for its answers a key is worth one order while the *)
(* service stays up and no answer came too late, through retries, cut-offs of *)
(* others and crashes (ServeHTTP over handleCreate and globalIdem).           *)
THEOREM SpecOneOrderPerSettledKey == PathSpec => []OneOrderPerSettledKey
<1>1. PathSpec => []SettledInv
  BY InitSettled, NextSettles, PTL DEF PathSpec
<1>2. SettledInv => OneOrderPerSettledKey
  BY OneKeptOrderIs DEF SettledInv
<1> QED BY <1>1, <1>2, PTL

================================================================================
