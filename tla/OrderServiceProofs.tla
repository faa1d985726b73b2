--------------------------- MODULE OrderServiceProofs --------------------------
(******************************************************************************)
(* The safety of OrderService for every set of handlers and keys, whichever   *)
(* clients are patient, and any number of items, orders and crashes.          *)
(******************************************************************************)
EXTENDS OrderService, TLAPS

(* The keys for which the cache is claimed to work.                           *)
Steady == Patient \ Expiring

(* A handler that is past the cache and has not committed.                    *)
Working == {"fetch", "begin"} \cup Transaction

CallType ==
  [at : {"idle"} \cup Running \cup Answered, key : Key \cup {NoKey},
   n : 0 .. MaxItems, done : 0 .. MaxItems, order : 0 .. MaxOrders]

(* No order of this life of the service has key k.                            *)
Unspent(k) ==
  \A i \in DOMAIN orders : orders[i].key = k => orders[i].life # crashes

(* What holds of every handler on its own: it commits when all its items are  *)
(* in, it is not empty-handed, there is room for its order, what it answers   *)
(* is in the database, and it works only for keys that are still unspent.     *)
Sound(c) ==
  /\ c.at = "commit" => c.done = c.n
  /\ c.at \in Working => c.n # 0
  /\ c.at \in Transaction => Len(orders) < MaxOrders
  /\ c.at = "store" => c.key # NoKey
  /\ c.at \in {"store", "created", "replayed"} => Stored(c.order, c.key)
  /\ c.at \in Working /\ c.key \in Steady => Unspent(c.key)

OneWriter ==
  \A g, h \in Handler :
    call[g].at \in Transaction /\ call[h].at \in Transaction => g = h

PatientAlone ==
  \A g, h \in Handler :
    /\ call[g].at \in Running /\ call[h].at \in Running
    /\ call[g].key = call[h].key /\ call[g].key \in Patient
    => g = h

LivesSoFar == \A i \in DOMAIN orders : orders[i].life <= crashes

(* An order of this life is in the cache, or is on its way there.             *)
Remembered ==
  \A i \in DOMAIN orders :
    orders[i].key \in Steady /\ orders[i].life = crashes =>
      \/ orders[i].key \in DOMAIN entries
      \/ \E h \in Handler : call[h].at = "store" /\ call[h].key = orders[i].key

EntriesStored == \A k \in DOMAIN entries : Stored(entries[k], k)

IInv ==
  /\ TypeOK
  /\ WholeOrders
  /\ EntriesStored
  /\ OneOrderWhileUp
  /\ \A h \in Handler : Sound(call[h])
  /\ OneWriter
  /\ PatientAlone
  /\ LivesSoFar
  /\ Remembered

--------------------------------------------------------------------------------
LEMMA InitIInv == Init => IInv
<1> SUFFICES ASSUME Init PROVE IInv
  OBVIOUS
<1>1. /\ orders = <<>> /\ rows = <<>> /\ DOMAIN orders = {} /\ Len(orders) = 0
      /\ DOMAIN entries = {} /\ crashes = 0
  BY DEF Init
<1>2. \A h \in Handler : call[h] = Idle
  BY DEF Init
<1>3. Idle \in CallType
  BY OrderAssumption DEF Idle, CallType, NoOrder
<1>4. TypeOK
  BY <1>1, <1>3, OrderAssumption DEF Init, TypeOK, CallType
<1>5. \A h \in Handler : call[h].at = "idle"
  <2>1. Idle.at = "idle"
    BY DEF Idle
  <2> QED BY <1>2, <2>1
<1>6. \A h \in Handler : Sound(call[h])
  BY <1>5 DEF Sound, Working, Transaction
<1>7. OneWriter /\ PatientAlone
  BY <1>5 DEF OneWriter, PatientAlone, Transaction, Running
<1>8. WholeOrders /\ EntriesStored /\ OneOrderWhileUp /\ LivesSoFar /\ Remembered
  BY <1>1 DEF WholeOrders, EntriesStored, OneOrderWhileUp, LivesSoFar, Remembered
<1> QED BY <1>4, <1>6, <1>7, <1>8 DEF IInv

(* A step in which one handler moves and nothing else changes.                *)
Moves(h) ==
  /\ call' = [call EXCEPT ![h] = call'[h]]
  /\ call'[h] \in CallType
  /\ UNCHANGED <<Tables, entries, crashes>>

LEMMA MoveKeeps ==
  ASSUME IInv, NEW h \in Handler, Moves(h),
         call[h].at # "store",
         Sound(call[h])',
         call'[h].at \in Transaction =>
           \A g \in Handler \ {h} : call[g].at \notin Transaction,
         call'[h].at \in Running /\ call'[h].key \in Patient =>
           \A g \in Handler \ {h} : ~(call[g].at \in Running /\ call[g].key = call'[h].key)
  PROVE  IInv'
<1>1. /\ orders' = orders /\ rows' = rows /\ entries' = entries /\ crashes' = crashes
      /\ \A g \in Handler \ {h} : call'[g] = call[g]
      /\ call \in [Handler -> CallType]
  BY DEF Moves, Tables, IInv, TypeOK, CallType
<1>2. call' \in [Handler -> CallType]
  BY <1>1 DEF Moves
<1>3. TypeOK'
  BY <1>1, <1>2 DEF IInv, TypeOK, CallType
<1>4. \A g \in Handler : Sound(call[g])'
  <2> SUFFICES ASSUME NEW g \in Handler \ {h} PROVE Sound(call[g])'
    OBVIOUS
  <2> QED BY <1>1 DEF IInv, Sound, Stored, Unspent
<1>5. OneWriter'
  BY <1>1 DEF IInv, OneWriter
<1>6. PatientAlone'
  BY <1>1 DEF IInv, PatientAlone
<1>7. Remembered'
  BY <1>1 DEF IInv, Remembered
<1>8. (WholeOrders /\ EntriesStored /\ OneOrderWhileUp /\ LivesSoFar)'
  BY <1>1 DEF IInv, WholeOrders, EntriesStored, Stored, OneOrderWhileUp, LivesSoFar
<1> QED BY <1>3, <1>4, <1>5, <1>6, <1>7, <1>8 DEF IInv

(* ... to another position, with its locals unchanged.                        *)
LEMMA GoMoves ==
  ASSUME TypeOK, NEW h \in Handler, NEW where \in Running \cup Answered,
         Go(h, where), UNCHANGED <<Tables, entries, crashes>>
  PROVE  /\ Moves(h)
         /\ call'[h].at = where
         /\ call'[h].key = call[h].key
         /\ call'[h].n = call[h].n
         /\ call'[h].done = call[h].done
         /\ call'[h].order = call[h].order
<1>1. call \in [Handler -> CallType]
  BY DEF TypeOK, CallType
<1>2. call'[h] = [call[h] EXCEPT !.at = where]
  BY <1>1 DEF Go
<1>3. /\ call'[h].at = where
      /\ call'[h].key = call[h].key
      /\ call'[h].n = call[h].n
      /\ call'[h].done = call[h].done
      /\ call'[h].order = call[h].order
  BY <1>1, <1>2 DEF CallType
<1>4. call'[h] \in CallType
  BY <1>1, <1>2 DEF CallType
<1> QED BY <1>1, <1>3, <1>4 DEF Moves, Go

--------------------------------------------------------------------------------
(* The steps before the commit *)

LEMMA ReceiveKeeps ==
  ASSUME IInv, NEW h \in Handler, NEW k \in Key \cup {NoKey}, NEW n \in 0 .. MaxItems,
         Receive(h, k, n)
  PROVE  IInv'
<1>1. call \in [Handler -> CallType]
  BY DEF IInv, TypeOK, CallType
<1>2. call'[h] = [at |-> "lookup", key |-> k, n |-> n, done |-> 0, order |-> NoOrder]
  BY <1>1 DEF Receive
<1>3. call'[h] \in CallType
  BY <1>2, OrderAssumption DEF CallType, Running, NoOrder
<1>4. Moves(h)
  BY <1>1, <1>2, <1>3 DEF Receive, Moves
<1>5. Sound(call[h])'
  BY <1>2 DEF Sound, Working, Transaction
<1>6. call[h].at # "store"
  BY DEF Receive, Running
<1>7. k \in Patient => \A g \in Handler : call[g].at \in Running => call[g].key # k
  BY DEF Receive
<1>8. call'[h].at = "lookup" /\ call'[h].key = k
  BY <1>2
<1> QED BY <1>4, <1>5, <1>6, <1>7, <1>8, MoveKeeps DEF Transaction

LEMMA ReplayKeeps ==
  ASSUME IInv, NEW h \in Handler, Replay(h)
  PROVE  IInv'
<1>1. call \in [Handler -> CallType]
  BY DEF IInv, TypeOK, CallType
<1>2. call'[h] = [call[h] EXCEPT !.at = "replayed", !.order = entries[call[h].key]]
  BY <1>1 DEF Replay
<1>3. /\ call'[h].at = "replayed" /\ call'[h].key = call[h].key
      /\ call'[h].order = entries[call[h].key]
  BY <1>1, <1>2 DEF CallType
<1>4. /\ entries[call[h].key] \in 0 .. MaxOrders
      /\ Stored(entries[call[h].key], call[h].key)
  BY OrderAssumption DEF IInv, TypeOK, EntriesStored, Replay
<1>5. call'[h] \in CallType
  BY <1>1, <1>2, <1>4 DEF CallType, Answered
<1>6. Moves(h)
  BY <1>1, <1>2, <1>5 DEF Replay, Moves
<1>7. Sound(call[h])'
  BY <1>3, <1>4 DEF Sound, Working, Transaction, Stored, Replay, Tables
<1>8. call[h].at # "store"
  BY DEF Replay, At
<1> QED BY <1>3, <1>6, <1>7, <1>8, MoveKeeps DEF Transaction, Running

(* A steady key that is not in the cache is unspent: an order on its way      *)
(* there would belong to another running handler.                             *)
LEMMA MissIsUnspent ==
  ASSUME IInv, NEW h \in Handler, Miss(h), call[h].key \in Steady
  PROVE  Unspent(call[h].key)
<1> SUFFICES ASSUME NEW i \in DOMAIN orders, orders[i].key = call[h].key,
                    orders[i].life = crashes
             PROVE  FALSE
  BY DEF Unspent
<1>1. PICK g \in Handler : call[g].at = "store" /\ call[g].key = call[h].key
  BY DEF IInv, Remembered, Miss
<1>2. call[h].at = "lookup"
  BY DEF Miss, At
<1>3. g = h
  BY <1>1, <1>2 DEF IInv, PatientAlone, Running, Steady
<1> QED BY <1>1, <1>2, <1>3

LEMMA MissKeeps ==
  ASSUME IInv, NEW h \in Handler, Miss(h)
  PROVE  IInv'
<1>1. TypeOK /\ call[h].at = "lookup" /\ UNCHANGED <<Tables, entries, crashes>>
  BY DEF IInv, Miss, At
<1>2. CASE call[h].n = 0
  <2>1. Go(h, "refused")
    BY <1>2 DEF Miss
  <2>2. Moves(h) /\ call'[h].at = "refused"
    BY <1>1, <2>1, GoMoves DEF Answered
  <2>3. Sound(call[h])'
    BY <2>2 DEF Sound, Working, Transaction
  <2> QED BY <1>1, <2>2, <2>3, MoveKeeps DEF Transaction, Running
<1>3. CASE call[h].n # 0
  <2>1. Go(h, "fetch")
    BY <1>3 DEF Miss
  <2>2. /\ Moves(h) /\ call'[h].at = "fetch"
        /\ call'[h].key = call[h].key /\ call'[h].n = call[h].n
    BY <1>1, <2>1, GoMoves DEF Running
  <2>3. call[h].key \in Steady => Unspent(call[h].key)
    BY MissIsUnspent
  <2>4. Sound(call[h])'
    BY <1>1, <1>3, <2>2, <2>3 DEF Sound, Transaction, Unspent, Tables
  <2>5. call[h].key \in Patient =>
          \A g \in Handler \ {h} : ~(call[g].at \in Running /\ call[g].key = call[h].key)
    BY <1>1 DEF IInv, PatientAlone, Running
  <2> QED BY <1>1, <2>2, <2>4, <2>5, MoveKeeps DEF Transaction
<1> QED BY <1>2, <1>3

(* A handler goes on with its order, or gives it up.                          *)
LEMMA WorkKeeps ==
  ASSUME IInv, NEW h \in Handler, Moves(h),
         call[h].at \in Working, call'[h].at \in Working \cup {"failed"},
         call'[h].key = call[h].key, call'[h].n = call[h].n,
         call'[h].at \in Transaction =>
           /\ Len(orders) < MaxOrders
           /\ \A g \in Handler \ {h} : call[g].at \notin Transaction,
         call'[h].at = "commit" => call'[h].done = call'[h].n
  PROVE  IInv'
<1>1. call[h].n # 0 /\ (call[h].key \in Steady => Unspent(call[h].key))
  BY DEF IInv, Sound
<1>2. UNCHANGED <<orders, crashes>>
  BY DEF Moves, Tables
<1>3. Sound(call[h])'
  BY <1>1, <1>2 DEF Sound, Working, Transaction, Unspent
<1>4. call[h].at \in Running /\ call[h].at # "store"
  BY DEF Working, Running, Transaction
<1>5. call[h].key \in Patient =>
        \A g \in Handler \ {h} : ~(call[g].at \in Running /\ call[g].key = call[h].key)
  BY <1>4 DEF IInv, PatientAlone
<1> QED BY <1>3, <1>4, <1>5, MoveKeeps

(* One more item is priced, or inserted.                                      *)
LEMMA OneMore ==
  ASSUME TypeOK, NEW h \in Handler, call[h].done < call[h].n,
         call' = [call EXCEPT ![h].done = @ + 1],
         UNCHANGED <<Tables, entries, crashes>>
  PROVE  /\ Moves(h)
         /\ call'[h].at = call[h].at
         /\ call'[h].key = call[h].key
         /\ call'[h].n = call[h].n
<1>1. call \in [Handler -> CallType]
  BY DEF TypeOK, CallType
<1>2. call'[h] = [call[h] EXCEPT !.done = @ + 1]
  BY <1>1
<1>3. /\ call'[h].at = call[h].at
      /\ call'[h].key = call[h].key
      /\ call'[h].n = call[h].n
  BY <1>1, <1>2 DEF CallType
<1>4. call[h].done + 1 \in 0 .. MaxItems
  BY <1>1, OrderAssumption DEF CallType
<1>5. call'[h] \in CallType
  BY <1>1, <1>2, <1>4 DEF CallType
<1> QED BY <1>1, <1>2, <1>3, <1>5 DEF Moves

(* Giving up: the 4xx and 5xx answers of handleCreate.                        *)
LEMMA GiveUpKeeps ==
  ASSUME IInv, NEW h \in Handler, call[h].at \in Working, Go(h, "failed"),
         UNCHANGED <<Tables, entries, crashes>>
  PROVE  IInv'
<1>1. TypeOK
  BY DEF IInv
<1>2. /\ Moves(h) /\ call'[h].at = "failed"
      /\ call'[h].key = call[h].key /\ call'[h].n = call[h].n
  BY <1>1, GoMoves DEF Answered
<1> QED BY <1>2, WorkKeeps DEF Transaction

LEMMA FetchPriceKeeps ==
  ASSUME IInv, NEW h \in Handler, FetchPrice(h)
  PROVE  IInv'
<1>1. /\ TypeOK /\ call[h].at = "fetch" /\ call[h].at \in Working
      /\ UNCHANGED <<Tables, entries, crashes>>
  BY DEF IInv, FetchPrice, At, Working
<1>2. ASSUME call[h].done < call[h].n, call' = [call EXCEPT ![h].done = @ + 1]
      PROVE  IInv'
  <2>1. /\ Moves(h) /\ call'[h].at = "fetch"
        /\ call'[h].key = call[h].key /\ call'[h].n = call[h].n
    BY <1>1, <1>2, OneMore
  <2> QED BY <1>1, <2>1, WorkKeeps DEF Working, Transaction
<1>3. CASE Go(h, "failed")
  BY <1>1, <1>3, GiveUpKeeps
<1>4. ASSUME call' = [call EXCEPT ![h].at = "begin", ![h].done = 0]
      PROVE  IInv'
  <2>1. call \in [Handler -> CallType]
    BY <1>1 DEF TypeOK, CallType
  <2>2. call'[h] = [call[h] EXCEPT !.at = "begin", !.done = 0]
    BY <1>4, <2>1
  <2>3. /\ call'[h].at = "begin"
        /\ call'[h].key = call[h].key /\ call'[h].n = call[h].n
    BY <2>1, <2>2 DEF CallType
  <2>4. 0 \in 0 .. MaxItems /\ "begin" \in Running
    BY OrderAssumption DEF Running
  <2>5. call'[h] \in CallType
    BY <2>1, <2>2, <2>4 DEF CallType
  <2>6. Moves(h)
    BY <1>1, <1>4, <2>1, <2>2, <2>5 DEF Moves
  <2> QED BY <1>1, <2>3, <2>6, WorkKeeps DEF Working, Transaction
<1> QED BY <1>2, <1>3, <1>4 DEF FetchPrice

LEMMA InsertKeeps ==
  ASSUME IInv, NEW h \in Handler, Insert(h)
  PROVE  IInv'
<1>1. /\ TypeOK /\ call[h].at = "begin" /\ call[h].at \in Working
      /\ UNCHANGED <<Tables, entries, crashes>>
  BY DEF IInv, Insert, At, Working
<1>2. ASSUME \A g \in Handler : call[g].at \notin Transaction,
             Len(orders) < MaxOrders, Go(h, "insert")
      PROVE  IInv'
  <2>1. /\ Moves(h) /\ call'[h].at = "insert"
        /\ call'[h].key = call[h].key /\ call'[h].n = call[h].n
    BY <1>1, <1>2, GoMoves DEF Running, Transaction
  <2> QED BY <1>1, <1>2, <2>1, WorkKeeps DEF Working, Transaction
<1>3. CASE Go(h, "failed")
  BY <1>1, <1>3, GiveUpKeeps
<1> QED BY <1>2, <1>3 DEF Insert

LEMMA InsertItemKeeps ==
  ASSUME IInv, NEW h \in Handler, InsertItem(h)
  PROVE  IInv'
<1>1. /\ TypeOK /\ call[h].at = "insert" /\ call[h].at \in Working
      /\ call[h].at \in Transaction /\ UNCHANGED <<Tables, entries, crashes>>
  BY DEF IInv, InsertItem, At, Working, Transaction
<1>2. /\ Len(orders) < MaxOrders
      /\ \A g \in Handler \ {h} : call[g].at \notin Transaction
  BY <1>1 DEF IInv, Sound, OneWriter
<1>3. ASSUME call[h].done < call[h].n, call' = [call EXCEPT ![h].done = @ + 1]
      PROVE  IInv'
  <2>1. /\ Moves(h) /\ call'[h].at = "insert"
        /\ call'[h].key = call[h].key /\ call'[h].n = call[h].n
    BY <1>1, <1>3, OneMore
  <2> QED BY <1>1, <1>2, <2>1, WorkKeeps DEF Working
<1>4. CASE Go(h, "failed")
  BY <1>1, <1>4, GiveUpKeeps
<1>5. ASSUME call[h].done = call[h].n, Go(h, "commit")
      PROVE  IInv'
  <2>1. /\ Moves(h) /\ call'[h].at = "commit" /\ call'[h].done = call[h].done
        /\ call'[h].key = call[h].key /\ call'[h].n = call[h].n
    BY <1>1, <1>5, GoMoves DEF Running, Transaction
  <2> QED BY <1>1, <1>2, <1>5, <2>1, WorkKeeps DEF Working, Transaction
<1> QED BY <1>3, <1>4, <1>5 DEF InsertItem

LEMMA CommitFailsKeeps ==
  ASSUME IInv, NEW h \in Handler, CommitFails(h)
  PROVE  IInv'
  BY GiveUpKeeps DEF CommitFails, At, Working, Transaction

--------------------------------------------------------------------------------
(* The commit *)

LEMMA CommitAppends ==
  ASSUME IInv, NEW h \in Handler, Commit(h)
  PROVE  /\ Len(orders') = Len(orders) + 1 /\ Len(rows') = Len(rows) + 1
         /\ DOMAIN orders' = DOMAIN orders \cup {Len(orders')}
         /\ \A i \in DOMAIN orders : orders'[i] = orders[i] /\ rows'[i] = rows[i]
         /\ orders'[Len(orders')].key = call[h].key
         /\ orders'[Len(orders')].n = call[h].n
         /\ orders'[Len(orders')].life = crashes
         /\ rows'[Len(orders')] = call[h].done
         /\ Len(orders') \notin DOMAIN orders
         /\ orders' \in Seq([key : Key \cup {NoKey}, n : 1 .. MaxItems,
                             life : 0 .. MaxCrashes])
         /\ rows' \in Seq(0 .. MaxItems)
<1> DEFINE Order == [key : Key \cup {NoKey}, n : 1 .. MaxItems, life : 0 .. MaxCrashes]
           o == [key |-> call[h].key, n |-> call[h].n, life |-> crashes]
<1>1. /\ orders \in Seq(Order) /\ rows \in Seq(0 .. MaxItems)
      /\ Len(rows) = Len(orders)
      /\ call[h] \in CallType /\ crashes \in 0 .. MaxCrashes
  BY DEF IInv, TypeOK, CallType
<1>2. call[h].n # 0 /\ call[h].at = "commit"
  BY DEF IInv, Sound, Commit, At, Working, Transaction
<1>3. o \in Order /\ call[h].done \in 0 .. MaxItems
  BY <1>1, <1>2, OrderAssumption DEF CallType
<1>4. orders' = Append(orders, o) /\ rows' = Append(rows, call[h].done)
  BY DEF Commit
<1>5. /\ orders' \in Seq(Order) /\ Len(orders') = Len(orders) + 1
      /\ \A i \in 1 .. Len(orders) : orders'[i] = orders[i]
      /\ orders'[Len(orders) + 1] = o
  <2> HIDE DEF o, Order
  <2> QED BY <1>1, <1>3, <1>4
<1>6. /\ rows' \in Seq(0 .. MaxItems) /\ Len(rows') = Len(rows) + 1
      /\ \A i \in 1 .. Len(rows) : rows'[i] = rows[i]
      /\ rows'[Len(rows) + 1] = call[h].done
  BY <1>1, <1>3, <1>4
<1>7. /\ DOMAIN orders = 1 .. Len(orders) /\ DOMAIN orders' = 1 .. Len(orders')
      /\ Len(orders) \in Nat
  <2> HIDE DEF Order
  <2> QED BY <1>1, <1>5
<1> QED BY <1>1, <1>5, <1>6, <1>7

LEMMA CommitKeeps ==
  ASSUME IInv, NEW h \in Handler, Commit(h)
  PROVE  IInv'
<1> DEFINE new == Len(orders')
<1>1. /\ call \in [Handler -> CallType] /\ call[h].at = "commit"
      /\ entries' = entries /\ crashes' = crashes /\ crashes \in Nat
      /\ Len(orders) < MaxOrders /\ Len(orders) \in Nat
      /\ call[h].done = call[h].n
      /\ call[h].key \in Steady => Unspent(call[h].key)
  BY OrderAssumption
  DEF IInv, TypeOK, CallType, Sound, Commit, At, Working, Transaction
<1>2. /\ Len(orders') = Len(orders) + 1 /\ Len(rows') = Len(rows) + 1
      /\ DOMAIN orders' = DOMAIN orders \cup {new}
      /\ \A i \in DOMAIN orders : orders'[i] = orders[i] /\ rows'[i] = rows[i]
      /\ orders'[new].key = call[h].key /\ orders'[new].n = call[h].n
      /\ orders'[new].life = crashes /\ rows'[new] = call[h].done
      /\ new \notin DOMAIN orders
  BY CommitAppends
<1>3. call'[h] = [call[h] EXCEPT !.at = IF call[h].key = NoKey THEN "created" ELSE "store",
                                 !.order = new]
  BY <1>1 DEF Commit
<1>4. /\ call'[h].at = IF call[h].key = NoKey THEN "created" ELSE "store"
      /\ call'[h].key = call[h].key /\ call'[h].order = new
      /\ \A g \in Handler \ {h} : call'[g] = call[g]
  BY <1>1, <1>3 DEF Commit, CallType
<1>5. new \in 0 .. MaxOrders
  BY <1>1, <1>2, OrderAssumption
<1>6. call' \in [Handler -> CallType]
  <2>1. call'[h] \in CallType
    BY <1>1, <1>3, <1>5 DEF CallType, Running, Answered
  <2> QED BY <1>1, <1>4, <2>1 DEF Commit
<1>7. TypeOK'
  <2>1. /\ orders' \in Seq([key : Key \cup {NoKey}, n : 1 .. MaxItems,
                            life : 0 .. MaxCrashes])
        /\ rows' \in Seq(0 .. MaxItems)
    BY CommitAppends
  <2>2. Len(orders') <= MaxOrders /\ Len(rows') = Len(orders')
    BY <1>1, <1>2, OrderAssumption DEF IInv, TypeOK
  <2> QED BY <1>1, <1>6, <2>1, <2>2 DEF IInv, TypeOK, CallType
<1>8. ASSUME NEW i, NEW k, Stored(i, k) PROVE Stored(i, k)'
  BY <1>2, <1>8 DEF Stored
<1>9. WholeOrders'
  BY <1>1, <1>2 DEF IInv, WholeOrders
<1>10. EntriesStored'
  BY <1>1, <1>8 DEF IInv, EntriesStored
<1>11. LivesSoFar'
  BY <1>1, <1>2 DEF IInv, LivesSoFar
<1>12. OneOrderWhileUp'
  <2>1. ASSUME NEW i \in DOMAIN orders,
               orders[i].key = call[h].key, call[h].key \in Steady
        PROVE  orders[i].life # crashes
    BY <1>1, <2>1 DEF Unspent
  <2> QED BY <1>1, <1>2, <2>1 DEF IInv, OneOrderWhileUp, Steady
<1>13. Sound(call[h])'
  <2>1. new \in DOMAIN orders' /\ orders'[new].key = call[h].key
    BY <1>2
  <2> QED BY <1>4, <2>1 DEF Sound, Working, Transaction, Stored
<1>14. ASSUME NEW g \in Handler \ {h} PROVE Sound(call[g])'
  <2>1. call'[g] = call[g] /\ Sound(call[g]) /\ call[g].at \notin Transaction
    BY <1>1, <1>4 DEF IInv, OneWriter, Transaction
  <2>2. ASSUME call[g].at \in Working, call[g].key \in Steady
        PROVE  Unspent(call[g].key)'
    <3>1. call[g].key # call[h].key
      BY <1>1, <2>2 DEF IInv, PatientAlone, Steady, Working, Running, Transaction
    <3> QED BY <1>1, <1>2, <2>1, <2>2, <3>1 DEF Sound, Unspent
  <2>3. call[g].at \in {"store", "created", "replayed"} =>
          Stored(call[g].order, call[g].key)'
    BY <1>8, <2>1 DEF Sound
  <2> QED BY <2>1, <2>2, <2>3 DEF Sound, Unspent, Stored, Transaction
<1>15. OneWriter'
  BY <1>4 DEF IInv, OneWriter, Transaction
<1>16. PatientAlone'
  BY <1>1, <1>4 DEF IInv, PatientAlone, Running, Transaction
<1>17. Remembered'
  <2> SUFFICES ASSUME NEW i \in DOMAIN orders', orders'[i].key \in Steady,
                      orders'[i].life = crashes
               PROVE  \/ orders'[i].key \in DOMAIN entries
                      \/ \E g \in Handler : call'[g].at = "store"
                                            /\ call'[g].key = orders'[i].key
    BY <1>1 DEF Remembered
  <2>1. CASE i = new
    BY <1>2, <1>4, <2>1, OrderAssumption DEF Steady
  <2>2. CASE i \in DOMAIN orders
    <3>1. orders'[i] = orders[i]
      BY <1>2, <2>2
    <3> QED BY <1>1, <1>4, <2>2, <3>1 DEF IInv, Remembered
  <2> QED BY <1>2, <2>1, <2>2
<1> QED BY <1>7, <1>9, <1>10, <1>11, <1>12, <1>13, <1>14, <1>15, <1>16, <1>17 DEF IInv

--------------------------------------------------------------------------------
(* After the commit, and the environment *)

LEMMA StoreKeeps ==
  ASSUME IInv, NEW h \in Handler, Store(h)
  PROVE  IInv'
<1>1. /\ call \in [Handler -> CallType] /\ call[h].at = "store"
      /\ orders' = orders /\ rows' = rows /\ crashes' = crashes
      /\ Stored(call[h].order, call[h].key) /\ call[h].key # NoKey
  BY DEF IInv, TypeOK, CallType, Sound, Store, At, Tables
<1>2. /\ DOMAIN entries' = DOMAIN entries \cup {call[h].key}
      /\ \A k \in DOMAIN entries' :
           entries'[k] = IF k = call[h].key THEN call[h].order ELSE entries[k]
  BY DEF Store
<1>3. call'[h] = [call[h] EXCEPT !.at = "created"]
  BY <1>1 DEF Store, Go
<1>4. /\ call'[h].at = "created"
      /\ call'[h].key = call[h].key /\ call'[h].order = call[h].order
      /\ \A g \in Handler \ {h} : call'[g] = call[g]
  BY <1>1, <1>3 DEF Store, Go, CallType
<1>5. call' \in [Handler -> CallType]
  <2>1. call'[h] \in CallType
    BY <1>1, <1>3 DEF CallType, Answered
  <2> QED BY <1>1, <1>4, <2>1 DEF Store, Go
<1>6. call[h].key \in Key /\ call[h].order \in 1 .. MaxOrders
  <2>1. call[h].key \in Key /\ call[h].order \in DOMAIN orders
    BY <1>1 DEF CallType, Stored
  <2>2. DOMAIN orders = 1 .. Len(orders) /\ Len(orders) \in Nat /\ Len(orders) <= MaxOrders
    BY DEF IInv, TypeOK
  <2> QED BY <2>1, <2>2, OrderAssumption
<1>7. TypeOK'
  BY <1>1, <1>2, <1>5, <1>6 DEF IInv, TypeOK, CallType
<1>8. (WholeOrders /\ OneOrderWhileUp /\ LivesSoFar)'
  BY <1>1 DEF IInv, WholeOrders, OneOrderWhileUp, LivesSoFar
<1>9. EntriesStored'
  BY <1>1, <1>2 DEF IInv, EntriesStored, Stored
<1>10. \A g \in Handler : Sound(call[g])'
  BY <1>1, <1>4 DEF IInv, Sound, Stored, Unspent, Working, Transaction
<1>11. OneWriter' /\ PatientAlone'
  BY <1>4 DEF IInv, OneWriter, PatientAlone, Transaction, Running
<1>12. Remembered'
  BY <1>1, <1>2, <1>4 DEF IInv, Remembered
<1> QED BY <1>7, <1>8, <1>9, <1>10, <1>11, <1>12 DEF IInv

LEMMA CrashKeeps ==
  ASSUME IInv, CrashAndRestart
  PROVE  IInv'
<1>1. /\ call \in [Handler -> CallType] /\ crashes \in 0 .. MaxCrashes
      /\ orders' = orders /\ rows' = rows
      /\ crashes' = crashes + 1 /\ crashes' \in 0 .. MaxCrashes
      /\ DOMAIN entries' = {}
      /\ \A h \in Handler :
           call'[h] = IF call[h].at \in Running THEN Idle ELSE call[h]
  BY OrderAssumption DEF IInv, TypeOK, CallType, CrashAndRestart, Tables
<1>2. Idle \in CallType /\ Idle.at = "idle"
  BY OrderAssumption DEF Idle, CallType, NoOrder
<1>3. call' \in [Handler -> CallType]
  BY <1>1, <1>2 DEF CrashAndRestart
<1>4. TypeOK'
  BY <1>1, <1>3 DEF IInv, TypeOK, CallType
<1>5. \A h \in Handler : call'[h].at \notin Running
  BY <1>1, <1>2 DEF Running, Transaction
<1>6. \A h \in Handler : Sound(call[h])'
  <2> SUFFICES ASSUME NEW h \in Handler PROVE Sound(call[h])'
    OBVIOUS
  <2>1. CASE call[h].at \in Running
    BY <1>1, <1>2, <2>1 DEF Sound, Working, Transaction
  <2>2. CASE call[h].at \notin Running
    BY <1>1, <2>2 DEF IInv, Sound, Stored, Working, Transaction, Running
  <2> QED BY <2>1, <2>2
<1>7. OneWriter' /\ PatientAlone'
  BY <1>5 DEF OneWriter, PatientAlone, Running
<1>8. LivesSoFar' /\ Remembered'
  <2>1. \A i \in DOMAIN orders : orders[i].life <= crashes /\ orders[i].life \in Nat
    <3> DEFINE Order == [key : Key \cup {NoKey}, n : 1 .. MaxItems,
                         life : 0 .. MaxCrashes]
    <3>1. orders \in Seq(Order)
      BY DEF IInv, TypeOK
    <3>2. \A i \in DOMAIN orders : orders[i] \in Order
      <4> HIDE DEF Order
      <4> QED BY <3>1
    <3>3. \A i \in DOMAIN orders : orders[i].life \in Nat
      BY <3>2, OrderAssumption
    <3> QED BY <3>3 DEF IInv, LivesSoFar
  <2>2. \A i \in DOMAIN orders : orders[i].life < crashes + 1
    BY <1>1, <2>1
  <2> QED BY <1>1, <2>1, <2>2 DEF LivesSoFar, Remembered
<1>9. (WholeOrders /\ EntriesStored /\ OneOrderWhileUp)'
  BY <1>1 DEF IInv, WholeOrders, EntriesStored, OneOrderWhileUp
<1> QED BY <1>4, <1>6, <1>7, <1>8, <1>9 DEF IInv

LEMMA ExpireKeeps ==
  ASSUME IInv, NEW k \in Key, Expire(k)
  PROVE  IInv'
<1>1. /\ orders' = orders /\ rows' = rows /\ call' = call /\ crashes' = crashes
      /\ k \in Expiring
      /\ DOMAIN entries' = DOMAIN entries \ {k}
      /\ \A j \in DOMAIN entries' : entries'[j] = entries[j]
  BY DEF Expire, Tables
<1>2. TypeOK'
  BY <1>1 DEF IInv, TypeOK
<1>3. EntriesStored'
  BY <1>1 DEF IInv, EntriesStored, Stored
<1>4. Remembered'
  BY <1>1 DEF IInv, Remembered, Steady
<1>5. \A h \in Handler : Sound(call[h])'
  BY <1>1 DEF IInv, Sound, Stored, Unspent
<1>6. (WholeOrders /\ OneOrderWhileUp /\ OneWriter /\ PatientAlone /\ LivesSoFar)'
  BY <1>1 DEF IInv, WholeOrders, OneOrderWhileUp, OneWriter, PatientAlone, LivesSoFar
<1> QED BY <1>2, <1>3, <1>4, <1>5, <1>6 DEF IInv

LEMMA NextKeeps == IInv /\ [Next]_vars => IInv'
<1> SUFFICES ASSUME IInv, [Next]_vars PROVE IInv'
  OBVIOUS
<1>1. ASSUME NEW h \in Handler, NEW k \in Key \cup {NoKey}, NEW n \in 0 .. MaxItems,
             Receive(h, k, n)
      PROVE  IInv'
  BY <1>1, ReceiveKeeps
<1>2. ASSUME NEW h \in Handler, Replay(h) PROVE IInv'
  BY <1>2, ReplayKeeps
<1>3. ASSUME NEW h \in Handler, Miss(h) PROVE IInv'
  BY <1>3, MissKeeps
<1>4. ASSUME NEW h \in Handler, FetchPrice(h) PROVE IInv'
  BY <1>4, FetchPriceKeeps
<1>5. ASSUME NEW h \in Handler, Insert(h) PROVE IInv'
  BY <1>5, InsertKeeps
<1>6. ASSUME NEW h \in Handler, InsertItem(h) PROVE IInv'
  BY <1>6, InsertItemKeeps
<1>7. ASSUME NEW h \in Handler, Commit(h) PROVE IInv'
  BY <1>7, CommitKeeps
<1>8. ASSUME NEW h \in Handler, CommitFails(h) PROVE IInv'
  BY <1>8, CommitFailsKeeps
<1>9. ASSUME NEW h \in Handler, Store(h) PROVE IInv'
  BY <1>9, StoreKeeps
<1>10. CASE CrashAndRestart
  BY <1>10, CrashKeeps
<1>11. ASSUME NEW k \in Key, Expire(k) PROVE IInv'
  BY <1>11, ExpireKeeps
<1>12. CASE UNCHANGED vars
  BY <1>12 DEF vars, IInv, TypeOK, WholeOrders, EntriesStored, OneOrderWhileUp, Sound,
               Stored, Unspent, OneWriter, PatientAlone, LivesSoFar, Remembered
<1> QED BY <1>1, <1>2, <1>3, <1>4, <1>5, <1>6, <1>7, <1>8, <1>9, <1>10, <1>11, <1>12
        DEF Next

--------------------------------------------------------------------------------
(* The strengthened invariant holds in every behaviour.                       *)
THEOREM SpecIInv == Spec => []IInv
  BY InitIInv, NextKeeps, PTL DEF Spec

(* Tables, cache and handlers keep their types and bounds.                    *)
THEOREM SpecTypeOK == Spec => []TypeOK
<1>1. IInv => TypeOK
  BY DEF IInv
<1> QED BY <1>1, SpecIInv, PTL

(* No half order, whatever statement fails and whenever the service dies      *)
(* (create: one transaction, rolled back on every error).                     *)
THEOREM SpecWholeOrders == Spec => []WholeOrders
<1>1. IInv => WholeOrders
  BY DEF IInv
<1> QED BY <1>1, SpecIInv, PTL

(* No answer without its order: 201 is sent and cached only after Commit, and *)
(* what is replayed is still in the database (handleCreate).                  *)
THEOREM SpecAnswersAreStored == Spec => []AnswersAreStored
<1>1. IInv => AnswersAreStored
  BY DEF IInv, EntriesStored, Sound, AnswersAreStored
<1> QED BY <1>1, SpecIInv, PTL

(* One order per key and life of the service, for clients that wait for an    *)
(* answer and repeat within the expiry (globalIdem in handleCreate).          *)
THEOREM SpecOneOrderWhileUp == Spec => []OneOrderWhileUp
<1>1. IInv => OneOrderWhileUp
  BY DEF IInv
<1> QED BY <1>1, SpecIInv, PTL

================================================================================
