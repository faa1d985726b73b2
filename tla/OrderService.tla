------------------------------ MODULE OrderService -----------------------------
(******************************************************************************)
(* POST /orders of the order service: handlers running concurrently over a    *)
(* SQLite database and an in-memory idempotency cache (order-service/         *)
(* handler.go, store.go, idempotency.go).  The database outlives the process, *)
(* the cache does not.                                                        *)
(*                                                                            *)
(* A handler looks its key up, fetches a price per item, creates the order in *)
(* one transaction, and only then stores the result under the key.            *)
(******************************************************************************)
EXTENDS Naturals, Sequences

CONSTANTS
  Handler,      \* handlers that may run at once
  Key,          \* Idempotency-Key headers that clients use
  NoKey,        \* no such header
  MaxItems,     \* bound on the items of an order
  MaxOrders,    \* bound on the orders in the database
  MaxCrashes,   \* bound on the crashes of the service
  Patient,      \* keys of clients that repeat a request only after its answer
  Expiring      \* keys that are repeated after 24 hours

ASSUME OrderAssumption ==
  /\ NoKey \notin Key
  /\ MaxItems \in Nat /\ MaxOrders \in Nat /\ MaxCrashes \in Nat
  /\ Patient \subseteq Key /\ Expiring \subseteq Key

VARIABLES
  orders,     \* table orders: id i is in orders[i]; key and n of its request,
              \* and life, in which life of the service it was created (history)
  rows,       \* table order_items: how many rows have order_id i
  entries,    \* globalIdem.entries: key -> id of the order in the stored body
  call,       \* the handlers
  crashes     \* how often the service has died; a bound and a history

vars == <<orders, rows, entries, call, crashes>>

NoOrder == 0

Transaction == {"insert", "commit"}
Running == {"lookup", "fetch", "begin", "store"} \cup Transaction
Answered == {"created", "replayed", "refused", "failed"}

TypeOK ==
  /\ orders \in Seq([key : Key \cup {NoKey}, n : 1 .. MaxItems,
                     life : 0 .. MaxCrashes])
  /\ Len(orders) <= MaxOrders
  /\ rows \in Seq(0 .. MaxItems) /\ Len(rows) = Len(orders)
  /\ DOMAIN entries \subseteq Key
  /\ \A k \in DOMAIN entries : entries[k] \in 1 .. MaxOrders
  /\ call \in [Handler -> [at : {"idle"} \cup Running \cup Answered,
                           key : Key \cup {NoKey}, n : 0 .. MaxItems,
                           done : 0 .. MaxItems, order : 0 .. MaxOrders]]
  /\ crashes \in 0 .. MaxCrashes

Idle == [at |-> "idle", key |-> NoKey, n |-> 0, done |-> 0, order |-> NoOrder]

Init ==
  /\ orders = <<>> /\ rows = <<>>
  /\ entries = [k \in {} |-> NoOrder]
  /\ call = [h \in Handler |-> Idle]
  /\ crashes = 0

At(h, where) == call[h].at = where
Go(h, where) == call' = [call EXCEPT ![h].at = where]
Tables == <<orders, rows>>

--------------------------------------------------------------------------------
(* handleCreate *)

(* A request for n items arrives, a new one or a repetition.                  *)
Receive(h, k, n) ==
  /\ call[h].at \notin Running
  /\ k \in Patient => \A g \in Handler : call[g].at \in Running => call[g].key # k
  /\ call' = [call EXCEPT ![h] = [at |-> "lookup", key |-> k, n |-> n,
                                  done |-> 0, order |-> NoOrder]]
  /\ UNCHANGED <<Tables, entries, crashes>>

(* The key is known: the stored body is sent again.                           *)
Replay(h) ==
  /\ At(h, "lookup")
  /\ call[h].key \in DOMAIN entries
  /\ call' = [call EXCEPT ![h].at = "replayed", ![h].order = entries[call[h].key]]
  /\ UNCHANGED <<Tables, entries, crashes>>

Miss(h) ==
  /\ At(h, "lookup")
  /\ call[h].key \notin DOMAIN entries
  /\ Go(h, IF call[h].n = 0 THEN "refused" ELSE "fetch")
  /\ UNCHANGED <<Tables, entries, crashes>>

(* fetchProductPrice, for one item after the other; it fails when the product *)
(* service does or the client is gone.                                        *)
FetchPrice(h) ==
  /\ At(h, "fetch")
  /\ \/ /\ call[h].done < call[h].n
        /\ \/ call' = [call EXCEPT ![h].done = @ + 1]
           \/ Go(h, "failed")
     \/ /\ call[h].done = call[h].n
        /\ call' = [call EXCEPT ![h].at = "begin", ![h].done = 0]
  /\ UNCHANGED <<Tables, entries, crashes>>

(* create: the first INSERT makes this handler the database's one writer; it  *)
(* fails when another transaction is writing, or for a reason of its own      *)
(* (external: SQLite).                                                        *)
Insert(h) ==
  /\ At(h, "begin")
  /\ \/ /\ \A g \in Handler : call[g].at \notin Transaction
        /\ Len(orders) < MaxOrders
        /\ Go(h, "insert")
     \/ Go(h, "failed")
  /\ UNCHANGED <<Tables, entries, crashes>>

(* Seeded fault: the error of an item's INSERT is ignored.                    *)
FaultyInsertItem(h) ==
  /\ At(h, "insert")
  /\ \/ call[h].done < call[h].n /\ call' = [call EXCEPT ![h].done = @ + 1]
     \/ Go(h, "commit")
  /\ UNCHANGED <<Tables, entries, crashes>>

(* Seeded fault: one INSERT too many.                                         *)
ExtraInsertItem(h) ==
  /\ At(h, "insert")
  /\ \/ call[h].done <= call[h].n
        /\ (call' = [call EXCEPT ![h].done = @ + 1] \/ Go(h, "failed"))
     \/ call[h].done > call[h].n /\ Go(h, "commit")
  /\ UNCHANGED <<Tables, entries, crashes>>

(* One row per item; an error rolls the transaction back.                     *)
InsertItem(h) ==
  /\ At(h, "insert")
  /\ \/ call[h].done < call[h].n
        /\ (call' = [call EXCEPT ![h].done = @ + 1] \/ Go(h, "failed"))
     \/ call[h].done = call[h].n /\ Go(h, "commit")
  /\ UNCHANGED <<Tables, entries, crashes>>

Commit(h) ==
  /\ At(h, "commit")
  /\ orders' = Append(orders, [key |-> call[h].key, n |-> call[h].n,
                               life |-> crashes])
  /\ rows' = Append(rows, call[h].done)
  /\ call' = [call EXCEPT ![h].at = IF call[h].key = NoKey THEN "created" ELSE "store",
                          ![h].order = Len(orders')]
  /\ UNCHANGED <<entries, crashes>>

(* Seeded fault: the error of Commit is ignored.                              *)
FaultyCommitFails(h) ==
  /\ At(h, "commit")
  /\ call' = [call EXCEPT ![h].at = IF call[h].key = NoKey THEN "created" ELSE "store",
                          ![h].order = Len(orders) + 1]
  /\ UNCHANGED <<Tables, entries, crashes>>

CommitFails(h) ==
  /\ At(h, "commit")
  /\ Go(h, "failed")
  /\ UNCHANGED <<Tables, entries, crashes>>

(* Seeded fault: the result is not stored.                                    *)
FaultyStore(h) ==
  /\ At(h, "store")
  /\ Go(h, "created")
  /\ UNCHANGED <<Tables, entries, crashes>>

(* globalIdem.set, whoever has set the key meanwhile, and the 201 answer.     *)
Store(h) ==
  /\ At(h, "store")
  /\ entries' = [k \in DOMAIN entries \cup {call[h].key} |->
                   IF k = call[h].key THEN call[h].order ELSE entries[k]]
  /\ Go(h, "created")
  /\ UNCHANGED <<Tables, crashes>>

--------------------------------------------------------------------------------
(* The service dies and starts again: SQLite rolls back what is open, the     *)
(* cache is empty, the connections are gone.                                  *)
CrashAndRestart ==
  /\ crashes < MaxCrashes
  /\ crashes' = crashes + 1
  /\ entries' = [k \in {} |-> NoOrder]
  /\ call' = [h \in Handler |-> IF call[h].at \in Running THEN Idle ELSE call[h]]
  /\ UNCHANGED Tables

(* An entry passes its expiry: get does not see it any more.                  *)
Expire(k) ==
  /\ k \in Expiring /\ k \in DOMAIN entries
  /\ entries' = [j \in DOMAIN entries \ {k} |-> entries[j]]
  /\ UNCHANGED <<Tables, call, crashes>>

Next ==
  \/ \E h \in Handler, k \in Key \cup {NoKey}, n \in 0 .. MaxItems : Receive(h, k, n)
  \/ \E h \in Handler :
       \/ Replay(h) \/ Miss(h) \/ FetchPrice(h)
       \/ Insert(h) \/ InsertItem(h) \/ Commit(h) \/ CommitFails(h) \/ Store(h)
  \/ CrashAndRestart
  \/ \E k \in Key : Expire(k)

Spec == Init /\ [][Next]_vars

--------------------------------------------------------------------------------
(* No half order: each order in the database has all the items it was placed  *)
(* for, whatever failed or crashed on the way.                                *)
WholeOrders == \A i \in DOMAIN orders : rows[i] = orders[i].n

(* What clients are told and what the cache will tell them is in the          *)
(* database, for their key, also after a crash.                               *)
Stored(i, k) == i \in DOMAIN orders /\ orders[i].key = k

AnswersAreStored ==
  /\ \A h \in Handler :
       call[h].at \in {"created", "replayed"} => Stored(call[h].order, call[h].key)
  /\ \A k \in DOMAIN entries : Stored(entries[k], k)

(* What the cache does achieve: as long as the service stays up, the client   *)
(* waits for an answer before it repeats and repeats within 24 hours, a key   *)
(* is worth one order, whatever failed meanwhile and however other clients    *)
(* behave.                                                                    *)
OneOrderWhileUp ==
  \A i, j \in DOMAIN orders :
    /\ orders[i].key = orders[j].key /\ orders[i].key \in Patient \ Expiring
    /\ orders[i].life = orders[j].life
    => i = j

--------------------------------------------------------------------------------
(* "The second call is provably identical to the first" (order-service/       *)
(* idempotency.go:19): a repeated key does not create a second order.         *)
OneOrderPerKey ==
  \A i, j \in DOMAIN orders : orders[i].key = orders[j].key /\ i # j
                                => orders[i].key = NoKey

================================================================================
