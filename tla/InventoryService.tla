-------------------------- MODULE InventoryService --------------------------
(***************************************************************************)
(* services/inventory on PostgreSQL (READ COMMITTED): concurrent requests  *)
(* to reserve, to release and to set stock, each served by a thread with a *)
(* transaction of its own.                                                 *)
(*                                                                         *)
(* reserve_stock takes a row lock (SELECT ... FOR UPDATE) on each item in  *)
(* the order of the request and tests the stock under the lock; all its    *)
(* writes reach the database at the commit.  release_stock reads without a *)
(* lock; the UPDATEs of its commit lock the rows in primary key order and  *)
(* write values computed from what was read.  PostgreSQL aborts one        *)
(* transaction of a cycle of waits.  The idempotency cache is in memory.   *)
(*                                                                         *)
(* Calls are requests; the reservation id minted by call c is c itself.    *)
(***************************************************************************)
EXTENDS Integers, Sequences, FiniteSets, Functions

CONSTANTS
    Calls,         \* requests, and the reservation ids they mint
    Keys,          \* idempotency keys
    Items,         \* item ids, numbered by their primary keys
    None,          \* no row, no reply, no cache entry, no lock holder
    InitialStock,  \* stock by item; None: the table has no such item
    Requests,      \* requests that clients send
    MaxRestarts    \* bound on restarts of the process

ReserveRequests == [kind : {"reserve"}, key : Keys, items : Seq(Items)]
ReleaseRequests == [kind : {"release"}, key : Keys, rsv : Calls]
SetStockRequests == [kind : {"setstock"}, item : Items, stock : Int]

ASSUME InventoryAssumption ==
    /\ Items \subseteq Nat
    /\ None \notin Calls \cup Int \cup Requests
    /\ InitialStock \in [Items -> Nat \cup {None}]
    /\ Requests \subseteq ReserveRequests \cup ReleaseRequests \cup SetStockRequests
    /\ \A r \in Requests : r.kind = "reserve" => r.items # <<>>
    /\ MaxRestarts \in Nat

Status == {"RESERVED", "OUT_OF_STOCK", "RELEASED"}
Response == [id : Calls, status : Status]
Reply == [code : {200}, body : Response \cup {None}]
         \cup [code : {404, 500}, body : {None}]
Reservation == [key : Keys, items : Seq(Items), status : {"RESERVED", "RELEASED"}]

ASSUME NoneAssumption ==
    None \notin Response /\ None \notin Reply /\ None \notin Reservation

VARIABLES
    op,       \* what call c asks for, once it has arrived
    pc,       \* where its thread stands
    held,     \* how many items a reserve has locked, or a release has read
    seen,     \* stock that a release has read, by item
    reply,    \* the HTTP answer of call c
    lock,     \* transaction that holds the row lock of an item
    stock,    \* inventory_items.stock
    rsv,      \* reservations by reservation_id
    cache,    \* idem_store
    restarts

vars == <<op, pc, held, seen, reply, lock, stock, rsv, cache, restarts>>

Active == {"cache", "lock", "find", "read", "write", "setstock", "remember"}

TypeOK ==
    /\ op \in [Calls -> Requests \cup {None}]
    /\ pc \in [Calls -> Active \cup {"idle", "done", "dead"}]
    /\ held \in [Calls -> Nat]
    /\ seen \in [Calls -> [Items -> Int \cup {None}]]
    /\ reply \in [Calls -> Reply \cup {None}]
    /\ lock \in [Items -> Calls \cup {None}]
    /\ stock \in [Items -> Int \cup {None}]
    /\ rsv \in [Calls -> Reservation \cup {None}]
    /\ cache \in [Keys -> Response \cup {None}]
    /\ restarts \in 0..MaxRestarts

Init ==
    /\ op = [c \in Calls |-> None]
    /\ pc = [c \in Calls |-> "idle"]
    /\ held = [c \in Calls |-> 0]
    /\ seen = [c \in Calls |-> [i \in Items |-> None]]
    /\ reply = [c \in Calls |-> None]
    /\ lock = [i \in Items |-> None]
    /\ stock = InitialStock
    /\ rsv = [c \in Calls |-> None]
    /\ cache = [k \in Keys |-> None]
    /\ restarts = 0

-----------------------------------------------------------------------------
Goto(c, point) == pc' = [pc EXCEPT ![c] = point]

Finish(c, code, body) ==
    /\ reply' = [reply EXCEPT ![c] = [code |-> code, body |-> body]]
    /\ Goto(c, "done")

\* Mutant: an error path leaves the transaction open.
UnlockAllButFirst(c) ==
    lock' = [i \in Items |-> IF lock[i] = c /\ (\E j \in Items : j < i) THEN None ELSE lock[i]]
\* The end of a transaction frees its row locks.
UnlockAll(c) == lock' = [i \in Items |-> IF lock[i] = c THEN None ELSE lock[i]]

Occurrences(items, i) == Cardinality({k \in DOMAIN items : items[k] = i})

\* The rows that a release updates.
UpdatedRows(c) == {i \in Range(rsv[op[c].rsv].items) : seen[c][i] # None}

\* A reserve locks the items one after the other, a release the rows that it
\* updates in the order in which SQLAlchemy flushes them, by primary key.
LocksAll(c) ==
    IF op[c].kind = "reserve" THEN held[c] = Len(op[c].items)
                              ELSE \A i \in UpdatedRows(c) : lock[i] = c
NextRow(c) ==
    IF op[c].kind = "reserve" THEN op[c].items[held[c] + 1]
    ELSE CHOOSE i \in UpdatedRows(c) :
            lock[i] # c /\ \A j \in UpdatedRows(c) : lock[j] # c => i <= j

Arrive(c, request) ==
    /\ pc[c] = "idle"
    /\ op' = [op EXCEPT ![c] = request]
    /\ Goto(c, IF request.kind = "setstock" THEN "setstock" ELSE "cache")
    /\ UNCHANGED <<held, seen, reply, lock, stock, rsv, cache, restarts>>

\* reserve_stock and release_stock look into the same cache.
CheckCache(c) ==
    /\ pc[c] = "cache"
    /\ LET hit == cache[op[c].key] IN
         IF hit # None
           THEN Finish(c, 200, hit)
           ELSE /\ Goto(c, IF op[c].kind = "reserve" THEN "lock" ELSE "find")
                /\ UNCHANGED reply
    /\ UNCHANGED <<op, held, seen, lock, stock, rsv, cache, restarts>>

-----------------------------------------------------------------------------
(* reserve_stock *)

\* The row exists and its stock is positive.
Available(i) == stock[i] # None /\ stock[i] > 0

\* Mutant: a plain SELECT.
RowIsFreeAlways(c, i) == TRUE
\* FOR UPDATE waits while another transaction holds the row.
RowIsFree(c, i) == lock[i] \in {None, c}

\* Lock the next item and test its stock under the lock.
LockItem(c) ==
    /\ pc[c] = "lock" /\ ~LocksAll(c)
    /\ RowIsFree(c, NextRow(c))
    /\ Available(NextRow(c))
    /\ lock' = [lock EXCEPT ![NextRow(c)] = c]
    /\ held' = [held EXCEPT ![c] = @ + 1]
    /\ UNCHANGED <<op, pc, seen, reply, stock, rsv, cache, restarts>>

\* An item without stock: the answer is cached, the transaction ends.
OutOfStock(c) ==
    /\ pc[c] = "lock" /\ ~LocksAll(c)
    /\ RowIsFree(c, NextRow(c))
    /\ ~Available(NextRow(c))
    /\ LET answer == [id |-> c, status |-> "OUT_OF_STOCK"] IN
         /\ cache' = [cache EXCEPT ![op[c].key] = answer]
         /\ Finish(c, 200, answer)
    /\ UnlockAll(c)
    /\ UNCHANGED <<op, held, seen, stock, rsv, restarts>>

\* The unique index on reservations.idempotency_key.
KeyIsStored(k) == \E r \in Calls : rsv[r] # None /\ rsv[r].key = k

\* Mutant: only the first entry is decremented.
DecrementedFirst(c) == [stock EXCEPT ![op[c].items[1]] = @ - 1]
\* One decrement for each entry of the request.
Decremented(c) ==
    [i \in Items |-> IF i \in Range(op[c].items)
                       THEN stock[i] - Occurrences(op[c].items, i) ELSE stock[i]]

\* Every item tested: decrement, insert the reservation, commit.  A repeated
\* key raises and rolls everything back.
CommitReserve(c) ==
    /\ pc[c] = "lock" /\ op[c].kind = "reserve" /\ LocksAll(c)
    /\ IF KeyIsStored(op[c].key)
         THEN Finish(c, 500, None) /\ UNCHANGED <<stock, rsv>>
         ELSE /\ stock' = Decremented(c)
              /\ rsv' = [rsv EXCEPT ![c] = [key |-> op[c].key,
                                            items |-> op[c].items,
                                            status |-> "RESERVED"]]
              /\ Goto(c, "remember")
              /\ UNCHANGED reply
    /\ UnlockAll(c)
    /\ UNCHANGED <<op, held, seen, cache, restarts>>

-----------------------------------------------------------------------------
(* release_stock *)

\* Read the reservation; no lock, and no look at its status.
FindReservation(c) ==
    /\ pc[c] = "find"
    /\ IF rsv[op[c].rsv] = None
         THEN Finish(c, 404, None)
         ELSE Goto(c, "read") /\ UNCHANGED reply
    /\ UNCHANGED <<op, held, seen, lock, stock, rsv, cache, restarts>>

\* The SELECT of the next item; a row that the session has is not read again.
ReadItem(c) ==
    LET items == rsv[op[c].rsv].items
        i == items[held[c] + 1]
    IN /\ pc[c] = "read"
       /\ seen' = [seen EXCEPT ![c][i] = IF @ = None THEN stock[i] ELSE @]
       /\ held' = [held EXCEPT ![c] = @ + 1]
       /\ Goto(c, IF held[c] + 1 = Len(items) THEN "write" ELSE "read")
       /\ UNCHANGED <<op, reply, lock, stock, rsv, cache, restarts>>

\* An UPDATE locks its row.
LockUpdated(c) ==
    /\ pc[c] = "write" /\ ~LocksAll(c)
    /\ RowIsFree(c, NextRow(c))
    /\ lock' = [lock EXCEPT ![NextRow(c)] = c]
    /\ UNCHANGED <<op, pc, held, seen, reply, stock, rsv, cache, restarts>>

\* The value written is computed from the value read, not from the row.
Restored(c) ==
    [i \in Items |-> IF i \in UpdatedRows(c)
       THEN seen[c][i] + Occurrences(rsv[op[c].rsv].items, i) ELSE stock[i]]

CommitRelease(c) ==
    /\ pc[c] = "write" /\ LocksAll(c)
    /\ stock' = Restored(c)
    /\ rsv' = [rsv EXCEPT ![op[c].rsv].status = "RELEASED"]
    /\ UnlockAll(c)
    /\ Goto(c, "remember")
    /\ UNCHANGED <<op, held, seen, reply, cache, restarts>>

-----------------------------------------------------------------------------
\* Mutant: the response names the call, not the reservation.
ResponseOfCall(c) ==
    [id |-> c, status |-> IF op[c].kind = "reserve" THEN "RESERVED" ELSE "RELEASED"]
ResponseOf(c) ==
    IF op[c].kind = "reserve" THEN [id |-> c, status |-> "RESERVED"]
                              ELSE [id |-> op[c].rsv, status |-> "RELEASED"]

\* After the commit of a reserve or a release: cache the response and answer.
Remember(c) ==
    /\ pc[c] = "remember"
    /\ cache' = [cache EXCEPT ![op[c].key] = ResponseOf(c)]
    /\ Finish(c, 200, ResponseOf(c))
    /\ UNCHANGED <<op, held, seen, lock, stock, rsv, restarts>>

\* set_stock: lock, overwrite or insert, commit.
SetStock(c) ==
    /\ pc[c] = "setstock"
    /\ RowIsFree(c, op[c].item)
    /\ stock' = [stock EXCEPT ![op[c].item] = op[c].stock]
    /\ Finish(c, 200, None)
    /\ UNCHANGED <<op, held, seen, lock, rsv, cache, restarts>>

\* Transactions of S wait for each other in a circle.
WaitsFor(c, d) ==
    /\ pc[c] \in {"lock", "write"} /\ ~LocksAll(c)
    /\ c # d /\ lock[NextRow(c)] = d

Deadlocked(c) ==
    \E S \in SUBSET Calls :
        /\ c \in S
        /\ \A x \in S : (\E y \in S : WaitsFor(x, y)) /\ (\E y \in S : WaitsFor(y, x))

\* PostgreSQL aborts a transaction of a cycle; the handler answers 500.
AbortDeadlock(c) ==
    /\ Deadlocked(c)
    /\ Finish(c, 500, None)
    /\ UnlockAll(c)
    /\ UNCHANGED <<op, held, seen, stock, rsv, cache, restarts>>

\* The container is killed and restarted.
Restart ==
    /\ restarts < MaxRestarts
    /\ restarts' = restarts + 1
    /\ pc' = [c \in Calls |-> IF pc[c] \in Active THEN "dead" ELSE pc[c]]
    /\ lock' = [i \in Items |-> None]
    /\ cache' = [k \in Keys |-> None]
    /\ UNCHANGED <<op, held, seen, reply, stock, rsv>>

CallStep(c) ==
    \/ CheckCache(c)
    \/ LockItem(c)
    \/ OutOfStock(c)
    \/ CommitReserve(c)
    \/ FindReservation(c)
    \/ ReadItem(c)
    \/ LockUpdated(c)
    \/ CommitRelease(c)
    \/ Remember(c)
    \/ SetStock(c)
    \/ AbortDeadlock(c)

Next ==
    \/ \E c \in Calls :
          (\E request \in Requests : Arrive(c, request)) \/ CallStep(c)
    \/ Restart

Spec == Init /\ [][Next]_vars

\* Every thread that can run is scheduled; the database detects deadlocks.
FairSpec == Spec /\ \A c \in Calls : WF_vars(CallStep(c))

-----------------------------------------------------------------------------
OnlyReserves == \A c \in Calls : op[c] # None => op[c].kind = "reserve"
NoNegativeRestock ==
    \A c \in Calls : op[c] # None /\ op[c].kind = "setstock" => op[c].stock >= 0
DistinctItems ==
    \A r \in Requests : r.kind = "reserve" =>
        \A j, k \in DOMAIN r.items : r.items[j] = r.items[k] => j = k

\* "Uses atomic stock decrement with row-level check to prevent
\* over-reservation": however reserves, releases and restocks interleave, no
\* stock becomes negative, if no request names an item twice and none has set a
\* negative stock.
NoOversell ==
    DistinctItems /\ NoNegativeRestock => \A i \in Items : stock[i] # None => stock[i] >= 0

\* Units of item i in reservations that were not released, by reservation and
\* entry.
Units(i) ==
    UNION {{r} \X {k \in DOMAIN rsv[r].items : rsv[r].items[k] = i} :
             r \in {r \in Calls : rsv[r] # None /\ rsv[r].status = "RESERVED"}}
Reserved(i) == Cardinality(Units(i))

\* Every unit that left the stock is in a reservation, and every released unit
\* is back.
StockConservation ==
    \A i \in Items : InitialStock[i] # None => stock[i] + Reserved(i) = InitialStock[i]

\* Until the first release or restock arrives, no interleaving of reserves,
\* deadlocks, repeated keys and restarts loses or invents a unit.
ReservesConserveStock == OnlyReserves => StockConservation

\* A client that was told RESERVED has a reservation under its own key: the
\* answer, cached or fresh, is never ahead of the commit.
AcknowledgedIsStored ==
    \A c \in Calls :
        /\ reply[c] # None /\ reply[c].code = 200
        /\ reply[c].body # None /\ reply[c].body.status # "OUT_OF_STOCK"
        => rsv[reply[c].body.id] # None
           /\ (reply[c].body.status = "RESERVED" =>
                 rsv[reply[c].body.id].key = op[c].key)

\* No request waits for ever, although requests lock the same rows in opposite
\* orders.
CallsEnd == \A c \in Calls : pc[c] # "idle" ~> pc[c] \in {"done", "dead"}
=============================================================================
