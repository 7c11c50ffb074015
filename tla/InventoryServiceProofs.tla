------------------------ MODULE InventoryServiceProofs -----------------------
(***************************************************************************)
(* Proofs about InventoryService, for any sets of requests, calls, keys    *)
(* and items, any initial stock and any number of restarts.                *)
(*                                                                         *)
(* Three arguments meet in IInv.  A response is never ahead of the         *)
(* reservation it names (CallInv, CacheInv).  A reserve that has locked    *)
(* and tested an item finds it unchanged at its commit, because every      *)
(* writer of the row needs its lock (LockInv).  A commit moves as many     *)
(* units out of the stock as it enters into reservations (UnitsInv).       *)
(***************************************************************************)
EXTENDS InventoryService, FiniteSetTheorems, TLAPS

Asks(c, kind) == op[c] # None /\ op[c].kind = kind

\* The reservation that a response of key k names is in the table.
Backed(response, k) ==
    response # None /\ response.status # "OUT_OF_STOCK" =>
        /\ rsv[response.id] # None
        /\ response.status = "RESERVED" => rsv[response.id].key = k

\* What a call asks for, by where it stands.
KindInv(c) ==
    /\ pc[c] = "idle" => op[c] = None
    /\ pc[c] = "lock" => Asks(c, "reserve")
    /\ pc[c] \in {"find", "read", "write"} => Asks(c, "release")
    /\ pc[c] = "setstock" => Asks(c, "setstock")
    /\ pc[c] \in {"cache", "remember"} => Asks(c, "reserve") \/ Asks(c, "release")

\* What a call has got, by where it stands.
CallInv(c) ==
    /\ pc[c] = "idle" => reply[c] = None
    /\ pc[c] \in {"idle", "cache"} => held[c] = 0
    /\ rsv[c] # None => pc[c] \in {"remember", "done", "dead"}
    /\ pc[c] \in {"read", "write"} => rsv[op[c].rsv] # None
    /\ pc[c] = "remember" => Backed(ResponseOf(c), op[c].key)
    /\ reply[c] # None /\ reply[c].code = 200 => Backed(reply[c].body, op[c].key)

CacheInv == \A k \in Keys : Backed(cache[k], k)

\* A reserve holds the lock of the items that it has tested, and they are still
\* in stock.
LockInv(c) ==
    pc[c] = "lock" =>
        /\ held[c] <= Len(op[c].items)
        /\ \A k \in 1..held[c] : lock[op[c].items[k]] = c /\ Available(op[c].items[k])

\* No item comes twice in a request, and no stock was set to a negative number.
Ordinary == DistinctItems /\ NoNegativeRestock

\* No row disappears; a release has read stock that was not negative.
StockInv ==
    /\ \A i \in Items : InitialStock[i] # None => stock[i] # None
    /\ Ordinary => \A c \in Calls, i \in Items : seen[c][i] # None => seen[c][i] >= 0

UnitsInv == \A i \in Items : IsFiniteSet(Units(i))

IInv ==
    /\ TypeOK
    /\ \A c \in Calls : KindInv(c) /\ CallInv(c) /\ LockInv(c)
    /\ CacheInv /\ StockInv /\ NoOversell
    /\ UnitsInv /\ ReservesConserveStock

-----------------------------------------------------------------------------
(* What the operators of the model do *)

\* The fields of a request of each kind.
LEMMA RequestShape ==
    ASSUME TypeOK, NEW c \in Calls, op[c] # None
    PROVE  /\ op[c] \in Requests /\ op[c].kind \in {"reserve", "release", "setstock"}
           /\ op[c].kind = "reserve" => op[c].key \in Keys /\ op[c].items \in Seq(Items)
           /\ op[c].kind = "release" => op[c].key \in Keys /\ op[c].rsv \in Calls
           /\ op[c].kind = "setstock" => op[c].item \in Items /\ op[c].stock \in Int
<1>1. op[c] \in Requests
  BY DEF TypeOK
<1>2. op[c] \in ReserveRequests \/ op[c] \in ReleaseRequests \/ op[c] \in SetStockRequests
  BY <1>1, InventoryAssumption
<1>3. CASE op[c] \in ReserveRequests
  BY <1>1, <1>3 DEF ReserveRequests
<1>4. CASE op[c] \in ReleaseRequests
  BY <1>1, <1>4 DEF ReleaseRequests
<1>5. CASE op[c] \in SetStockRequests
  BY <1>1, <1>5 DEF SetStockRequests
<1> QED
  BY <1>2, <1>3, <1>4, <1>5

\* The response of a call that has committed.
LEMMA ResponseType ==
    ASSUME TypeOK, NEW c \in Calls, KindInv(c), pc[c] = "remember"
    PROVE  ResponseOf(c) \in Response /\ op[c].key \in Keys
<1>1. Asks(c, "reserve") \/ Asks(c, "release")
  BY DEF KindInv
<1>2. op[c].key \in Keys
  BY <1>1, RequestShape DEF Asks
<1>3. CASE op[c].kind = "reserve"
  BY <1>2, <1>3 DEF ResponseOf, Response, Status
<1>4. CASE op[c].kind = "release"
  <2>1. op[c].rsv \in Calls
    BY <1>1, <1>4, RequestShape DEF Asks
  <2>2. ResponseOf(c) = [id |-> op[c].rsv, status |-> "RELEASED"]
    BY <1>4 DEF ResponseOf
  <2>3. [id |-> op[c].rsv, status |-> "RELEASED"] \in Response
    BY <2>1 DEF Response, Status
  <2> QED
    BY <1>2, <2>2, <2>3
<1> QED
  BY <1>1, <1>3, <1>4 DEF Asks

\* The entries for an item: finitely many, one if no item comes twice.
LEMMA OccurrencesType ==
    ASSUME NEW s \in Seq(Items), NEW i
    PROVE  /\ IsFiniteSet({k \in DOMAIN s : s[k] = i})
           /\ Occurrences(s, i) \in Nat
           /\ (\A j, k \in DOMAIN s : s[j] = s[k] => j = k) => Occurrences(s, i) <= 1
<1> DEFINE K == {k \in DOMAIN s : s[k] = i}
<1>1. IsFiniteSet(1..Len(s)) /\ DOMAIN s = 1..Len(s)
  BY FS_Interval
<1>2. K \in SUBSET (1..Len(s))
  BY <1>1
<1>3. IsFiniteSet(K)
  BY <1>1, <1>2, FS_Subset
<1>4. Cardinality(K) \in Nat
  BY <1>3, FS_CardinalityType
<1>5. ASSUME \A j, k \in DOMAIN s : s[j] = s[k] => j = k PROVE Cardinality(K) <= 1
  <2>1. CASE K = {}
    <3>1. Cardinality({}) = 0
      BY FS_EmptySet
    <3> HIDE DEF K
    <3> QED
      BY <2>1, <3>1
  <2>2. CASE K # {}
    <3>1. PICK k \in K : TRUE
      BY <2>2
    <3>2. K = {k}
      BY <1>5, <3>1
    <3>3. Cardinality({k}) = 1
      BY FS_Singleton
    <3> HIDE DEF K
    <3> QED
      BY <3>2, <3>3
  <2> QED
    BY <2>1, <2>2
<1> QED
  BY <1>3, <1>4, <1>5 DEF Occurrences

\* A call that is part of a cycle of waits has a transaction.
LEMMA DeadlockedWaits ==
    ASSUME NEW c \in Calls, Deadlocked(c)
    PROVE  pc[c] \in {"lock", "write"}
  BY DEF Deadlocked, WaitsFor

\* The reservation that a release works on.
LEMMA ReleaseFinds ==
    ASSUME IInv, NEW c \in Calls, pc[c] \in {"read", "write"}
    PROVE  /\ op[c].kind = "release" /\ op[c].rsv \in Calls
           /\ rsv[op[c].rsv] \in Reservation /\ rsv[op[c].rsv] # None
           /\ rsv[op[c].rsv].items \in Seq(Items)
           /\ UpdatedRows(c) \subseteq Items
<1>1. Asks(c, "release") /\ rsv[op[c].rsv] # None
  BY DEF IInv, KindInv, CallInv
<1>2. op[c].rsv \in Calls
  BY <1>1, RequestShape DEF IInv, Asks
<1>3. rsv[op[c].rsv] \in Reservation
  BY <1>1, <1>2 DEF IInv, TypeOK
<1>4. rsv[op[c].rsv].items \in Seq(Items)
  BY <1>3 DEF Reservation
<1>5. UpdatedRows(c) \subseteq Items
  BY <1>4 DEF UpdatedRows, Range
<1> QED
  BY <1>1, <1>2, <1>3, <1>4, <1>5 DEF Asks

\* The row that a transaction wants next.
LEMMA NextRowType ==
    ASSUME IInv, NEW c \in Calls, pc[c] = "lock", ~LocksAll(c)
    PROVE  /\ op[c].kind = "reserve" /\ op[c].items \in Seq(Items) /\ held[c] + 1 \in 1..Len(op[c].items)
           /\ NextRow(c) = op[c].items[held[c] + 1] /\ NextRow(c) \in Items
<1>1. Asks(c, "reserve") /\ held[c] <= Len(op[c].items) /\ held[c] \in Nat
  BY DEF IInv, KindInv, LockInv, TypeOK
<1>2. op[c].kind = "reserve" /\ op[c].items \in Seq(Items)
  BY <1>1, RequestShape DEF IInv, Asks
<1>3. held[c] # Len(op[c].items)
  BY <1>2 DEF LocksAll
<1>4. held[c] + 1 \in 1..Len(op[c].items)
  BY <1>1, <1>2, <1>3
<1>5. NextRow(c) = op[c].items[held[c] + 1]
  BY <1>2 DEF NextRow
<1> QED
  BY <1>2, <1>4, <1>5

\* A reserve that commits holds the lock of every item that it names, and each
\* of them is in stock.
LEMMA ReserveHolds ==
    ASSUME IInv, NEW c \in Calls, pc[c] = "lock", LocksAll(c)
    PROVE  /\ op[c].kind = "reserve" /\ op[c].items \in Seq(Items) /\ op[c].key \in Keys
           /\ \A i \in Range(op[c].items) : i \in Items /\ lock[i] = c /\ Available(i)
<1>1. Asks(c, "reserve")
  BY DEF IInv, KindInv
<1>2. op[c].kind = "reserve" /\ op[c].items \in Seq(Items) /\ op[c].key \in Keys
  BY <1>1, RequestShape DEF IInv, Asks
<1>3. held[c] = Len(op[c].items)
  BY <1>2 DEF LocksAll
<1>4. \A k \in 1..held[c] : lock[op[c].items[k]] = c /\ Available(op[c].items[k])
  BY DEF IInv, LockInv
<1>5. \A i \in Range(op[c].items) : \E k \in 1..Len(op[c].items) : i = op[c].items[k] /\ i \in Items
  BY <1>2 DEF Range
<1> QED
  BY <1>2, <1>3, <1>4, <1>5

-----------------------------------------------------------------------------
(* Type correctness *)

\* The initial state is well typed.
LEMMA InitType == Init => TypeOK
  BY InventoryAssumption DEF Init, TypeOK, Active

\* A commit of a reserve or a release writes a number to every row it updates.
LEMMA CommittedStock ==
    ASSUME IInv, NEW c \in Calls
    PROVE  /\ pc[c] = "lock" /\ LocksAll(c) => Decremented(c) \in [Items -> Int \cup {None}]
           /\ pc[c] = "write" => Restored(c) \in [Items -> Int \cup {None}]
<1>1. ASSUME pc[c] = "lock", LocksAll(c) PROVE Decremented(c) \in [Items -> Int \cup {None}]
  <2>1. /\ op[c].items \in Seq(Items)
        /\ \A i \in Range(op[c].items) : i \in Items /\ lock[i] = c /\ Available(i)
    BY <1>1, ReserveHolds
  <2>2. \A i \in Items : Occurrences(op[c].items, i) \in Nat /\ stock[i] \in Int \cup {None}
    BY <2>1, OccurrencesType DEF IInv, TypeOK
  <2>3. \A i \in Range(op[c].items) : stock[i] # None
    BY <2>1 DEF Available
  <2>4. \A i \in Items : i \in Range(op[c].items) => stock[i] - Occurrences(op[c].items, i) \in Int
    BY <2>2, <2>3
  <2> QED
    BY <2>2, <2>4 DEF Decremented
<1>2. ASSUME pc[c] = "write" PROVE Restored(c) \in [Items -> Int \cup {None}]
  <2>1. rsv[op[c].rsv].items \in Seq(Items)
    BY <1>2, ReleaseFinds
  <2>2. \A i \in Items : /\ Occurrences(rsv[op[c].rsv].items, i) \in Nat
                         /\ stock[i] \in Int \cup {None} /\ seen[c][i] \in Int \cup {None}
    BY <2>1, OccurrencesType DEF IInv, TypeOK
  <2>3. \A i \in UpdatedRows(c) : seen[c][i] # None
    BY DEF UpdatedRows
  <2>4. \A i \in Items : i \in UpdatedRows(c) =>
            seen[c][i] + Occurrences(rsv[op[c].rsv].items, i) \in Int
    BY <2>2, <2>3
  <2> QED
    BY <2>2, <2>4 DEF Restored
<1> QED
  BY <1>1, <1>2

\* An answer is well typed.
LEMMA FinishType ==
    ASSUME TypeOK, NEW c \in Calls, NEW code, NEW body,
           [code |-> code, body |-> body] \in Reply, Finish(c, code, body)
    PROVE  /\ reply' \in [Calls -> Reply \cup {None}]
           /\ pc' \in [Calls -> Active \cup {"idle", "done", "dead"}]
<1>1. PICK r \in Reply : r = [code |-> code, body |-> body]
  OBVIOUS
<1>2. reply' = [reply EXCEPT ![c] = r] /\ pc' = [pc EXCEPT ![c] = "done"]
  BY <1>1 DEF Finish, Goto
<1> QED
  BY <1>2 DEF TypeOK

\* The answers that the handlers give.
LEMMA Replies ==
    /\ \A b \in Response \cup {None} : [code |-> 200, body |-> b] \in Reply
    /\ [code |-> 404, body |-> None] \in Reply
    /\ [code |-> 500, body |-> None] \in Reply
  BY DEF Reply

\* Freeing locks keeps the lock table well typed.
LEMMA UnlockType ==
    ASSUME TypeOK, NEW c \in Calls, UnlockAll(c)
    PROVE  /\ lock' \in [Items -> Calls \cup {None}]
           /\ \A i \in Items : lock'[i] = IF lock[i] = c THEN None ELSE lock[i]
  BY DEF UnlockAll, TypeOK

\* Every step keeps the variables well typed.
LEMMA NextType ==
    ASSUME IInv, [Next]_vars
    PROVE  TypeOK'
<1>0. TypeOK
  BY DEF IInv
<1>1. ASSUME NEW c \in Calls, NEW request \in Requests, Arrive(c, request) PROVE TypeOK'
  BY <1>0, <1>1 DEF Arrive, Goto, TypeOK, Active
<1>2. ASSUME NEW c \in Calls, CheckCache(c) PROVE TypeOK'
  <2>1. op[c].key \in Keys
    BY <1>0, <1>2, RequestShape DEF CheckCache, IInv, KindInv, Asks
  <2>2. cache[op[c].key] \in Response \cup {None}
    BY <1>0, <2>1 DEF TypeOK
  <2>3. CASE cache[op[c].key] # None
    <3>1. Finish(c, 200, cache[op[c].key]) /\ UNCHANGED <<op, held, seen, lock, stock, rsv, cache, restarts>>
      BY <1>2, <2>3 DEF CheckCache
    <3>2. [code |-> 200, body |-> cache[op[c].key]] \in Reply
      BY <2>2, Replies
    <3>3. /\ reply' \in [Calls -> Reply \cup {None}]
          /\ pc' \in [Calls -> Active \cup {"idle", "done", "dead"}]
      BY <1>0, <3>1, <3>2, FinishType
    <3> QED
      BY <1>0, <3>1, <3>3 DEF TypeOK
  <2>4. CASE cache[op[c].key] = None
    BY <1>0, <1>2, <2>4 DEF CheckCache, Goto, TypeOK, Active
  <2> QED
    BY <2>3, <2>4
<1>3. ASSUME NEW c \in Calls, LockItem(c) PROVE TypeOK'
  <2>1. NextRow(c) \in Items
    BY <1>3, NextRowType DEF LockItem
  <2> QED
    BY <1>0, <1>3, <2>1 DEF LockItem, TypeOK
<1>4. ASSUME NEW c \in Calls, OutOfStock(c) PROVE TypeOK'
  <2>1. PICK a \in Response : a = [id |-> c, status |-> "OUT_OF_STOCK"]
    BY DEF Response, Status
  <2>2. /\ cache' = [cache EXCEPT ![op[c].key] = a] /\ Finish(c, 200, a) /\ UnlockAll(c)
        /\ UNCHANGED <<op, held, seen, stock, rsv, restarts>>
    BY <1>4, <2>1 DEF OutOfStock
  <2>3. [code |-> 200, body |-> a] \in Reply
    BY Replies
  <2>4. /\ reply' \in [Calls -> Reply \cup {None}]
        /\ pc' \in [Calls -> Active \cup {"idle", "done", "dead"}]
    BY <1>0, <2>2, <2>3, FinishType
  <2>5. lock' \in [Items -> Calls \cup {None}]
    BY <1>0, <2>2, UnlockType
  <2> QED
    BY <1>0, <2>2, <2>4, <2>5 DEF TypeOK
<1>5. ASSUME NEW c \in Calls, CommitReserve(c) PROVE TypeOK'
  <2>1. pc[c] = "lock" /\ LocksAll(c) /\ UnlockAll(c) /\ UNCHANGED <<op, held, seen, cache, restarts>>
    BY <1>5 DEF CommitReserve
  <2>2. lock' \in [Items -> Calls \cup {None}]
    BY <1>0, <2>1, UnlockType
  <2>3. CASE KeyIsStored(op[c].key)
    <3>1. Finish(c, 500, None) /\ UNCHANGED <<stock, rsv>>
      BY <1>5, <2>3 DEF CommitReserve
    <3>2. /\ reply' \in [Calls -> Reply \cup {None}]
          /\ pc' \in [Calls -> Active \cup {"idle", "done", "dead"}]
      BY <1>0, <3>1, FinishType, Replies
    <3> QED
      BY <1>0, <2>1, <2>2, <3>1, <3>2 DEF TypeOK
  <2>4. CASE ~KeyIsStored(op[c].key)
    <3>1. PICK r : r = [key |-> op[c].key, items |-> op[c].items, status |-> "RESERVED"]
      OBVIOUS
    <3>2. r \in Reservation
      BY <2>1, <3>1, ReserveHolds DEF Reservation
    <3>3. /\ stock' = Decremented(c) /\ rsv' = [rsv EXCEPT ![c] = r]
          /\ pc' = [pc EXCEPT ![c] = "remember"] /\ reply' = reply
      BY <1>5, <2>4, <3>1 DEF CommitReserve, Goto
    <3>4. stock' \in [Items -> Int \cup {None}]
      BY <2>1, <3>3, CommittedStock
    <3> QED
      BY <1>0, <2>1, <2>2, <3>2, <3>3, <3>4 DEF TypeOK, Active
  <2> QED
    BY <2>3, <2>4
<1>6. ASSUME NEW c \in Calls, FindReservation(c) PROVE TypeOK'
  <2>1. CASE rsv[op[c].rsv] = None
    <3>1. Finish(c, 404, None) /\ UNCHANGED <<seen, op, held, lock, stock, rsv, cache, restarts>>
      BY <1>6, <2>1 DEF FindReservation
    <3>2. /\ reply' \in [Calls -> Reply \cup {None}]
          /\ pc' \in [Calls -> Active \cup {"idle", "done", "dead"}]
      BY <1>0, <3>1, FinishType, Replies
    <3> QED
      BY <1>0, <3>1, <3>2 DEF TypeOK
  <2>2. CASE rsv[op[c].rsv] # None
    <3>1. /\ pc' = [pc EXCEPT ![c] = "read"]
          /\ UNCHANGED <<reply, op, held, seen, lock, stock, rsv, cache, restarts>>
      BY <1>6, <2>2 DEF FindReservation, Goto
    <3> QED
      BY <1>0, <3>1 DEF TypeOK, Active
  <2> QED
    BY <2>1, <2>2
<1>7. ASSUME NEW c \in Calls, LockUpdated(c) PROVE TypeOK'
  <2>1. lock' = [lock EXCEPT ![NextRow(c)] = c] /\ UNCHANGED <<op, pc, held, seen, reply, stock, rsv, cache, restarts>>
    BY <1>7 DEF LockUpdated
  <2>2. lock' \in [Items -> Calls \cup {None}]
    BY <1>0, <2>1 DEF TypeOK
  <2> QED
    BY <1>0, <2>1, <2>2 DEF TypeOK
<1>8. ASSUME NEW c \in Calls, CommitRelease(c) PROVE TypeOK'
  <2>1. /\ pc[c] = "write" /\ stock' = Restored(c) /\ UnlockAll(c) /\ Goto(c, "remember")
        /\ rsv' = [rsv EXCEPT ![op[c].rsv].status = "RELEASED"]
        /\ UNCHANGED <<op, held, seen, reply, cache, restarts>>
    BY <1>8 DEF CommitRelease
  <2>2. PICK r \in Reservation : r = rsv[op[c].rsv]
    BY <2>1, ReleaseFinds
  <2>3. [r EXCEPT !.status = "RELEASED"] \in Reservation
    BY DEF Reservation
  <2>4. rsv' = [rsv EXCEPT ![op[c].rsv] = [r EXCEPT !.status = "RELEASED"]]
    BY <2>1, <2>2
  <2>5. rsv' \in [Calls -> Reservation \cup {None}]
    BY <1>0, <2>3, <2>4 DEF TypeOK
  <2>6. stock' \in [Items -> Int \cup {None}] /\ lock' \in [Items -> Calls \cup {None}]
    BY <1>0, <2>1, CommittedStock, UnlockType
  <2> QED
    BY <1>0, <2>1, <2>5, <2>6 DEF TypeOK, Goto, Active
<1>9. ASSUME NEW c \in Calls, Remember(c) PROVE TypeOK'
  <2>2. PICK a \in Response : a = ResponseOf(c)
    BY <1>0, <1>9, ResponseType DEF Remember, IInv
  <2>3. /\ cache' = [cache EXCEPT ![op[c].key] = a] /\ Finish(c, 200, a)
        /\ UNCHANGED <<op, held, seen, lock, stock, rsv, restarts>>
    BY <1>9, <2>2 DEF Remember
  <2>4. [code |-> 200, body |-> a] \in Reply
    BY Replies
  <2>5. /\ reply' \in [Calls -> Reply \cup {None}]
        /\ pc' \in [Calls -> Active \cup {"idle", "done", "dead"}]
    BY <1>0, <2>3, <2>4, FinishType
  <2>6. cache' \in [Keys -> Response \cup {None}]
    BY <1>0, <2>3 DEF TypeOK
  <2> QED
    BY <1>0, <2>3, <2>5, <2>6 DEF TypeOK
<1>10. ASSUME NEW c \in Calls, SetStock(c) PROVE TypeOK'
  <2>1. op[c].item \in Items /\ op[c].stock \in Int
    <3>1. op[c] # None /\ op[c].kind = "setstock"
      BY <1>10 DEF SetStock, IInv, KindInv, Asks
    <3> QED
      BY <1>0, <3>1, RequestShape
  <2>2. /\ stock' = [stock EXCEPT ![op[c].item] = op[c].stock] /\ Finish(c, 200, None)
        /\ UNCHANGED <<op, held, seen, lock, rsv, cache, restarts>>
    BY <1>10 DEF SetStock
  <2>3. /\ reply' \in [Calls -> Reply \cup {None}]
        /\ pc' \in [Calls -> Active \cup {"idle", "done", "dead"}]
    <3>1. [code |-> 200, body |-> None] \in Reply
      BY Replies
    <3> QED
      BY <1>0, <2>2, <3>1, FinishType
  <2> QED
    BY <1>0, <2>1, <2>2, <2>3 DEF TypeOK
<1>11. ASSUME NEW c \in Calls, AbortDeadlock(c) PROVE TypeOK'
  <2>1. Finish(c, 500, None) /\ UnlockAll(c) /\ UNCHANGED <<op, held, seen, stock, rsv, cache, restarts>>
    BY <1>11 DEF AbortDeadlock
  <2>2. /\ reply' \in [Calls -> Reply \cup {None}]
        /\ pc' \in [Calls -> Active \cup {"idle", "done", "dead"}]
        /\ lock' \in [Items -> Calls \cup {None}]
    BY <1>0, <2>1, FinishType, Replies, UnlockType
  <2> QED
    BY <1>0, <2>1, <2>2 DEF TypeOK
<1>12. ASSUME NEW c \in Calls, ReadItem(c) PROVE TypeOK'
  <2>1. PICK i : i = rsv[op[c].rsv].items[held[c] + 1]
    OBVIOUS
  <2>2. /\ seen' = [seen EXCEPT ![c][i] = IF @ = None THEN stock[i] ELSE @]
        /\ held' = [held EXCEPT ![c] = @ + 1]
        /\ pc' = [pc EXCEPT ![c] = "write"] \/ pc' = [pc EXCEPT ![c] = "read"]
        /\ UNCHANGED <<op, reply, lock, stock, rsv, cache, restarts>>
    BY <1>12, <2>1 DEF ReadItem, Goto
  <2>3. PICK v : v = IF seen[c][i] = None THEN stock[i] ELSE seen[c][i]
    OBVIOUS
  <2>4. seen' = [seen EXCEPT ![c] = [seen[c] EXCEPT ![i] = v]]
    <3>1. seen' = [seen EXCEPT ![c][i] = v]
      BY <2>2, <2>3, Zenon
    <3> QED
      BY <3>1, Zenon
  <2>5. seen' \in [Calls -> [Items -> Int \cup {None}]]
    <3>1. /\ seen[c] \in [Items -> Int \cup {None}]
          /\ stock \in [Items -> Int \cup {None}]
      BY <1>0 DEF TypeOK
    <3>2. CASE i \in Items
      <4>1. v \in Int \cup {None}
        BY <2>3, <3>1, <3>2
      <4>2. [seen[c] EXCEPT ![i] = v] \in [Items -> Int \cup {None}]
        BY <3>1, <3>2, <4>1
      <4> QED
        BY <1>0, <2>4, <4>2 DEF TypeOK
    <3>3. CASE i \notin Items
      <4>1. [seen[c] EXCEPT ![i] = v] = seen[c]
        BY <3>1, <3>3
      <4> QED
        BY <1>0, <2>4, <4>1 DEF TypeOK
    <3> QED
      BY <3>2, <3>3
  <2>6. held' \in [Calls -> Nat]
    BY <1>0, <2>2 DEF TypeOK
  <2>7. pc' \in [Calls -> Active \cup {"idle", "done", "dead"}]
    BY <1>0, <2>2 DEF TypeOK, Active
  <2> QED
    BY <1>0, <2>2, <2>5, <2>6, <2>7 DEF TypeOK
<1>13. CASE Restart
  BY <1>0, <1>13, InventoryAssumption DEF Restart, TypeOK
<1>14. CASE UNCHANGED vars
  BY <1>0, <1>14 DEF vars, TypeOK
<1> QED
  BY <1>1, <1>2, <1>3, <1>4, <1>5, <1>6, <1>7, <1>8, <1>9, <1>10, <1>11, <1>12, <1>13, <1>14
     DEF Next, CallStep

-----------------------------------------------------------------------------
(* Responses and reservations *)

\* A reservation that is in the table stays, with its key and items; it may be
\* released.
Kept(r) ==
    rsv[r] # None =>
        /\ rsv'[r] # None /\ rsv'[r].key = rsv[r].key /\ rsv'[r].items = rsv[r].items
        /\ rsv'[r].status = rsv[r].status \/ rsv'[r].status = "RELEASED"

Step(c) == (\E request \in Requests : Arrive(c, request)) \/ CallStep(c)

\* A step of one call leaves the others' threads alone.
LEMMA OthersStay ==
    ASSUME TypeOK, NEW c \in Calls, Step(c), NEW d \in Calls, d # c
    PROVE  /\ op'[d] = op[d] /\ pc'[d] = pc[d] /\ held'[d] = held[d]
           /\ seen'[d] = seen[d] /\ reply'[d] = reply[d]
<1> USE DEF TypeOK, Goto, Finish
<1>1. ASSUME NEW request \in Requests, Arrive(c, request)
      PROVE  op'[d] = op[d] /\ pc'[d] = pc[d] /\ UNCHANGED <<held, seen, reply>>
  BY <1>1 DEF Arrive
<1>2. CheckCache(c) => pc'[d] = pc[d] /\ reply'[d] = reply[d] /\ UNCHANGED <<op, held, seen>>
  BY DEF CheckCache
<1>3. LockItem(c) => held'[d] = held[d] /\ UNCHANGED <<op, pc, seen, reply>>
  BY DEF LockItem
<1>4. OutOfStock(c) => pc'[d] = pc[d] /\ reply'[d] = reply[d] /\ UNCHANGED <<op, held, seen>>
  BY DEF OutOfStock
<1>5. CommitReserve(c) => pc'[d] = pc[d] /\ reply'[d] = reply[d] /\ UNCHANGED <<op, held, seen>>
  BY DEF CommitReserve
<1>6. FindReservation(c) => pc'[d] = pc[d] /\ reply'[d] = reply[d] /\ UNCHANGED <<op, held, seen>>
  BY DEF FindReservation
<1>7. LockUpdated(c) => UNCHANGED <<op, pc, held, seen, reply>>
  BY DEF LockUpdated
<1>8. CommitRelease(c) => pc'[d] = pc[d] /\ UNCHANGED <<op, held, seen, reply>>
  BY DEF CommitRelease
<1>9. Remember(c) => pc'[d] = pc[d] /\ reply'[d] = reply[d] /\ UNCHANGED <<op, held, seen>>
  BY DEF Remember
<1>10. SetStock(c) => pc'[d] = pc[d] /\ reply'[d] = reply[d] /\ UNCHANGED <<op, held, seen>>
  BY DEF SetStock
<1>11. AbortDeadlock(c) => pc'[d] = pc[d] /\ reply'[d] = reply[d] /\ UNCHANGED <<op, held, seen>>
  BY DEF AbortDeadlock
<1>12. ReadItem(c) => /\ pc'[d] = pc[d] /\ held'[d] = held[d] /\ seen'[d] = seen[d]
                      /\ UNCHANGED <<op, reply>>
  BY DEF ReadItem
<1> QED
  BY <1>1, <1>2, <1>3, <1>4, <1>5, <1>6, <1>7, <1>8, <1>9, <1>10, <1>11, <1>12, Zenon
     DEF Step, CallStep

\* The commit of a reserve inserts a row that was not there.
LEMMA InsertsRow ==
    ASSUME IInv, NEW c \in Calls, CommitReserve(c), ~KeyIsStored(op[c].key)
    PROVE  /\ rsv[c] = None /\ rsv'[c] # None
           /\ rsv'[c] = [key |-> op[c].key, items |-> op[c].items, status |-> "RESERVED"]
           /\ \A d \in Calls \ {c} : rsv'[d] = rsv[d]
           /\ pc'[c] = "remember" /\ reply' = reply
<1>1. pc[c] = "lock" /\ LocksAll(c)
  BY DEF CommitReserve
<1>2. PICK r : r = [key |-> op[c].key, items |-> op[c].items, status |-> "RESERVED"]
  OBVIOUS
<1>3. r \in Reservation
  BY <1>1, <1>2, ReserveHolds DEF Reservation
<1>4. rsv' = [rsv EXCEPT ![c] = r] /\ pc' = [pc EXCEPT ![c] = "remember"] /\ reply' = reply
  BY <1>2 DEF CommitReserve, Goto
<1>5. rsv[c] = None
  BY <1>1 DEF IInv, CallInv
<1>6. r # None
  BY <1>3, NoneAssumption
<1>7. rsv'[c] = r /\ pc'[c] = "remember" /\ \A d \in Calls \ {c} : rsv'[d] = rsv[d]
  BY <1>4 DEF IInv, TypeOK
<1> QED
  BY <1>2, <1>4, <1>5, <1>6, <1>7

\* The commit of a release marks its reservation.
LEMMA MarksRow ==
    ASSUME IInv, NEW c \in Calls, CommitRelease(c)
    PROVE  /\ op[c].rsv \in Calls /\ rsv[op[c].rsv] # None /\ rsv'[op[c].rsv] # None
           /\ rsv'[op[c].rsv].key = rsv[op[c].rsv].key
           /\ rsv'[op[c].rsv].items = rsv[op[c].rsv].items
           /\ rsv'[op[c].rsv].status = "RELEASED"
           /\ \A d \in Calls \ {op[c].rsv} : rsv'[d] = rsv[d]
<1>1. /\ op[c].rsv \in Calls /\ rsv[op[c].rsv] # None /\ rsv[op[c].rsv] \in Reservation
  BY ReleaseFinds DEF CommitRelease
<1>2. PICK r \in Calls : r = op[c].rsv
  BY <1>1
<1>3. PICK old \in Reservation : old = rsv[r]
  BY <1>1, <1>2
<1>4. PICK new : new = [old EXCEPT !.status = "RELEASED"]
  OBVIOUS
<1>5. rsv' = [rsv EXCEPT ![r] = new]
  BY <1>2, <1>3, <1>4 DEF CommitRelease
<1>6. new \in Reservation /\ new.key = old.key /\ new.items = old.items /\ new.status = "RELEASED"
  BY <1>4 DEF Reservation
<1>7. new # None
  BY <1>6, NoneAssumption
<1>8. rsv'[r] = new /\ \A d \in Calls \ {r} : rsv'[d] = rsv[d]
  BY <1>5 DEF IInv, TypeOK
<1> QED
  BY <1>1, <1>2, <1>3, <1>6, <1>7, <1>8

\* Every step keeps the reservations that are in the table, and inserts none but
\* the caller's own.
LEMMA RowsStay ==
    ASSUME IInv, NEW c \in Calls, Step(c)
    PROVE  /\ \A r \in Calls : Kept(r)
           /\ \A r \in Calls \ {c} : rsv'[r] # None => rsv[r] # None
<1>1. CASE rsv' = rsv
  BY <1>1 DEF Kept
<1>2. CASE CommitReserve(c)
  <2>1. CASE KeyIsStored(op[c].key)
    BY <1>1, <1>2, <2>1 DEF CommitReserve
  <2>2. CASE ~KeyIsStored(op[c].key)
    <3>1. rsv[c] = None /\ \A d \in Calls \ {c} : rsv'[d] = rsv[d]
      BY <1>2, <2>2, InsertsRow
    <3> QED
      BY <3>1 DEF Kept
  <2> QED
    BY <2>1, <2>2
<1>3. CASE CommitRelease(c)
  <2>1. PICK x \in Calls : /\ rsv[x] # None /\ rsv'[x] # None /\ rsv'[x].key = rsv[x].key
                           /\ rsv'[x].items = rsv[x].items /\ rsv'[x].status = "RELEASED"
                           /\ \A d \in Calls \ {x} : rsv'[d] = rsv[d]
    BY <1>3, MarksRow
  <2> QED
    BY <2>1 DEF Kept
<1> QED
  BY <1>1, <1>2, <1>3 DEF Step, CallStep, Arrive, CheckCache, LockItem, OutOfStock,
                          FindReservation, ReadItem, LockUpdated, Remember, SetStock, AbortDeadlock

\* A response that was backed stays backed.
LEMMA BackedStays ==
    ASSUME \A r \in Calls : Kept(r), NEW response \in Response \cup {None}, NEW k,
           Backed(response, k)
    PROVE  Backed(response, k)'
<1>1. CASE response = None
  BY <1>1 DEF Backed
<1>2. CASE response # None
  <2>1. response.id \in Calls
    BY <1>2 DEF Response
  <2> QED
    BY <1>2, <2>1 DEF Backed, Kept
<1> QED
  BY <1>1, <1>2

\* A call whose thread takes no step.
LEMMA CallStays ==
    ASSUME IInv, \A r \in Calls : Kept(r), NEW d \in Calls,
           op'[d] = op[d], pc'[d] = pc[d], held'[d] = held[d], reply'[d] = reply[d],
           rsv'[d] # None => rsv[d] # None
    PROVE  KindInv(d)' /\ CallInv(d)'
<1>0. TypeOK /\ KindInv(d) /\ CallInv(d)
  BY DEF IInv
<1>1. KindInv(d)'
  BY <1>0 DEF KindInv, Asks
<1>2. pc'[d] \in {"read", "write"} => rsv'[op'[d].rsv] # None
  <2> SUFFICES ASSUME pc[d] \in {"read", "write"} PROVE rsv'[op[d].rsv] # None
    OBVIOUS
  <2>1. op[d].rsv \in Calls /\ rsv[op[d].rsv] # None
    BY ReleaseFinds
  <2> QED
    BY <2>1 DEF Kept
<1>3. pc'[d] = "remember" => Backed(ResponseOf(d), op[d].key)'
  <2> SUFFICES ASSUME pc[d] = "remember" PROVE Backed(ResponseOf(d), op[d].key)'
    OBVIOUS
  <2>2. PICK a \in Response : a = ResponseOf(d)
    BY <1>0, ResponseType
  <2>3. PICK k : k = op[d].key
    OBVIOUS
  <2>4. Backed(a, k)
    BY <1>0, <2>2, <2>3 DEF CallInv
  <2>5. Backed(a, k)'
    BY <2>4, BackedStays
  <2>6. ResponseOf(d)' = a /\ op'[d].key = k
    BY <2>2, <2>3 DEF ResponseOf
  <2> QED
    BY <2>5, <2>6 DEF Backed
<1>4. reply'[d] # None /\ reply'[d].code = 200 => Backed(reply[d].body, op[d].key)'
  <2> SUFFICES ASSUME reply[d] # None, reply[d].code = 200
               PROVE  Backed(reply[d].body, op[d].key)'
    OBVIOUS
  <2>1. reply[d] \in Reply
    BY <1>0 DEF TypeOK
  <2>2. PICK a \in Response \cup {None} : a = reply[d].body
    BY <2>1 DEF Reply
  <2>3. PICK k : k = op[d].key
    OBVIOUS
  <2>4. Backed(a, k)
    BY <1>0, <2>2, <2>3 DEF CallInv
  <2>5. Backed(a, k)'
    BY <2>4, BackedStays
  <2> QED
    BY <2>2, <2>3, <2>5 DEF Backed
<1> QED
  BY <1>0, <1>1, <1>2, <1>3, <1>4 DEF CallInv

\* A call that is answered.
LEMMA CallEnds ==
    ASSUME TypeOK, NEW c \in Calls, NEW code, NEW body, Finish(c, code, body),
           code = 200 => Backed(body, op[c].key)'
    PROVE  KindInv(c)' /\ CallInv(c)'
<1>1. pc'[c] = "done" /\ reply'[c] = [code |-> code, body |-> body]
  BY DEF Finish, Goto, TypeOK
<1>2. reply'[c].code = code /\ reply'[c].body = body
  BY <1>1
<1> QED
  BY <1>1, <1>2 DEF KindInv, CallInv, Backed

\* A step of a call keeps what is known of it.
LEMMA ActorStep ==
    ASSUME IInv, NEW c \in Calls, Step(c)
    PROVE  KindInv(c)' /\ CallInv(c)'
<1>0. TypeOK /\ KindInv(c) /\ CallInv(c)
  BY DEF IInv
<1>1. ASSUME NEW request \in Requests, Arrive(c, request) PROVE KindInv(c)' /\ CallInv(c)'
  <2>1. /\ pc[c] = "idle" /\ op'[c] = request
        /\ pc'[c] = IF request.kind = "setstock" THEN "setstock" ELSE "cache"
        /\ UNCHANGED <<held, reply, rsv>>
    BY <1>0, <1>1 DEF Arrive, Goto, TypeOK
  <2>2. request # None /\ request.kind \in {"reserve", "release", "setstock"}
    <3>1. request \in ReserveRequests \/ request \in ReleaseRequests \/ request \in SetStockRequests
      BY InventoryAssumption
    <3>2. request.kind \in {"reserve", "release", "setstock"}
      BY <3>1 DEF ReserveRequests, ReleaseRequests, SetStockRequests
    <3> QED
      BY <3>2, InventoryAssumption
  <2>3. reply'[c] = None /\ held'[c] = 0 /\ rsv'[c] = None
    BY <1>0, <2>1 DEF CallInv
  <2> QED
    BY <2>1, <2>2, <2>3 DEF KindInv, CallInv, Asks
<1>2. ASSUME CheckCache(c) PROVE KindInv(c)' /\ CallInv(c)'
  <2>1. pc[c] = "cache" /\ UNCHANGED <<op, held, rsv>>
    BY <1>2 DEF CheckCache
  <2>2. op[c].key \in Keys
    BY <1>0, <2>1, RequestShape DEF KindInv, Asks
  <2>3. PICK hit : hit = cache[op[c].key]
    OBVIOUS
  <2>4. CASE hit # None
    <3>1. Finish(c, 200, hit)
      BY <1>2, <2>3, <2>4 DEF CheckCache
    <3>2. Backed(hit, op[c].key)'
      BY <2>1, <2>2, <2>3 DEF IInv, CacheInv, Backed
    <3> QED
      BY <1>0, <3>1, <3>2, CallEnds
  <2>5. CASE hit = None
    <3>1. pc'[c] = (IF op[c].kind = "reserve" THEN "lock" ELSE "find") /\ reply' = reply
      BY <1>0, <1>2, <2>3, <2>5 DEF CheckCache, Goto, TypeOK
    <3>2. rsv'[c] = None
      BY <1>0, <2>1 DEF CallInv
    <3>3. reply'[c] # None /\ reply'[c].code = 200 => Backed(reply[c].body, op[c].key)'
      BY <1>0, <2>1, <3>1 DEF CallInv, Backed
    <3> QED
      BY <1>0, <2>1, <3>1, <3>2, <3>3 DEF KindInv, CallInv, Asks
  <2> QED
    BY <2>4, <2>5
<1>3. ASSUME LockItem(c) \/ LockUpdated(c) PROVE KindInv(c)' /\ CallInv(c)'
  <2>1. UNCHANGED <<op, pc, reply, rsv>> /\ pc[c] \in {"lock", "write"}
    BY <1>3 DEF LockItem, LockUpdated
  <2> QED
    BY <1>0, <2>1 DEF KindInv, CallInv, Asks, Backed
<1>4. ASSUME OutOfStock(c) PROVE KindInv(c)' /\ CallInv(c)'
  <2>1. PICK a : a = [id |-> c, status |-> "OUT_OF_STOCK"]
    OBVIOUS
  <2>2. Finish(c, 200, a)
    BY <1>4, <2>1 DEF OutOfStock
  <2>3. Backed(a, op[c].key)'
    BY <2>1 DEF Backed
  <2> QED
    BY <1>0, <2>2, <2>3, CallEnds
<1>5. ASSUME CommitReserve(c) PROVE KindInv(c)' /\ CallInv(c)'
  <2>1. pc[c] = "lock" /\ LocksAll(c) /\ UNCHANGED <<op, held>>
    BY <1>5 DEF CommitReserve
  <2>2. CASE KeyIsStored(op[c].key)
    <3>1. Finish(c, 500, None)
      BY <1>5, <2>2 DEF CommitReserve
    <3> QED
      BY <1>0, <3>1, CallEnds
  <2>3. CASE ~KeyIsStored(op[c].key)
    <3>1. /\ rsv'[c] # None /\ pc'[c] = "remember" /\ reply' = reply
          /\ rsv'[c] = [key |-> op[c].key, items |-> op[c].items, status |-> "RESERVED"]
          /\ \A d \in Calls \ {c} : rsv'[d] = rsv[d]
      BY <1>5, <2>3, InsertsRow
    <3>2. Asks(c, "reserve")
      BY <1>0, <2>1 DEF KindInv
    <3>3. rsv'[c].key = op'[c].key
      BY <2>1, <3>1
    <3>4. ResponseOf(c)' = [id |-> c, status |-> "RESERVED"]
      BY <2>1, <3>2 DEF ResponseOf, Asks
    <3>5. Backed(ResponseOf(c), op[c].key)'
      BY <3>1, <3>3, <3>4 DEF Backed
    <3>6. reply'[c] # None /\ reply'[c].code = 200 => Backed(reply[c].body, op[c].key)'
      <4> SUFFICES ASSUME reply[c] # None, reply[c].code = 200
                   PROVE  Backed(reply[c].body, op[c].key)'
        BY <3>1
      <4>1. PICK a \in Response \cup {None} : a = reply[c].body
        <5>1. reply[c] \in Reply
          BY <1>0 DEF TypeOK
        <5> QED
          BY <5>1 DEF Reply
      <4>2. PICK k : k = op[c].key
        OBVIOUS
      <4>3. Backed(a, k)
        BY <1>0, <4>1, <4>2 DEF CallInv
      <4>4. Backed(a, k)'
        BY <4>3, BackedStays, RowsStay
      <4> QED
        BY <2>1, <3>1, <4>1, <4>2, <4>4 DEF Backed
    <3> QED
      BY <2>1, <3>1, <3>2, <3>5, <3>6 DEF KindInv, CallInv, Asks
  <2> QED
    BY <2>2, <2>3
<1>6. ASSUME FindReservation(c) PROVE KindInv(c)' /\ CallInv(c)'
  <2>1. pc[c] = "find" /\ UNCHANGED <<op, held, rsv>>
    BY <1>6 DEF FindReservation
  <2>2. CASE rsv[op[c].rsv] = None
    <3>1. Finish(c, 404, None)
      BY <1>6, <2>2 DEF FindReservation
    <3> QED
      BY <1>0, <3>1, CallEnds
  <2>3. CASE rsv[op[c].rsv] # None
    <3>1. pc'[c] = "read" /\ reply' = reply
      BY <1>0, <1>6, <2>3 DEF FindReservation, Goto, TypeOK
    <3>2. rsv'[c] = None
      BY <1>0, <2>1 DEF CallInv
    <3>3. reply'[c] # None /\ reply'[c].code = 200 => Backed(reply[c].body, op[c].key)'
      BY <1>0, <2>1, <3>1 DEF CallInv, Backed
    <3> QED
      BY <1>0, <2>1, <2>3, <3>1, <3>2, <3>3 DEF KindInv, CallInv, Asks
  <2> QED
    BY <2>2, <2>3
<1>7. ASSUME CommitRelease(c) PROVE KindInv(c)' /\ CallInv(c)'
  <2>1. pc[c] = "write" /\ pc'[c] = "remember" /\ UNCHANGED <<op, held, reply>>
    BY <1>0, <1>7 DEF CommitRelease, Goto, TypeOK
  <2>2. Asks(c, "release")
    BY <1>0, <2>1 DEF KindInv
  <2>3. rsv'[op[c].rsv] # None
    BY <1>7, MarksRow
  <2>4. ResponseOf(c)' = [id |-> op[c].rsv, status |-> "RELEASED"]
    BY <2>1, <2>2 DEF ResponseOf, Asks
  <2>5. Backed(ResponseOf(c), op[c].key)'
    BY <2>3, <2>4 DEF Backed
  <2>6. reply'[c] # None /\ reply'[c].code = 200 => Backed(reply[c].body, op[c].key)'
    <3> SUFFICES ASSUME reply[c] # None, reply[c].code = 200
                 PROVE  Backed(reply[c].body, op[c].key)'
      BY <2>1
    <3>1. PICK a \in Response \cup {None} : a = reply[c].body
      <4>1. reply[c] \in Reply
        BY <1>0 DEF TypeOK
      <4> QED
        BY <4>1 DEF Reply
    <3>2. PICK k : k = op[c].key
      OBVIOUS
    <3>3. Backed(a, k)
      BY <1>0, <3>1, <3>2 DEF CallInv
    <3>4. Backed(a, k)'
      BY <3>3, BackedStays, RowsStay
    <3> QED
      BY <2>1, <3>1, <3>2, <3>4 DEF Backed
  <2> QED
    BY <2>1, <2>2, <2>5, <2>6 DEF KindInv, CallInv, Asks
<1>8. ASSUME Remember(c) PROVE KindInv(c)' /\ CallInv(c)'
  <2>1. pc[c] = "remember" /\ UNCHANGED <<op, rsv>>
    BY <1>8 DEF Remember
  <2>2. PICK a : a = ResponseOf(c)
    OBVIOUS
  <2>3. Finish(c, 200, a)
    BY <1>8, <2>2 DEF Remember
  <2>4. Backed(a, op[c].key)'
    BY <1>0, <2>1, <2>2 DEF CallInv, Backed
  <2> QED
    BY <1>0, <2>3, <2>4, CallEnds
<1>9. ASSUME SetStock(c) PROVE KindInv(c)' /\ CallInv(c)'
  <2>1. Finish(c, 200, None)
    BY <1>9 DEF SetStock
  <2>2. Backed(None, op[c].key)'
    BY DEF Backed
  <2> QED
    BY <1>0, <2>1, <2>2, CallEnds
<1>10. ASSUME AbortDeadlock(c) PROVE KindInv(c)' /\ CallInv(c)'
  <2>1. Finish(c, 500, None)
    BY <1>10 DEF AbortDeadlock
  <2> QED
    BY <1>0, <2>1, CallEnds
<1>11. ASSUME ReadItem(c) PROVE KindInv(c)' /\ CallInv(c)'
  <2>1. pc[c] = "read" /\ pc'[c] \in {"read", "write"} /\ UNCHANGED <<op, rsv, reply>>
    BY <1>0, <1>11 DEF ReadItem, Goto, TypeOK
  <2>2. rsv'[c] = None
    BY <1>0, <2>1 DEF CallInv
  <2>3. reply'[c] # None /\ reply'[c].code = 200 => Backed(reply[c].body, op[c].key)'
    BY <1>0, <2>1 DEF CallInv, Backed
  <2> QED
    BY <1>0, <2>1, <2>2, <2>3 DEF KindInv, CallInv, Asks
<1> QED
  BY <1>1, <1>2, <1>3, <1>4, <1>5, <1>6, <1>7, <1>8, <1>9, <1>10, <1>11 DEF Step, CallStep

\* Every step keeps what is known of every call.
LEMMA NextCalls ==
    ASSUME IInv, [Next]_vars
    PROVE  \A d \in Calls : KindInv(d)' /\ CallInv(d)'
<1>0. TypeOK /\ \A d \in Calls : KindInv(d) /\ CallInv(d)
  BY DEF IInv
<1>1. ASSUME NEW c \in Calls, Step(c), NEW d \in Calls PROVE KindInv(d)' /\ CallInv(d)'
  <2>1. CASE d = c
    BY <1>1, <2>1, ActorStep
  <2>2. CASE d # c
    <3>1. /\ op'[d] = op[d] /\ pc'[d] = pc[d] /\ held'[d] = held[d] /\ reply'[d] = reply[d]
      BY <1>0, <1>1, <2>2, OthersStay
    <3>2. (\A r \in Calls : Kept(r)) /\ (rsv'[d] # None => rsv[d] # None)
      BY <1>1, <2>2, RowsStay
    <3> QED
      BY <3>1, <3>2, CallStays
  <2> QED
    BY <2>1, <2>2
<1>2. ASSUME Restart, NEW d \in Calls PROVE KindInv(d)' /\ CallInv(d)'
  <2>1. /\ pc'[d] = pc[d] \/ pc'[d] = "dead"
        /\ pc'[d] # "dead" => pc'[d] \in {"idle", "done"}
        /\ UNCHANGED <<op, held, reply, rsv>>
    BY <1>0, <1>2 DEF Restart, TypeOK, Active
  <2>2. rsv[d] # None => pc'[d] \in {"remember", "done", "dead"}
    BY <1>0, <2>1 DEF CallInv
  <2>3. reply'[d] # None /\ reply'[d].code = 200 => Backed(reply[d].body, op[d].key)'
    BY <1>0, <2>1 DEF CallInv, Backed
  <2> QED
    BY <1>0, <2>1, <2>2, <2>3 DEF KindInv, CallInv
<1>3. ASSUME UNCHANGED vars, NEW d \in Calls PROVE KindInv(d)' /\ CallInv(d)'
  BY <1>3, CallStays DEF vars, Kept
<1> QED
  BY <1>1, <1>2, <1>3 DEF Next, Step

\* The cache holds responses of committed work only.
LEMMA NextCache ==
    ASSUME IInv, [Next]_vars
    PROVE  CacheInv'
<1>0. TypeOK /\ CacheInv
  BY DEF IInv
<1>1. ASSUME \A r \in Calls : Kept(r), NEW k \in Keys, cache'[k] = cache[k]
      PROVE  Backed(cache[k], k)'
  <2>1. PICK a \in Response \cup {None} : a = cache[k]
    BY <1>0 DEF TypeOK
  <2>2. Backed(a, k)
    BY <1>0, <2>1 DEF CacheInv
  <2>3. Backed(a, k)'
    BY <1>1, <2>2, BackedStays
  <2> QED
    BY <1>1, <2>1, <2>3 DEF Backed
<1>2. ASSUME NEW c \in Calls, OutOfStock(c) PROVE CacheInv'
  <2>1. PICK a : a = [id |-> c, status |-> "OUT_OF_STOCK"]
    OBVIOUS
  <2>2. cache' = [cache EXCEPT ![op[c].key] = a] /\ rsv' = rsv
    BY <1>2, <2>1 DEF OutOfStock
  <2>3. ASSUME NEW k \in Keys PROVE Backed(cache[k], k)'
    <3>1. cache'[k] = a \/ cache'[k] = cache[k]
      BY <1>0, <2>2 DEF TypeOK
    <3>2. CASE cache'[k] = a
      BY <2>1, <3>2 DEF Backed
    <3>3. CASE cache'[k] = cache[k]
      BY <1>1, <2>2, <3>3 DEF Kept
    <3> QED
      BY <3>1, <3>2, <3>3
  <2> QED
    BY <2>3 DEF CacheInv
<1>3. ASSUME NEW c \in Calls, Remember(c) PROVE CacheInv'
  <2>1. pc[c] = "remember" /\ rsv' = rsv
    BY <1>3 DEF Remember
  <2>2. PICK a \in Response, key \in Keys : a = ResponseOf(c) /\ key = op[c].key
    BY <1>0, <2>1, ResponseType DEF IInv
  <2>3. cache' = [cache EXCEPT ![key] = a]
    BY <1>3, <2>2 DEF Remember
  <2>4. Backed(a, key)
    BY <2>1, <2>2 DEF IInv, CallInv
  <2>5. ASSUME NEW k \in Keys PROVE Backed(cache[k], k)'
    <3>1. CASE k = key
      <4>1. cache'[k] = a
        BY <1>0, <2>3, <3>1 DEF TypeOK
      <4> QED
        BY <2>1, <2>4, <3>1, <4>1 DEF Backed
    <3>2. CASE k # key
      <4>1. cache'[k] = cache[k]
        BY <1>0, <2>3, <3>2 DEF TypeOK
      <4> QED
        BY <1>1, <2>1, <4>1 DEF Kept
    <3> QED
      BY <3>1, <3>2
  <2> QED
    BY <2>5 DEF CacheInv
<1>4. CASE Restart
  <2>1. \A k \in Keys : cache'[k] = None
    BY <1>4 DEF Restart
  <2> QED
    BY <2>1 DEF CacheInv, Backed
<1>5. ASSUME \A r \in Calls : Kept(r), cache' = cache PROVE CacheInv'
  BY <1>1, <1>5 DEF CacheInv
<1>6. CASE UNCHANGED vars
  BY <1>5, <1>6 DEF vars, Kept
<1>7. ASSUME NEW c \in Calls, Step(c), ~OutOfStock(c), ~Remember(c) PROVE CacheInv'
  <2>1. cache' = cache
    BY <1>7 DEF Step, CallStep, Arrive, CheckCache, LockItem, CommitReserve,
                FindReservation, ReadItem, LockUpdated, CommitRelease, SetStock, AbortDeadlock
  <2>2. \A r \in Calls : Kept(r)
    BY <1>7, RowsStay
  <2> QED
    BY <1>5, <2>1, <2>2
<1> QED
  BY <1>2, <1>3, <1>4, <1>6, <1>7 DEF Next, Step

-----------------------------------------------------------------------------
(* Locks and stock *)

\* While a call holds the lock of a row, nobody else takes the lock or writes
\* the row.
LEMMA LockProtects ==
    ASSUME IInv, NEW c \in Calls, Step(c), NEW d \in Calls, d # c,
           NEW i \in Items, lock[i] = d
    PROVE  lock'[i] = d /\ stock'[i] = stock[i]
<1>0. TypeOK /\ d # None
  BY InventoryAssumption DEF IInv
<1>1. UnlockAll(c) => lock'[i] = d
  BY <1>0, UnlockType
<1>2. CASE LockItem(c) \/ LockUpdated(c)
  <2>1. /\ lock[NextRow(c)] \in {None, c} /\ stock' = stock
        /\ lock' = [lock EXCEPT ![NextRow(c)] = c]
    BY <1>2 DEF LockItem, LockUpdated, RowIsFree
  <2>2. NextRow(c) # i
    BY <1>0, <2>1
  <2> QED
    BY <1>0, <2>1, <2>2 DEF TypeOK
<1>3. CASE OutOfStock(c) \/ AbortDeadlock(c)
  BY <1>1, <1>3 DEF OutOfStock, AbortDeadlock
<1>4. CASE CommitReserve(c)
  <2>1. pc[c] = "lock" /\ LocksAll(c) /\ UnlockAll(c) /\ (stock' = stock \/ stock' = Decremented(c))
    BY <1>4 DEF CommitReserve
  <2>2. i \notin Range(op[c].items)
    BY <2>1, ReserveHolds
  <2>3. Decremented(c)[i] = stock[i]
    BY <2>2 DEF Decremented
  <2> QED
    BY <1>1, <2>1, <2>3
<1>5. CASE CommitRelease(c)
  <2>1. pc[c] = "write" /\ LocksAll(c) /\ UnlockAll(c) /\ stock' = Restored(c)
    BY <1>5 DEF CommitRelease
  <2>2. op[c].kind = "release"
    BY <2>1, ReleaseFinds
  <2>3. i \notin UpdatedRows(c)
    BY <2>1, <2>2 DEF LocksAll
  <2>4. Restored(c)[i] = stock[i]
    BY <2>3 DEF Restored
  <2> QED
    BY <1>1, <2>1, <2>4
<1>6. CASE SetStock(c)
  <2>1. /\ lock[op[c].item] \in {None, c} /\ lock' = lock
        /\ stock' = [stock EXCEPT ![op[c].item] = op[c].stock]
    BY <1>6 DEF SetStock, RowIsFree
  <2>2. op[c].item # i
    BY <1>0, <2>1
  <2> QED
    BY <1>0, <2>1, <2>2 DEF TypeOK
<1>7. CASE UNCHANGED <<lock, stock>>
  BY <1>7
<1> QED
  BY <1>2, <1>3, <1>4, <1>5, <1>6, <1>7 DEF Step, CallStep, Arrive, CheckCache, FindReservation,
                                            ReadItem, Remember

\* Every step keeps the locks of the reserves and the stock under them.
LEMMA NextLocks ==
    ASSUME IInv, [Next]_vars
    PROVE  \A d \in Calls : LockInv(d)'
<1>0. TypeOK /\ TypeOK' /\ \A d \in Calls : KindInv(d) /\ CallInv(d) /\ LockInv(d)
  BY NextType DEF IInv
<1>1. ASSUME NEW c \in Calls, Step(c), NEW d \in Calls, d # c PROVE LockInv(d)'
  <2>1. op'[d] = op[d] /\ pc'[d] = pc[d] /\ held'[d] = held[d]
    BY <1>0, <1>1, OthersStay
  <2> SUFFICES ASSUME pc[d] = "lock"
               PROVE  /\ held[d] <= Len(op[d].items)
                      /\ \A k \in 1..held[d] : /\ lock'[op[d].items[k]] = d
                                               /\ Available(op[d].items[k])'
    BY <2>1 DEF LockInv, Available
  <2>2. /\ held[d] <= Len(op[d].items)
        /\ \A k \in 1..held[d] : lock[op[d].items[k]] = d /\ Available(op[d].items[k])
    BY <1>0 DEF LockInv
  <2>3. op[d].items \in Seq(Items) /\ held[d] \in Nat
    <3>1. Asks(d, "reserve")
      BY <1>0 DEF KindInv
    <3> QED
      BY <1>0, <3>1, RequestShape DEF Asks, TypeOK
  <2>4. ASSUME NEW k \in 1..held[d] PROVE lock'[op[d].items[k]] = d /\ Available(op[d].items[k])'
    <3>1. PICK i \in Items : i = op[d].items[k]
      BY <2>2, <2>3
    <3>2. lock'[i] = d /\ stock'[i] = stock[i]
      BY <1>1, <2>2, <3>1, LockProtects
    <3>3. Available(i)'
      BY <2>2, <3>1, <3>2 DEF Available
    <3> QED
      BY <2>1, <3>1, <3>2, <3>3 DEF Available
  <2> QED
    BY <2>2, <2>4
<1>2. ASSUME NEW c \in Calls, LockItem(c) PROVE LockInv(c)'
  <2>1. pc[c] = "lock" /\ ~LocksAll(c) /\ Available(NextRow(c))
    BY <1>2 DEF LockItem
  <2>2. PICK s \in Seq(Items), h \in Nat :
            /\ s = op[c].items /\ h = held[c] /\ h + 1 \in 1..Len(s)
            /\ NextRow(c) = s[h + 1] /\ s[h + 1] \in Items
    <3>1. /\ op[c].items \in Seq(Items) /\ held[c] + 1 \in 1..Len(op[c].items)
          /\ NextRow(c) = op[c].items[held[c] + 1] /\ NextRow(c) \in Items
      BY <2>1, NextRowType
    <3>2. held[c] \in Nat
      BY <1>0 DEF TypeOK
    <3> QED
      BY <3>1, <3>2, Zenon
  <2>3. /\ lock' = [lock EXCEPT ![s[h + 1]] = c] /\ held'[c] = h + 1
        /\ UNCHANGED <<op, pc, stock>>
    BY <1>0, <1>2, <2>2 DEF LockItem, TypeOK
  <2>4. \A k \in 1..h : lock[s[k]] = c /\ Available(s[k]) /\ s[k] \in Items
    BY <1>0, <2>1, <2>2 DEF LockInv
  <2>5. \A i \in Items : lock'[i] = IF i = s[h + 1] THEN c ELSE lock[i]
    BY <1>0, <2>3 DEF TypeOK
  <2>6. \A k \in 1..(h + 1) : lock'[s[k]] = c /\ Available(s[k])
    BY <2>1, <2>2, <2>4, <2>5
  <2>7. \A k \in 1..(h + 1) : Available(s[k])'
    BY <2>3, <2>6 DEF Available
  <2>8. h + 1 <= Len(s)
    BY <2>2
  <2> QED
    BY <2>2, <2>3, <2>6, <2>7, <2>8 DEF LockInv, Available
<1>3. ASSUME NEW c \in Calls, CheckCache(c) PROVE LockInv(c)'
  <2>1. pc[c] = "cache" /\ UNCHANGED <<op, held>>
    BY <1>3 DEF CheckCache
  <2>2. held'[c] = 0
    BY <1>0, <2>1 DEF CallInv
  <2> SUFFICES ASSUME pc'[c] = "lock" PROVE LockInv(c)'
    BY DEF LockInv
  <2>3. KindInv(c)'
    BY <1>3, NextCalls
  <2>4. op[c] # None /\ op[c].kind = "reserve"
    BY <2>1, <2>3 DEF KindInv, Asks
  <2>5. op[c].items \in Seq(Items)
    BY <1>0, <2>4, RequestShape
  <2> QED
    BY <2>1, <2>2, <2>5 DEF LockInv
<1>4. ASSUME NEW c \in Calls, Step(c), ~LockItem(c), ~CheckCache(c) PROVE pc'[c] # "lock"
  <2>1. pc \in [Calls -> Active \cup {"idle", "done", "dead"}]
    BY <1>0 DEF TypeOK
  <2>2. CASE (\E request \in Requests : Arrive(c, request)) \/ OutOfStock(c) \/ CommitReserve(c)
    BY <2>1, <2>2 DEF Arrive, OutOfStock, CommitReserve, Finish, Goto
  <2>3. CASE FindReservation(c) \/ ReadItem(c) \/ LockUpdated(c)
    BY <2>1, <2>3 DEF FindReservation, ReadItem, LockUpdated, Finish, Goto
  <2>4. CASE CommitRelease(c) \/ Remember(c) \/ SetStock(c) \/ AbortDeadlock(c)
    BY <2>1, <2>4 DEF CommitRelease, Remember, SetStock, AbortDeadlock, Finish, Goto
  <2> QED
    BY <1>4, <2>2, <2>3, <2>4 DEF Step, CallStep
<1>5. ASSUME NEW c \in Calls, Step(c) PROVE LockInv(c)'
  BY <1>2, <1>3, <1>4, <1>5 DEF LockInv
<1>6. ASSUME Restart, NEW d \in Calls PROVE LockInv(d)'
  <2>1. pc'[d] # "lock"
    BY <1>0, <1>6 DEF Restart, TypeOK, Active
  <2> QED
    BY <2>1 DEF LockInv
<1>7. ASSUME UNCHANGED vars, NEW d \in Calls PROVE LockInv(d)'
  BY <1>0, <1>7 DEF vars, LockInv, Available
<1> QED
  BY <1>1, <1>5, <1>6, <1>7 DEF Next, Step

\* A request that has arrived is not forgotten.
LEMMA RequestsStay ==
    ASSUME IInv, [Next]_vars
    PROVE  \A d \in Calls : op[d] # None => op'[d] = op[d]
<1>1. ASSUME NEW c \in Calls, Step(c), NEW d \in Calls, op[d] # None PROVE op'[d] = op[d]
  <2>1. CASE d # c
    BY <1>1, <2>1, OthersStay DEF IInv
  <2>2. CASE d = c
    <3>1. pc[c] # "idle"
      BY <1>1, <2>2 DEF IInv, KindInv
    <3> QED
      BY <1>1, <2>2, <3>1 DEF Step, CallStep, Arrive, CheckCache, LockItem, OutOfStock, CommitReserve,
                FindReservation, ReadItem, LockUpdated, CommitRelease, Remember, SetStock, AbortDeadlock
  <2> QED
    BY <2>1, <2>2
<1>2. Restart \/ UNCHANGED vars => op' = op
  BY DEF Restart, vars
<1> QED
  BY <1>1, <1>2 DEF Next, Step

\* What holds of the requests that have arrived held of the earlier ones.
LEMMA RequestsBefore ==
    ASSUME IInv, [Next]_vars
    PROVE  (OnlyReserves' => OnlyReserves) /\ (Ordinary' => Ordinary)
<1>1. \A d \in Calls : op[d] # None => op'[d] = op[d]
  BY RequestsStay
<1>2. OnlyReserves' => OnlyReserves
  BY <1>1 DEF OnlyReserves
<1>3. NoNegativeRestock' => NoNegativeRestock
  BY <1>1 DEF NoNegativeRestock
<1> QED
  BY <1>2, <1>3 DEF Ordinary, DistinctItems

\* What a commit or a set_stock writes: a number, and not a negative one if the
\* requests are ordinary.
LEMMA StockWritten ==
    ASSUME IInv, NEW c \in Calls, Step(c), NEW i \in Items
    PROVE  /\ stock[i] # None => stock'[i] # None
           /\ Ordinary /\ stock'[i] # None => stock'[i] >= 0
<1>0. TypeOK /\ None \notin Int
  BY InventoryAssumption DEF IInv
<1>1. stock[i] # None => stock[i] \in Int
  BY <1>0 DEF TypeOK
<1>2. Ordinary /\ stock[i] # None => stock[i] >= 0
  BY DEF IInv, NoOversell, Ordinary
<1>3. CASE stock'[i] = stock[i]
  BY <1>2, <1>3
<1>4. CASE CommitReserve(c) /\ stock' # stock
  <2>1. pc[c] = "lock" /\ LocksAll(c) /\ stock' = Decremented(c)
    BY <1>4 DEF CommitReserve
  <2>2. CASE i \notin Range(op[c].items)
    BY <1>3, <2>1, <2>2 DEF Decremented
  <2>3. CASE i \in Range(op[c].items)
    <3>1. op[c].items \in Seq(Items) /\ Available(i) /\ op[c].kind = "reserve"
      BY <2>1, <2>3, ReserveHolds
    <3>2. PICK n \in Nat : n = Occurrences(op[c].items, i)
      BY <3>1, OccurrencesType
    <3>3. stock'[i] = stock[i] - n /\ stock[i] \in Int /\ stock[i] > 0
      BY <1>1, <2>1, <2>3, <3>1, <3>2 DEF Decremented, Available
    <3>4. ASSUME Ordinary PROVE n <= 1
      <4>1. op[c] \in Requests
        <5>1. Asks(c, "reserve")
          BY <2>1 DEF IInv, KindInv
        <5> QED
          BY <1>0, <5>1, RequestShape DEF Asks
      <4>2. \A j, k \in DOMAIN op[c].items : op[c].items[j] = op[c].items[k] => j = k
        BY <3>1, <3>4, <4>1 DEF Ordinary, DistinctItems
      <4> QED
        BY <3>1, <3>2, <4>2, OccurrencesType
    <3>5. stock'[i] \in Int
      BY <3>3
    <3> QED
      BY <1>0, <3>3, <3>4, <3>5
  <2> QED
    BY <2>2, <2>3
<1>5. CASE CommitRelease(c)
  <2>1. pc[c] = "write" /\ stock' = Restored(c)
    BY <1>5 DEF CommitRelease
  <2>2. CASE i \notin UpdatedRows(c)
    BY <1>3, <2>1, <2>2 DEF Restored
  <2>3. CASE i \in UpdatedRows(c)
    <3>1. PICK n \in Nat : n = Occurrences(rsv[op[c].rsv].items, i)
      BY <2>1, ReleaseFinds, OccurrencesType
    <3>2. seen[c][i] # None /\ seen[c][i] \in Int
      BY <1>0, <2>3 DEF UpdatedRows, TypeOK
    <3>3. stock'[i] = seen[c][i] + n
      BY <2>1, <2>3, <3>1 DEF Restored
    <3>4. Ordinary => seen[c][i] >= 0
      BY <3>2 DEF IInv, StockInv
    <3>5. stock'[i] \in Int
      BY <3>2, <3>3
    <3> QED
      BY <1>0, <3>2, <3>3, <3>4, <3>5
  <2> QED
    BY <2>2, <2>3
<1>6. CASE SetStock(c)
  <2>1. pc[c] = "setstock" /\ stock' = [stock EXCEPT ![op[c].item] = op[c].stock]
    BY <1>6 DEF SetStock
  <2>2. op[c].stock \in Int /\ (Ordinary => op[c].stock >= 0)
    <3>1. Asks(c, "setstock")
      BY <2>1 DEF IInv, KindInv
    <3> QED
      BY <1>0, <3>1, RequestShape DEF Asks, Ordinary, NoNegativeRestock
  <2>3. stock'[i] = stock[i] \/ stock'[i] = op[c].stock
    BY <1>0, <2>1 DEF TypeOK
  <2> QED
    BY <1>0, <1>3, <2>2, <2>3
<1> QED
  BY <1>3, <1>4, <1>5, <1>6 DEF Step, CallStep, Arrive, CheckCache, LockItem, OutOfStock,
                                FindReservation, ReadItem, LockUpdated, Remember, AbortDeadlock

\* What a release reads was in the table.
LEMMA SeenRead ==
    ASSUME IInv, NEW c \in Calls, Step(c), NEW d \in Calls, NEW i \in Items, seen'[d][i] # None
    PROVE  seen'[d][i] = seen[d][i] \/ seen'[d][i] = stock[i]
<1>0. TypeOK
  BY DEF IInv
<1>1. CASE d # c
  BY <1>0, <1>1, OthersStay
<1>2. CASE d = c /\ ReadItem(c)
  <2>1. PICK k : k = rsv[op[c].rsv].items[held[c] + 1]
    OBVIOUS
  <2>2. seen' = [seen EXCEPT ![c][k] = IF @ = None THEN stock[k] ELSE @]
    BY <1>2, <2>1 DEF ReadItem
  <2>3. seen \in [Calls -> [Items -> Int \cup {None}]]
    BY <1>0 DEF TypeOK
  <2> QED
    BY <1>2, <2>2, <2>3
<1>3. CASE ~ReadItem(c)
  <2>1. seen' = seen
    BY <1>3 DEF Step, CallStep, Arrive, CheckCache, LockItem, OutOfStock, CommitReserve,
                FindReservation, LockUpdated, CommitRelease, Remember, SetStock, AbortDeadlock
  <2> QED
    BY <2>1
<1> QED
  BY <1>1, <1>2, <1>3

\* Every step keeps the rows, and keeps the stock from becoming negative.
LEMMA NextStock ==
    ASSUME IInv, [Next]_vars
    PROVE  StockInv' /\ NoOversell'
<1>0. StockInv /\ NoOversell /\ (Ordinary' => Ordinary)
  BY RequestsBefore DEF IInv
<1>1. ASSUME NEW c \in Calls, Step(c) PROVE StockInv' /\ NoOversell'
  <2>1. \A i \in Items : InitialStock[i] # None => stock'[i] # None
    BY <1>0, <1>1, StockWritten DEF StockInv
  <2>2. Ordinary => \A i \in Items : stock'[i] # None => stock'[i] >= 0
    BY <1>1, StockWritten
  <2>3. ASSUME Ordinary, NEW d \in Calls, NEW i \in Items, seen'[d][i] # None
        PROVE  seen'[d][i] >= 0
    <3>1. seen'[d][i] = seen[d][i] \/ seen'[d][i] = stock[i]
      BY <1>1, <2>3, SeenRead
    <3> QED
      BY <1>0, <2>3, <3>1 DEF StockInv, NoOversell, Ordinary
  <2>4. NoOversell'
    <3>1. Ordinary' => \A i \in Items : stock'[i] # None => stock'[i] >= 0
      BY <1>0, <2>2
    <3> QED
      BY <3>1 DEF NoOversell, Ordinary
  <2>5. StockInv'
    BY <1>0, <2>1, <2>3 DEF StockInv
  <2> QED
    BY <2>4, <2>5
<1>2. CASE UNCHANGED <<stock, seen>>
  <2>1. StockInv'
    BY <1>0, <1>2 DEF StockInv
  <2>2. Ordinary' => \A i \in Items : stock'[i] # None => stock'[i] >= 0
    BY <1>0, <1>2 DEF NoOversell, Ordinary
  <2> QED
    BY <2>1, <2>2 DEF NoOversell, Ordinary
<1>3. Restart \/ UNCHANGED vars => UNCHANGED <<stock, seen>>
  BY DEF Restart, vars
<1> QED
  BY <1>1, <1>2, <1>3 DEF Next, Step

-----------------------------------------------------------------------------
(* Units *)

\* The units of an item.
LEMMA UnitsElements ==
    ASSUME NEW i, NEW u
    PROVE  u \in Units(i) <=>
              \E r \in Calls : /\ rsv[r] # None /\ rsv[r].status = "RESERVED"
                               /\ u \in {r} \X {k \in DOMAIN rsv[r].items : rsv[r].items[k] = i}
  BY DEF Units

\* The same set after a step.
LEMMA UnitsElementsNext ==
    ASSUME NEW i, NEW u
    PROVE  u \in Units(i)' <=>
              \E r \in Calls : /\ rsv'[r] # None /\ rsv'[r].status = "RESERVED"
                               /\ u \in {r} \X {k \in DOMAIN rsv'[r].items : rsv'[r].items[k] = i}
  BY DEF Units

\* The commit of a reserve adds one unit for each entry.
LEMMA UnitsAdded ==
    ASSUME IInv, NEW c \in Calls, CommitReserve(c), ~KeyIsStored(op[c].key), NEW i \in Items
    PROVE  /\ IsFiniteSet(Units(i))'
           /\ Reserved(i)' = Reserved(i) + Occurrences(op[c].items, i)
           /\ Reserved(i) \in Nat
<1>1. /\ rsv[c] = None /\ rsv'[c] # None /\ \A d \in Calls \ {c} : rsv'[d] = rsv[d]
      /\ rsv'[c] = [key |-> op[c].key, items |-> op[c].items, status |-> "RESERVED"]
  BY InsertsRow
<1>2. PICK s \in Seq(Items) : s = op[c].items
  BY ReserveHolds DEF CommitReserve
<1>3. rsv'[c].items = s /\ rsv'[c].status = "RESERVED"
  BY <1>1, <1>2
<1>4. PICK K : K = {k \in DOMAIN s : s[k] = i}
  OBVIOUS
<1>5. PICK U : U = Units(i)
  OBVIOUS
<1>6. Units(i)' = U \cup ({c} \X K)
  <2>1. ASSUME NEW u \in Units(i)' PROVE u \in U \cup ({c} \X K)
    <3>1. PICK r \in Calls : /\ rsv'[r] # None /\ rsv'[r].status = "RESERVED"
                             /\ u \in {r} \X {k \in DOMAIN rsv'[r].items : rsv'[r].items[k] = i}
      BY <2>1, UnitsElementsNext
    <3>2. CASE r = c
      BY <1>3, <1>4, <3>1, <3>2
    <3>3. CASE r # c
      <4>1. rsv'[r] = rsv[r]
        BY <1>1, <3>3
      <4> QED
        BY <1>5, <3>1, <4>1, UnitsElements
    <3> QED
      BY <3>2, <3>3
  <2>2. ASSUME NEW u \in U PROVE u \in Units(i)'
    <3>1. PICK r \in Calls : /\ rsv[r] # None /\ rsv[r].status = "RESERVED"
                             /\ u \in {r} \X {k \in DOMAIN rsv[r].items : rsv[r].items[k] = i}
      BY <1>5, <2>2, UnitsElements
    <3>2. rsv'[r] = rsv[r]
      BY <1>1, <3>1
    <3> QED
      BY <3>1, <3>2, UnitsElementsNext
  <2>3. ASSUME NEW u \in {c} \X K PROVE u \in Units(i)'
    <3>1. u \in {c} \X {k \in DOMAIN rsv'[c].items : rsv'[c].items[k] = i}
      BY <1>3, <1>4, <2>3
    <3> QED
      BY <1>1, <1>3, <3>1, UnitsElementsNext
  <2> QED
    BY <2>1, <2>2, <2>3
<1>7. U \cap ({c} \X K) = {}
  <2> SUFFICES ASSUME NEW u \in U, u \in {c} \X K PROVE FALSE
    OBVIOUS
  <2>1. PICK r \in Calls : /\ rsv[r] # None
                           /\ u \in {r} \X {k \in DOMAIN rsv[r].items : rsv[r].items[k] = i}
    BY <1>5, UnitsElements
  <2>2. u[1] = r /\ u[1] = c
    BY <2>1
  <2> QED
    BY <1>1, <2>1, <2>2
<1>8. IsFiniteSet(K) /\ Cardinality(K) \in Nat /\ Cardinality(K) = Occurrences(op[c].items, i)
  BY <1>2, <1>4, OccurrencesType DEF Occurrences
<1>9. IsFiniteSet({c}) /\ Cardinality({c}) = 1
  BY FS_Singleton
<1>10. IsFiniteSet({c} \X K) /\ Cardinality({c} \X K) = Cardinality(K)
  <2>1. IsFiniteSet({c} \X K) /\ Cardinality({c} \X K) = Cardinality({c}) * Cardinality(K)
    BY <1>8, <1>9, FS_Product
  <2> QED
    BY <1>8, <1>9, <2>1
<1>11. IsFiniteSet(U) /\ Cardinality(U) \in Nat
  BY <1>5, FS_CardinalityType DEF IInv, UnitsInv
<1>12. /\ IsFiniteSet(U \cup ({c} \X K))
       /\ Cardinality(U \cup ({c} \X K)) = Cardinality(U) + Cardinality({c} \X K) - Cardinality(U \cap ({c} \X K))
  BY <1>10, <1>11, FS_Union
<1>13. Cardinality(U \cap ({c} \X K)) = 0
  BY <1>7, FS_EmptySet
<1>14. Cardinality(U \cup ({c} \X K)) = Cardinality(U) + Cardinality(K)
  BY <1>8, <1>10, <1>11, <1>12, <1>13
<1> QED
  BY <1>5, <1>6, <1>8, <1>11, <1>12, <1>14 DEF Reserved

\* The commit of a release adds none.
LEMMA UnitsReleased ==
    ASSUME IInv, NEW c \in Calls, CommitRelease(c), NEW i
    PROVE  Units(i)' \subseteq Units(i)
<1>1. PICK x \in Calls : rsv'[x].status = "RELEASED" /\ \A d \in Calls \ {x} : rsv'[d] = rsv[d]
  BY MarksRow
<1> SUFFICES ASSUME NEW u \in Units(i)' PROVE u \in Units(i)
  OBVIOUS
<1>2. PICK r \in Calls : /\ rsv'[r] # None /\ rsv'[r].status = "RESERVED"
                         /\ u \in {r} \X {k \in DOMAIN rsv'[r].items : rsv'[r].items[k] = i}
  BY UnitsElementsNext
<1>3. rsv'[r] = rsv[r]
  BY <1>1, <1>2
<1> QED
  BY <1>2, <1>3, UnitsElements

\* Every step keeps the units finite and, as long as only reserves have arrived,
\* conserves the stock.
LEMMA NextUnits ==
    ASSUME IInv, [Next]_vars
    PROVE  UnitsInv' /\ ReservesConserveStock'
<1>0. UnitsInv /\ ReservesConserveStock /\ TypeOK
  BY DEF IInv
<1>1. ASSUME rsv' = rsv PROVE UnitsInv' /\ \A i \in Items : Reserved(i)' = Reserved(i)
  <2>1. \A i \in Items : Units(i)' = Units(i)
    BY <1>1 DEF Units
  <2> QED
    BY <1>0, <2>1 DEF UnitsInv, Reserved
<1>2. CASE UNCHANGED <<rsv, stock>>
  <2>1. UnitsInv' /\ \A i \in Items : Reserved(i)' = Reserved(i)
    BY <1>1, <1>2
  <2>2. StockConservation => StockConservation'
    BY <1>2, <2>1 DEF StockConservation
  <2> QED
    BY <1>0, <2>1, <2>2, RequestsBefore DEF ReservesConserveStock
<1>3. ASSUME NEW c \in Calls, CommitReserve(c), ~KeyIsStored(op[c].key)
      PROVE  UnitsInv' /\ ReservesConserveStock'
  <2>1. UnitsInv'
    BY <1>3, UnitsAdded DEF UnitsInv
  <2>2. ASSUME OnlyReserves', NEW i \in Items, InitialStock[i] # None
        PROVE  stock'[i] + Reserved(i)' = InitialStock[i]
    <3>1. stock[i] + Reserved(i) = InitialStock[i]
      BY <1>0, <2>2, RequestsBefore DEF ReservesConserveStock, StockConservation
    <3>2. PICK s \in Seq(Items) : s = op[c].items
      BY <1>3, ReserveHolds DEF CommitReserve
    <3>3. PICK n \in Nat, m \in Nat : n = Occurrences(s, i) /\ m = Reserved(i) /\ Reserved(i)' = m + n
      BY <1>3, <3>2, UnitsAdded, OccurrencesType
    <3>4. stock[i] \in Int
      BY <1>0, <2>2 DEF IInv, StockInv, TypeOK
    <3>5. stock'[i] = stock[i] - n
      <4>1. stock' = Decremented(c)
        BY <1>3 DEF CommitReserve
      <4>2. CASE i \in Range(op[c].items)
        BY <3>2, <3>3, <4>1, <4>2 DEF Decremented
      <4>3. CASE i \notin Range(op[c].items)
        <5>1. {k \in DOMAIN s : s[k] = i} = {}
          BY <3>2, <4>3 DEF Range
        <5>2. n = 0
          BY <3>3, <5>1, FS_EmptySet DEF Occurrences
        <5> QED
          BY <3>4, <4>1, <4>3, <5>2 DEF Decremented
      <4> QED
        BY <4>2, <4>3
    <3> QED
      BY <3>1, <3>3, <3>4, <3>5
  <2>3. ReservesConserveStock'
    BY <2>2 DEF ReservesConserveStock, StockConservation
  <2> QED
    BY <2>1, <2>3
<1>4. ASSUME NEW c \in Calls, CommitRelease(c) PROVE UnitsInv' /\ ReservesConserveStock'
  <2>1. \A i \in Items : IsFiniteSet(Units(i)')
    BY <1>0, <1>4, UnitsReleased, FS_Subset DEF UnitsInv
  <2>2. UnitsInv'
    BY <2>1 DEF UnitsInv
  <2>3. Asks(c, "release") /\ op' = op
    BY <1>4 DEF CommitRelease, IInv, KindInv
  <2>4. ~OnlyReserves'
    BY <2>3 DEF OnlyReserves, Asks
  <2> QED
    BY <2>2, <2>4 DEF ReservesConserveStock
<1>5. ASSUME NEW c \in Calls, SetStock(c) PROVE UnitsInv' /\ ReservesConserveStock'
  <2>1. Asks(c, "setstock") /\ UNCHANGED <<op, rsv>>
    BY <1>5 DEF SetStock, IInv, KindInv
  <2>2. ~OnlyReserves'
    BY <2>1 DEF OnlyReserves, Asks
  <2> QED
    BY <1>1, <2>1, <2>2 DEF ReservesConserveStock
<1>6. ASSUME NEW c \in Calls, Step(c) PROVE UnitsInv' /\ ReservesConserveStock'
  <2>1. \/ UNCHANGED <<rsv, stock>>
        \/ CommitReserve(c) /\ ~KeyIsStored(op[c].key)
        \/ CommitRelease(c)
        \/ SetStock(c)
    <3>1. ASSUME NEW request \in Requests, Arrive(c, request) PROVE UNCHANGED <<rsv, stock>>
      BY <3>1 DEF Arrive
    <3>2. CheckCache(c) => UNCHANGED <<rsv, stock>>
      BY DEF CheckCache
    <3>3. LockItem(c) \/ OutOfStock(c) => UNCHANGED <<rsv, stock>>
      BY DEF LockItem, OutOfStock
    <3>4. CommitReserve(c) /\ KeyIsStored(op[c].key) => UNCHANGED <<rsv, stock>>
      BY DEF CommitReserve
    <3>5. FindReservation(c) \/ ReadItem(c) \/ LockUpdated(c) => UNCHANGED <<rsv, stock>>
      BY DEF FindReservation, ReadItem, LockUpdated
    <3>6. Remember(c) \/ AbortDeadlock(c) => UNCHANGED <<rsv, stock>>
      BY DEF Remember, AbortDeadlock
    <3> QED
      BY <1>6, <3>1, <3>2, <3>3, <3>4, <3>5, <3>6 DEF Step, CallStep
  <2> QED
    BY <1>2, <1>3, <1>4, <1>5, <2>1
<1>7. Restart \/ UNCHANGED vars => UNCHANGED <<rsv, stock>>
  BY DEF Restart, vars
<1> QED
  BY <1>2, <1>6, <1>7 DEF Next, Step

-----------------------------------------------------------------------------
(* The theorems *)

\* The inductive invariant holds in every reachable state.
THEOREM Invariance == Spec => []IInv
<1>1. Init => IInv
  <2> SUFFICES ASSUME Init PROVE IInv
    OBVIOUS
  <2>1. TypeOK
    BY InitType
  <2>2. \A c \in Calls : KindInv(c) /\ CallInv(c) /\ LockInv(c)
    BY DEF Init, KindInv, CallInv, LockInv
  <2>3. CacheInv
    BY DEF Init, CacheInv, Backed
  <2>4. StockInv /\ NoOversell
    BY InventoryAssumption DEF Init, StockInv, NoOversell
  <2>5. \A i \in Items : Units(i) = {}
    BY DEF Init, Units
  <2>6. IsFiniteSet({}) /\ Cardinality({}) = 0
    BY FS_EmptySet
  <2>7. \A i \in Items : IsFiniteSet(Units(i)) /\ Reserved(i) = 0
    BY <2>5, <2>6 DEF Reserved
  <2>8. \A i \in Items : InitialStock[i] # None => stock[i] + 0 = InitialStock[i]
    BY InventoryAssumption DEF Init
  <2> QED
    BY <2>1, <2>2, <2>3, <2>4, <2>7, <2>8 DEF IInv, UnitsInv, ReservesConserveStock, StockConservation
<1>2. IInv /\ [Next]_vars => IInv'
  <2> SUFFICES ASSUME IInv, [Next]_vars PROVE IInv'
    OBVIOUS
  <2>1. TypeOK' /\ CacheInv' /\ StockInv' /\ NoOversell' /\ UnitsInv' /\ ReservesConserveStock'
    BY NextType, NextCache, NextStock, NextUnits
  <2>2. \A c \in Calls : KindInv(c)' /\ CallInv(c)' /\ LockInv(c)'
    BY NextCalls, NextLocks
  <2> QED
    BY <2>1, <2>2 DEF IInv
<1> QED
  BY <1>1, <1>2, PTL DEF Spec

\* Every variable keeps its type.
THEOREM TypeCorrect == Spec => []TypeOK
<1>1. IInv => TypeOK
  BY DEF IInv
<1> QED
  BY <1>1, Invariance, PTL

\* reserve_stock never takes stock below zero, whatever it interleaves with, if
\* no request names an item twice and no stock is set below zero.
THEOREM StockIsNeverOversold == Spec => []NoOversell
<1>1. IInv => NoOversell
  BY DEF IInv
<1> QED
  BY <1>1, Invariance, PTL

\* Reserves alone neither lose nor invent a unit.
THEOREM ReservesConserve == Spec => []ReservesConserveStock
<1>1. IInv => ReservesConserveStock
  BY DEF IInv
<1> QED
  BY <1>1, Invariance, PTL

\* A client that was told RESERVED has a reservation under its own key.
THEOREM AcknowledgedStaysStored == Spec => []AcknowledgedIsStored
<1>1. IInv => AcknowledgedIsStored
  BY DEF IInv, CallInv, Backed, AcknowledgedIsStored
<1> QED
  BY <1>1, Invariance, PTL

-----------------------------------------------------------------------------
(* The safety half of CallsEnd *)

\* A row lock belongs to a transaction that is still open.
LocksAreOfOpen ==
    \A i \in Items : lock[i] # None => pc[lock[i]] \in {"lock", "write"}

\* Nobody who has answered or died keeps a row locked: every way out of a
\* handler (commit, rollback after a repeated key, out of stock, deadlock,
\* restart) ends the transaction.  So whoever waits for a row waits for a call
\* that still has steps to take.
THEOREM NoLockLeaks == Spec => []LocksAreOfOpen
<1>1. Init => LocksAreOfOpen
  BY DEF Init, LocksAreOfOpen
<1>2. ASSUME IInv, LocksAreOfOpen, [Next]_vars PROVE LocksAreOfOpen'
  <2>0. TypeOK /\ None \notin Calls
    BY <1>2, InventoryAssumption DEF IInv
  <2>1. ASSUME NEW c \in Calls, Step(c), NEW i \in Items, lock'[i] # None
        PROVE  pc'[lock'[i]] \in {"lock", "write"}
    <3>1. CASE LockItem(c) \/ LockUpdated(c)
      <4>1. /\ pc[c] \in {"lock", "write"} /\ pc' = pc
            /\ lock' = [lock EXCEPT ![NextRow(c)] = c]
        BY <3>1 DEF LockItem, LockUpdated
      <4>2. lock'[i] = c \/ lock'[i] = lock[i]
        BY <2>0, <4>1 DEF TypeOK
      <4> QED
        BY <1>2, <2>1, <4>1, <4>2 DEF LocksAreOfOpen
    <3>2. CASE UnlockAll(c)
      <4>1. lock'[i] = lock[i] /\ lock[i] # c /\ lock[i] \in Calls
        BY <2>0, <2>1, <3>2, UnlockType DEF TypeOK
      <4>2. pc'[lock[i]] = pc[lock[i]]
        BY <2>0, <2>1, <4>1, OthersStay
      <4> QED
        BY <1>2, <2>1, <4>1, <4>2 DEF LocksAreOfOpen
    <3>3. CASE lock' = lock /\ pc[c] \notin {"lock", "write"}
      <4>1. lock[i] \in Calls /\ lock[i] # c
        BY <1>2, <2>0, <2>1, <3>3 DEF LocksAreOfOpen, TypeOK
      <4>2. pc'[lock[i]] = pc[lock[i]]
        BY <2>0, <2>1, <4>1, OthersStay
      <4> QED
        BY <1>2, <2>1, <3>3, <4>2 DEF LocksAreOfOpen
    <3> QED
      BY <2>1, <3>1, <3>2, <3>3 DEF Step, CallStep, Arrive, CheckCache, OutOfStock,
         CommitReserve, FindReservation, ReadItem, CommitRelease, Remember, SetStock, AbortDeadlock
  <2>2. CASE Restart
    BY <2>2 DEF Restart, LocksAreOfOpen
  <2>3. CASE UNCHANGED vars
    BY <1>2, <2>3 DEF vars, LocksAreOfOpen
  <2> QED
    BY <1>2, <2>1, <2>2, <2>3 DEF Next, Step, LocksAreOfOpen
<1> QED
  BY <1>1, <1>2, Invariance, PTL DEF Spec
=============================================================================
